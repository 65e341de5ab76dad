---------------------------- MODULE SenderProofs ----------------------------
(***************************************************************************)
(* What holds of the TCPSender for every capacity, window, payload limit,  *)
(* length of the stream and sequence of acknowledgments, provided that     *)
(* nobody acknowledges the SYN before it was sent.                         *)
(***************************************************************************)
EXTENDS TCPSenderSystem, Lemmas, FiniteSetTheorems, FunctionTheorems

USE SenderAssumption, WrapAssumption

-----------------------------------------------------------------------------
(* Outstanding messages u that cover the sequence numbers from the oldest  *)
(* up to next without a hole.                                              *)
Tiles(u, next) ==
  /\ DOMAIN u \subseteq Nat
  /\ \A k \in DOMAIN u :
       /\ sequence_length(u[k]) \in Nat \ {0}
       /\ k + sequence_length(u[k]) <= next
       /\ k + sequence_length(u[k]) = next \/ k + sequence_length(u[k]) \in DOMAIN u
       /\ \A j \in DOMAIN u : j < k => j + sequence_length(u[j]) <= k

(* The oldest outstanding message is there when any is.                    *)
LEMMA FirstFacts ==
  ASSUME NEW q, DOMAIN q.unacked \subseteq Nat, DOMAIN q.unacked # {}
  PROVE  /\ First(q) \in DOMAIN q.unacked
         /\ \A k \in DOMAIN q.unacked : First(q) <= k
<1>1. PICK k \in DOMAIN q.unacked : \A j \in DOMAIN q.unacked : k <= j
  BY LeastExists
<1> QED
  BY <1>1 DEF First

(* Every number from the oldest message to next lies in some message.      *)
LEMMA OwnerExists ==
  ASSUME NEW u, NEW next \in Nat, Tiles(u, next),
         NEW first \in DOMAIN u, NEW n \in Nat, first <= n, n < next
  PROVE  \E k \in DOMAIN u : k <= n /\ n < k + sequence_length(u[k])
<1> DEFINE before == { k \in DOMAIN u : k <= n }
<1>1. before \in SUBSET Nat /\ before # {} /\ \A k \in before : k <= n
  BY DEF Tiles
<1>2. PICK k \in before : \A j \in before : j <= k
  BY <1>1, GreatestExists
<1>3. k \in Nat /\ k <= n /\ k \in DOMAIN u /\ sequence_length(u[k]) \in Nat \ {0}
  BY DEF Tiles
<1>4. ASSUME k + sequence_length(u[k]) <= n
      PROVE  FALSE
  <2>1. PICK e \in Nat : e = k + sequence_length(u[k])
    BY <1>3
  <2>2. e \in DOMAIN u
    BY <1>3, <1>4, <2>1 DEF Tiles
  <2>3. e \in before /\ e > k
    BY <1>3, <1>4, <2>1, <2>2
  <2> QED
    BY <1>2, <1>3, <2>1, <2>3
<1> QED
  BY <1>3, <1>4

(* So what is in flight is the distance from the oldest message to next.   *)
LEMMA InFlightFacts ==
  ASSUME NEW q, NEW next \in Nat, Tiles(q.unacked, next)
  PROVE  /\ DOMAIN q.unacked = {} => sequence_numbers_in_flight(q) = 0
         /\ DOMAIN q.unacked # {} =>
              /\ First(q) \in Nat
              /\ First(q) < next
              /\ sequence_numbers_in_flight(q) = next - First(q)
<1> DEFINE u == q.unacked
           places == UNION { {k} \X (1..sequence_length(u[k])) : k \in DOMAIN u }
<1>1. sequence_numbers_in_flight(q) = Cardinality(places)
  BY DEF sequence_numbers_in_flight
<1>2. CASE DOMAIN u = {}
  <2>1. places = {}
    BY <1>2
  <2> QED
    BY <1>1, <1>2, <2>1, FS_EmptySet
<1>3. CASE DOMAIN u # {}
  <2> DEFINE first == First(q)
             numbers == first..(next - 1)
             g == [p \in places |-> p[1] + p[2] - 1]
  <2>1. /\ first \in DOMAIN u /\ \A k \in DOMAIN u : first <= k
        /\ first \in Nat
    BY <1>3, FirstFacts DEF Tiles
  <2>2. first < next
    BY <2>1 DEF Tiles
  <2>3. \A p \in places : \E k \in DOMAIN u :
          /\ p = <<p[1], p[2]>> /\ p[1] = k /\ k \in Nat
          /\ p[2] \in 1..sequence_length(u[k])
          /\ sequence_length(u[k]) \in Nat \ {0}
    BY DEF Tiles
  <2>4. \A k \in DOMAIN u : \A i \in 1..sequence_length(u[k]) : <<k, i>> \in places
    OBVIOUS
  <2> HIDE DEF places, first
  <2>5. g \in [places -> numbers]
    <3>1. SUFFICES ASSUME NEW p \in places PROVE p[1] + p[2] - 1 \in numbers
      OBVIOUS
    <3>2. PICK k \in DOMAIN u :
          /\ p = <<p[1], p[2]>> /\ p[1] = k /\ k \in Nat
          /\ p[2] \in 1..sequence_length(u[k])
          /\ sequence_length(u[k]) \in Nat \ {0}
      BY <2>3
    <3>3. k + sequence_length(u[k]) <= next /\ first <= k
      BY <2>1 DEF Tiles
    <3> QED
      BY <2>1, <3>2, <3>3
  <2>6. ASSUME NEW p \in places, NEW r \in places, g[p] = g[r]
        PROVE  p = r
    <3>1. PICK k \in DOMAIN u :
          /\ p = <<p[1], p[2]>> /\ p[1] = k /\ k \in Nat
          /\ p[2] \in 1..sequence_length(u[k])
          /\ sequence_length(u[k]) \in Nat \ {0}
      BY <2>3
    <3>2. PICK j \in DOMAIN u :
          /\ r = <<r[1], r[2]>> /\ r[1] = j /\ j \in Nat
          /\ r[2] \in 1..sequence_length(u[j])
          /\ sequence_length(u[j]) \in Nat \ {0}
      BY <2>3
    <3>3. k + p[2] - 1 = j + r[2] - 1
      BY <2>6, <3>1, <3>2
    <3>4. ~(j < k)
      <4>1. ASSUME j < k PROVE FALSE
        <5>1. j + sequence_length(u[j]) <= k
          BY <4>1 DEF Tiles
        <5> QED
          BY <3>1, <3>2, <3>3, <5>1
      <4> QED
        BY <4>1
    <3>5. ~(k < j)
      <4>1. ASSUME k < j PROVE FALSE
        <5>1. k + sequence_length(u[k]) <= j
          BY <4>1 DEF Tiles
        <5> QED
          BY <3>1, <3>2, <3>3, <5>1
      <4> QED
        BY <4>1
    <3>6. k = j /\ p[2] = r[2]
      <4>1. PICK a \in Nat, b \in Nat : a = p[2] /\ b = r[2]
        BY <3>1, <3>2
      <4>2. k = j
        BY <3>1, <3>2, <3>4, <3>5
      <4>3. k + a - 1 = k + b - 1
        BY <3>3, <4>1, <4>2
      <4>4. k \in Nat
        BY <3>1
      <4>5. a = b
        BY <4>3, <4>4
      <4> QED
        BY <4>1, <4>2, <4>5
    <3> QED
      BY <3>1, <3>2, <3>6
  <2>7. ASSUME NEW n \in numbers
        PROVE  \E p \in places : g[p] = n
    <3>1. n \in Nat /\ first <= n /\ n < next
      BY <2>1, <2>2
    <3>2. PICK k \in DOMAIN u : k <= n /\ n < k + sequence_length(u[k])
      BY <2>1, <3>1, OwnerExists
    <3>3. k \in Nat /\ sequence_length(u[k]) \in Nat
      BY DEF Tiles
    <3>4. n - k + 1 \in 1..sequence_length(u[k])
      BY <3>1, <3>2, <3>3
    <3>5. <<k, n - k + 1>> \in places
      BY <2>4, <3>4
    <3>6. g[<<k, n - k + 1>>] = n
      BY <3>1, <3>3, <3>5
    <3> QED
      BY <3>5, <3>6
  <2>8. ExistsBijection(places, numbers)
    <3> HIDE DEF g, numbers
    <3>1. DOMAIN g = places
      BY <2>5
    <3>2. g \in Injection(places, numbers)
      BY <2>5, <2>6, <3>1 DEF Injection, IsInjective
    <3>3. g \in Surjection(places, numbers)
      BY <2>5, <2>7 DEF Surjection
    <3> QED
      BY <3>2, <3>3 DEF ExistsBijection, Bijection
  <2>9. ExistsBijection(numbers, places)
    BY <2>8, Fun_ExistsBijSymmetric
  <2>10. IsFiniteSet(numbers) /\ Cardinality(numbers) = next - first
    <3>1. PICK l \in Int : l = next - 1
      OBVIOUS
    <3>2. first \in Int /\ ~(first > l)
      BY <2>1, <2>2, <3>1
    <3>3. IsFiniteSet(first..l)
      BY <3>2, FS_Interval
    <3>4. Cardinality(first..l) = l - first + 1
      BY <3>2, FS_Interval
    <3> QED
      BY <2>1, <2>2, <3>1, <3>3, <3>4
  <2>11. Cardinality(places) = next - first
    BY <2>9, <2>10, FS_Bijection
  <2> QED
    BY <1>1, <1>3, <2>1, <2>2, <2>11 DEF first
<1> QED
  BY <1>2, <1>3
-----------------------------------------------------------------------------
(* The bytes of the stream: byte k is k.                                   *)
Content == 1..ToWrite

Msg == [seqno : Raw, SYN : BOOLEAN, payload : Seq(Content), FIN : BOOLEAN,
        RST : BOOLEAN]

Map == UNION { [keys -> Msg] : keys \in SUBSET Nat }

Sender ==
  [input : StreamType(Capacity, Content), isn : {ISN},
   RTO : Nat, timer_running : BOOLEAN, passed_time : Nat,
   window_size : Nat, next_abs_seqno : Nat, acked_abs_seqno : Nat,
   syn_sent : BOOLEAN, fin_sent : BOOLEAN, unacked : Map,
   consecutive_retransmissions : Nat]

One(condition) == IF condition THEN 1 ELSE 0

(* The stream of sender q holds what was written, w bytes, and not popped. *)
InStream(q, w) ==
  /\ w \in 0..ToWrite
  /\ w = BytesPushed(q.input)
  /\ BytesBuffered(q.input) <= Capacity
  /\ \A i \in 1..BytesBuffered(q.input) : q.input.queue[i] = q.input.popped + i
  /\ ~q.input.error

(* The flags and the counters tell the same story.                         *)
Counted(q) ==
  /\ q.acked_abs_seqno <= q.next_abs_seqno
  /\ q.syn_sent => q.next_abs_seqno = 1 + q.input.popped + One(q.fin_sent)
  /\ ~q.syn_sent =>
       /\ q.next_abs_seqno = 0 /\ q.input.popped = 0 /\ ~q.fin_sent
       /\ DOMAIN q.unacked = {} /\ q.window_size > 0
  /\ q.fin_sent => q.input.closed /\ BytesBuffered(q.input) = 0

(* MessagesInPlace of any sender, and the messages carry no RST.           *)
InPlace(q, w) ==
  \A k \in DOMAIN q.unacked :
    LET msg == q.unacked[k]
        first == IF msg.SYN THEN k + 1 ELSE k
    IN  /\ msg.SYN <=> k = 0
        /\ \A i \in 1..Len(msg.payload) : msg.payload[i] = first + i - 1
        /\ first + Len(msg.payload) <= q.input.popped + 1
        /\ msg.FIN => q.fin_sent /\ q.input.closed /\ k + sequence_length(msg) = w + 2
        /\ msg.seqno = wrap(k, ISN) /\ ~msg.RST

(* The timer and its timeout.                                              *)
Timed(q) ==
  /\ q.timer_running <=> DOMAIN q.unacked # {}
  /\ q.consecutive_retransmissions <= MaxRetx
  /\ q.RTO = TimeoutAfter[q.consecutive_retransmissions]
  /\ ~q.timer_running => q.consecutive_retransmissions = 0

(* What every operation keeps, of a sender q of w bytes.                   *)
Good(q, w) ==
  /\ q \in Sender
  /\ InStream(q, w)
  /\ Counted(q)
  /\ Tiles(q.unacked, q.next_abs_seqno)
  /\ InPlace(q, w)
  /\ Timed(q)

(* What push() adds: nothing that fits the window is held back.            *)
Settled(q) ==
  q.syn_sent /\ (BytesBuffered(q.input) > 0 \/ (IsFinished(q.input) /\ ~q.fin_sent))
    => ~MaySend(q)

(* One is a number.                                                        *)
LEMMA OneFacts ==
  ASSUME NEW b
  PROVE  One(b) \in 0..1 /\ (b => One(b) = 1) /\ (~b => One(b) = 0)
  BY DEF One

(* A map of messages, and what adding to it and removing from it gives.    *)
LEMMA MapFacts ==
  ASSUME NEW u \in Map
  PROVE  /\ DOMAIN u \subseteq Nat
         /\ \A k \in DOMAIN u : u[k] \in Msg
         /\ DOMAIN u = {} <=> u = << >>
<1>1. PICK keys \in SUBSET Nat : u \in [keys -> Msg]
  BY DEF Map
<1>2. DOMAIN u = {} => u = << >>
  BY <1>1
<1> QED
  BY <1>1, <1>2

(* A function from a set of numbers to messages is such a map.             *)
LEMMA MapNew ==
  ASSUME NEW keys \in SUBSET Nat, NEW u \in [keys -> Msg]
  PROVE  u \in Map /\ DOMAIN u = keys
  BY DEF Map

(* The fields of a sender.                                                 *)
LEMMA SenderFields ==
  ASSUME NEW q \in Sender
  PROVE  /\ q.input \in StreamType(Capacity, Content) /\ q.isn = ISN
         /\ q.RTO \in Nat /\ q.timer_running \in BOOLEAN /\ q.passed_time \in Nat
         /\ q.window_size \in Nat /\ q.next_abs_seqno \in Nat
         /\ q.acked_abs_seqno \in Nat
         /\ q.syn_sent \in BOOLEAN /\ q.fin_sent \in BOOLEAN /\ q.unacked \in Map
         /\ q.consecutive_retransmissions \in Nat
  BY DEF Sender

(* The stream of a sender.                                                 *)
LEMMA InputFacts ==
  ASSUME NEW q, NEW w, Good(q, w)
  PROVE  /\ q.input \in StreamType(Capacity, Content)
         /\ q.input.queue \in Seq(Content) /\ q.input.popped \in Nat
         /\ q.input.capacity = Capacity
         /\ q.input.closed \in BOOLEAN
         /\ Len(q.input.queue) \in Nat
         /\ BytesBuffered(q.input) = Len(q.input.queue)
         /\ w = q.input.popped + BytesBuffered(q.input)
         /\ w \in 0..ToWrite
<1>1. q.input \in StreamType(Capacity, Content)
  BY DEF Good, Sender
<1>2. /\ q.input.queue \in Seq(Content) /\ q.input.popped \in Nat
      /\ q.input.capacity = Capacity /\ q.input.closed \in BOOLEAN
      /\ Len(q.input.queue) \in Nat
      /\ BytesBuffered(q.input) = Len(q.input.queue)
      /\ BytesPushed(q.input) = q.input.popped + BytesBuffered(q.input)
  BY <1>1, StreamFields
<1> QED
  BY <1>1, <1>2 DEF Good, InStream

(* peek() shows something when anything is buffered.                       *)
LEMMA PeekFacts ==
  ASSUME NEW q, NEW w, Good(q, w)
  PROVE  /\ PeekLength(q.input) \in 0..BytesBuffered(q.input)
         /\ BytesBuffered(q.input) > 0 => PeekLength(q.input) > 0
<1> DEFINE at == q.input.popped % q.input.capacity
<1>1. /\ q.input.popped \in Nat /\ q.input.capacity = Capacity
      /\ BytesBuffered(q.input) \in Nat
  BY InputFacts
<1>2. at \in 0..(Capacity - 1)
  <2>1. PICK n \in Int : n = q.input.popped
    BY <1>1
  <2>2. n % Capacity \in 0..(Capacity - 1)
    BY ModRange
  <2> QED
    BY <1>1, <2>1, <2>2
<1>3. PeekLength(q.input) = Lesser(Capacity - at, BytesBuffered(q.input))
  BY <1>1 DEF PeekLength
<1> HIDE DEF at
<1> QED
  BY <1>1, <1>2, <1>3 DEF Lesser

(* What is in flight, from the outstanding messages.                       *)
LEMMA FlightFacts ==
  ASSUME NEW q, NEW w, Good(q, w)
  PROVE  /\ sequence_numbers_in_flight(q) \in Nat
         /\ DOMAIN q.unacked = {} => sequence_numbers_in_flight(q) = 0
         /\ DOMAIN q.unacked # {} =>
              /\ First(q) \in DOMAIN q.unacked /\ First(q) \in Nat
              /\ First(q) < q.next_abs_seqno
              /\ sequence_numbers_in_flight(q) = q.next_abs_seqno - First(q)
<1>1. q.next_abs_seqno \in Nat /\ Tiles(q.unacked, q.next_abs_seqno)
      /\ DOMAIN q.unacked \subseteq Nat
  BY DEF Good, Sender, Tiles
<1>2. /\ DOMAIN q.unacked = {} => sequence_numbers_in_flight(q) = 0
      /\ DOMAIN q.unacked # {} =>
           /\ First(q) \in Nat
           /\ First(q) < q.next_abs_seqno
           /\ sequence_numbers_in_flight(q) = q.next_abs_seqno - First(q)
  BY <1>1, InFlightFacts
<1>3. DOMAIN q.unacked # {} => First(q) \in DOMAIN q.unacked
  BY <1>1, FirstFacts
<1> QED
  BY <1>1, <1>2, <1>3
-----------------------------------------------------------------------------
(* How much the next message takes: it fits the room, a probe is one byte, *)
(* and nothing is taken only when there is nothing to take.                *)
LEMMA PayloadFacts ==
  ASSUME NEW q, NEW w, Good(q, w), MaySend(q)
  PROVE  /\ PayloadLength(q) \in 0..BytesBuffered(q.input)
         /\ q.syn_sent /\ BytesBuffered(q.input) > 0 => PayloadLength(q) > 0
         /\ Room(q) \in Nat \ {0}
         /\ PayloadLength(q) + One(~q.syn_sent) <= Room(q)
         /\ q.window_size = 0 =>
              Room(q) = 1 /\ sequence_numbers_in_flight(q) = 0
         /\ q.window_size > 0 =>
              Room(q) + sequence_numbers_in_flight(q) = q.window_size
<1> DEFINE shown == PeekLength(q.input)
           flight == sequence_numbers_in_flight(q)
           window == q.window_size
           room == Room(q)
           n == PayloadLength(q)
           buffered == BytesBuffered(q.input)
<1>1. /\ shown \in 0..buffered
      /\ buffered > 0 => shown > 0
      /\ buffered \in Nat
  BY PeekFacts, InputFacts
<1>2. flight \in Nat /\ window \in Nat /\ (~q.syn_sent => window > 0)
  BY FlightFacts DEF Good, Sender, Counted
<1>3. window > flight \/ (window = 0 /\ flight = 0)
  BY DEF MaySend
<1>4. room = IF window = 0 THEN 1 ELSE window - flight
  BY DEF Room
<1>5. One(~q.syn_sent) = IF q.syn_sent THEN 0 ELSE 1
  BY DEF One
<1>6. CASE window = 0
  <2>1. n = Lesser(1, shown)
    BY <1>6 DEF PayloadLength
  <2>2. q.syn_sent
    BY <1>2, <1>6
  <2> HIDE DEF n, shown, flight, window, room, buffered
  <2> QED
    BY <1>1, <1>2, <1>3, <1>4, <1>5, <1>6, <2>1, <2>2
       DEF Lesser, n, shown, flight, window, room, buffered
<1>7. CASE window # 0
  <2> DEFINE space == IF q.syn_sent THEN room ELSE room - 1
  <2>1. n = Lesser(shown, Lesser(MaxPayload, space))
    BY <1>7 DEF PayloadLength
  <2> HIDE DEF n, shown, flight, window, room, buffered
  <2>2. room \in Nat \ {0} /\ room + flight = window
    BY <1>2, <1>3, <1>4, <1>7
  <2>3. space \in Nat /\ (q.syn_sent => space > 0) /\ space + One(~q.syn_sent) = room
    BY <1>5, <2>2
  <2> HIDE DEF space
  <2>4. n \in 0..buffered /\ n <= space /\ (q.syn_sent /\ buffered > 0 => n > 0)
    BY <1>1, <2>1, <2>3 DEF Lesser
  <2>5. n + One(~q.syn_sent) <= room
    BY <1>1, <1>5, <2>2, <2>3, <2>4
  <2> QED
    BY <1>2, <1>7, <2>2, <2>4, <2>5
       DEF n, shown, flight, window, room, buffered
<1> QED
  BY <1>6, <1>7

(* A message from its fields.                                              *)
LEMMA UpdateMessage ==
  ASSUME NEW seqno, NEW no, NEW error, NEW SYN, NEW payload, NEW FIN, NEW m,
         m = [seqno |-> seqno, SYN |-> no, payload |-> << >>, FIN |-> no, RST |-> error]
  PROVE  [m EXCEPT !.payload = payload, !.SYN = SYN, !.FIN = FIN]
         = [seqno |-> seqno, SYN |-> SYN, payload |-> payload, FIN |-> FIN, RST |-> error]
<1> DEFINE a == [m EXCEPT !.payload = payload]
           b == [a EXCEPT !.SYN = SYN]
<1>1. [m EXCEPT !.payload = payload, !.SYN = SYN, !.FIN = FIN] = [b EXCEPT !.FIN = FIN]
  OBVIOUS
<1>2. a = [seqno |-> seqno, SYN |-> no, payload |-> payload, FIN |-> no, RST |-> error]
  OBVIOUS
<1> HIDE DEF a
<1>3. b = [seqno |-> seqno, SYN |-> SYN, payload |-> payload, FIN |-> no, RST |-> error]
  BY <1>2
<1> HIDE DEF b
<1>4. [b EXCEPT !.FIN = FIN]
      = [seqno |-> seqno, SYN |-> SYN, payload |-> payload, FIN |-> FIN, RST |-> error]
  BY <1>3
<1> QED
  BY <1>1, <1>4

(* The message push() makes: the next bytes of the stream under the next   *)
(* sequence number, within the room.  It is empty only when there is       *)
(* nothing to send.                                                        *)
LEMMA MessageFacts ==
  ASSUME NEW q, NEW w, Good(q, w), MaySend(q)
  PROVE  LET msg == NextMessage(q)
             n == PayloadLength(q) IN
         /\ msg \in Msg
         /\ msg.seqno = wrap(q.next_abs_seqno, ISN)
         /\ ~msg.RST
         /\ msg.SYN <=> ~q.syn_sent
         /\ msg.FIN => ~q.fin_sent /\ q.input.closed /\ n = BytesBuffered(q.input)
         /\ Len(msg.payload) = n
         /\ \A i \in 1..n : msg.payload[i] = q.input.queue[i]
         /\ sequence_length(msg) = n + One(msg.SYN) + One(msg.FIN)
         /\ sequence_length(msg) \in Nat
         /\ sequence_length(msg) <= Room(q)
         /\ sequence_length(msg) = 0 =>
              /\ q.syn_sent /\ n = 0 /\ ~msg.FIN
              /\ BytesBuffered(q.input) = 0
              /\ IsFinished(q.input) => q.fin_sent
<1> DEFINE n == PayloadLength(q)
           no == FALSE
           SYN == ~q.syn_sent
           FIN == MayFinish(q, n)
           payload == SubSeq(q.input.queue, 1, n)
           seqno == wrap(q.next_abs_seqno, ISN)
           error == q.input.error
           msg == NextMessage(q)
           m == make_empty_message(q)
           queue == q.input.queue
           buffered == BytesBuffered(q.input)
<1>1. /\ n \in 0..buffered /\ buffered = Len(queue) /\ buffered \in Nat
      /\ q.syn_sent /\ buffered > 0 => n > 0
      /\ Room(q) \in Nat \ {0}
      /\ n + One(~q.syn_sent) <= Room(q)
      /\ queue \in Seq(Content)
  BY PayloadFacts, InputFacts
<1>2. q \in Sender /\ q.isn = ISN /\ q.next_abs_seqno \in Nat /\ q.syn_sent \in BOOLEAN
      /\ q.fin_sent \in BOOLEAN /\ ~error
  BY SenderFields DEF Good, InStream
<1>3. error \in BOOLEAN
  BY SenderFields, StreamFields, <1>2
<1>4. m = [seqno |-> seqno, SYN |-> no, payload |-> << >>, FIN |-> no, RST |-> error]
  BY <1>2 DEF make_empty_message
<1>5. msg = [m EXCEPT !.payload = payload, !.SYN = SYN, !.FIN = FIN]
  BY DEF NextMessage, Message
<1>6. FIN <=> /\ ~q.fin_sent
              /\ IsFinished(Pop(q.input, n))
              /\ Room(q) >= n + (IF q.syn_sent THEN 0 ELSE 1) + 1
  BY DEF MayFinish
<1>7. FIN \in BOOLEAN /\ SYN \in BOOLEAN
  BY DEF MayFinish
<1> HIDE DEF no, m, n, FIN, SYN, payload, seqno, error, msg, queue, buffered
<1>8. msg = [seqno |-> seqno, SYN |-> SYN, payload |-> payload, FIN |-> FIN,
             RST |-> error]
  BY <1>4, <1>5, UpdateMessage
<1>9. /\ payload \in Seq(Content)
      /\ Len(payload) = n
      /\ \A i \in 1..n : payload[i] = queue[i]
  <2>1. \A i \in 1..n : queue[i] \in Content
    BY <1>1, ElementOfSeq
  <2>2. /\ SubSeq(queue, 1, n) \in Seq(Content)
        /\ Len(SubSeq(queue, 1, n)) = IF 1 <= n THEN n - 1 + 1 ELSE 0
        /\ \A i \in 1..(n - 1 + 1) : SubSeq(queue, 1, n)[i] = queue[1 + i - 1]
    BY <1>1, <2>1, SubSeqProperties
  <2>3. payload = SubSeq(queue, 1, n)
    BY DEF payload, queue
  <2> HIDE DEF payload
  <2> QED
    BY <1>1, <2>2, <2>3
<1>10. seqno \in Raw
  <2>1. PICK x \in Int : x = ISN + q.next_abs_seqno
    BY <1>2 DEF Raw
  <2>2. x % Mod \in 0..(Mod - 1)
    BY ModRange
  <2> QED
    BY <2>1, <2>2 DEF seqno, wrap, Raw
<1>11. msg \in Msg
  BY <1>3, <1>7, <1>8, <1>9, <1>10 DEF Msg
<1>12. /\ msg.seqno = seqno /\ msg.SYN = SYN /\ msg.payload = payload /\ msg.FIN = FIN
       /\ msg.RST = error
  BY <1>8
<1>13. IsFinished(Pop(q.input, n)) <=> q.input.closed /\ n = buffered
  <2>1. /\ Len(Pop(q.input, n).queue) = Len(queue) - n
        /\ Pop(q.input, n).closed = q.input.closed
        /\ Pop(q.input, n) \in StreamType(Capacity, Content)
    <3>1. q.input \in StreamType(Capacity, Content) /\ n \in Nat /\ n <= BytesBuffered(q.input)
      BY <1>1, InputFacts DEF buffered
    <3> QED
      BY <3>1, PopFacts DEF queue
  <2>2. Pop(q.input, n).queue \in Seq(Content)
    BY <2>1, StreamFields
  <2>3. Pop(q.input, n).queue = << >> <=> Len(Pop(q.input, n).queue) = 0
    BY <2>2, EmptySeq
  <2> QED
    BY <1>1, <2>1, <2>3 DEF IsFinished
<1>14. sequence_length(msg) = n + One(msg.SYN) + One(msg.FIN)
  <2>1. sequence_length(msg) = Len(payload) + One(msg.SYN) + One(msg.FIN)
    BY <1>12 DEF sequence_length, One
  <2> QED
    BY <1>9, <2>1
<1>15. sequence_length(msg) \in Nat /\ sequence_length(msg) <= Room(q)
  <2>1. One(msg.SYN) \in 0..1 /\ One(msg.FIN) \in 0..1
        /\ One(msg.SYN) = One(~q.syn_sent)
        /\ One(msg.SYN) = (IF q.syn_sent THEN 0 ELSE 1)
    <3>1. msg.SYN <=> ~q.syn_sent
      BY <1>12 DEF SYN
    <3>2. CASE q.syn_sent
      BY <3>1, <3>2, OneFacts
    <3>3. CASE ~q.syn_sent
      BY <3>1, <3>3, OneFacts
    <3> QED
      BY <3>2, <3>3
  <2>2. CASE FIN
    <3>1. One(msg.FIN) = 1
      BY <1>12, <2>2 DEF One
    <3> QED
      BY <1>1, <1>6, <1>14, <2>1, <2>2, <3>1
  <2>3. CASE ~FIN
    <3>1. One(msg.FIN) = 0
      BY <1>12, <2>3 DEF One
    <3> QED
      BY <1>1, <1>14, <2>1, <3>1
  <2> QED
    BY <2>2, <2>3
<1>16. msg.FIN => ~q.fin_sent /\ q.input.closed /\ n = buffered
  BY <1>6, <1>12, <1>13
<1>17. ASSUME sequence_length(msg) = 0
       PROVE  /\ q.syn_sent /\ n = 0 /\ ~msg.FIN
              /\ buffered = 0
              /\ IsFinished(q.input) => q.fin_sent
  <2>1. /\ One(msg.SYN) \in 0..1 /\ (msg.SYN => One(msg.SYN) = 1)
        /\ One(msg.FIN) \in 0..1 /\ (msg.FIN => One(msg.FIN) = 1)
    BY OneFacts
  <2>2. n = 0 /\ ~msg.SYN /\ ~msg.FIN
    BY <1>1, <1>14, <1>17, <2>1
  <2>3. q.syn_sent
    BY <1>12, <2>2 DEF SYN
  <2>4. buffered = 0
    BY <1>1, <2>2, <2>3
  <2>5. ASSUME IsFinished(q.input)
        PROVE  q.fin_sent
    <3>1. q.input.closed
      BY <2>5 DEF IsFinished
    <3>2. Room(q) >= n + 0 + 1
      BY <1>1, <2>2
    <3> QED
      BY <1>6, <1>12, <1>13, <2>2, <2>3, <2>4, <3>1, <3>2
  <2> QED
    BY <2>2, <2>3, <2>4, <2>5
<1>18. msg.SYN <=> ~q.syn_sent
  BY <1>12 DEF SYN
<1> QED
  BY <1>2, <1>9, <1>11, <1>12, <1>14, <1>15, <1>16, <1>17, <1>18
     DEF msg, n, seqno, buffered, queue
-----------------------------------------------------------------------------
(* The three parts of a sender's state, each kept by the operations on the *)
(* others.                                                                 *)
SameStream(p, q) ==
  p.input = q.input /\ p.syn_sent = q.syn_sent /\ p.fin_sent = q.fin_sent

SameSequence(p, q) ==
  /\ p.window_size = q.window_size /\ p.acked_abs_seqno = q.acked_abs_seqno
  /\ p.next_abs_seqno = q.next_abs_seqno /\ p.unacked = q.unacked

SameTimer(p, q) ==
  /\ p.RTO = q.RTO /\ p.timer_running = q.timer_running
  /\ p.consecutive_retransmissions = q.consecutive_retransmissions

(* Another stream in a sender.                                             *)
LEMMA InputSet ==
  ASSUME NEW q \in Sender, NEW i \in StreamType(Capacity, Content)
  PROVE  LET p == [q EXCEPT !.input = i] IN
         /\ p \in Sender
         /\ p.input = i /\ p.syn_sent = q.syn_sent /\ p.fin_sent = q.fin_sent
         /\ SameSequence(p, q) /\ SameTimer(p, q)
  BY DEF Sender, SameSequence, SameTimer

(* The stream and the flags after a message has been taken.                *)
LEMMA TookFacts ==
  ASSUME NEW q \in Sender, NEW msg \in Msg, Len(msg.payload) \in Nat,
         Len(msg.payload) <= BytesBuffered(q.input)
  PROVE  LET p == Took(q, msg) IN
         /\ p \in Sender
         /\ p.input = Pop(q.input, Len(msg.payload))
         /\ p.syn_sent
         /\ p.fin_sent <=> q.fin_sent \/ msg.FIN
         /\ SameSequence(p, q) /\ SameTimer(p, q)
<1> DEFINE i == Pop(q.input, Len(msg.payload))
           a == [q EXCEPT !.input = i]
           yes == TRUE
           f == q.fin_sent \/ msg.FIN
           p == Took(q, msg)
<1>1. i \in StreamType(Capacity, Content)
  BY SenderFields, PopFacts
<1>2. yes \in BOOLEAN /\ yes
  OBVIOUS
<1>3. f \in BOOLEAN /\ (f <=> q.fin_sent \/ msg.FIN)
  OBVIOUS
<1>4. p = [q EXCEPT !.input = i, !.syn_sent = yes, !.fin_sent = f]
  BY DEF Took
<1> HIDE DEF i, yes, f, p
<1>5. /\ a \in Sender
      /\ a.input = i
      /\ SameSequence(a, q) /\ SameTimer(a, q)
  BY <1>1, InputSet
<1>6. p = [a EXCEPT !.syn_sent = yes, !.fin_sent = f]
  BY <1>4 DEF Sender
<1> HIDE DEF a
<1>7. /\ p \in Sender
      /\ p.input = a.input /\ p.syn_sent = yes /\ p.fin_sent = f
      /\ SameSequence(p, a) /\ SameTimer(p, a)
  <2> DEFINE b == [a EXCEPT !.syn_sent = yes]
  <2>1. p = [b EXCEPT !.fin_sent = f]
    BY <1>6 DEF Sender
  <2>2. /\ b \in Sender
        /\ b.input = a.input /\ b.syn_sent = yes
        /\ SameSequence(b, a) /\ SameTimer(b, a)
    BY <1>2, <1>5 DEF Sender, SameSequence, SameTimer
  <2> HIDE DEF b
  <2> QED
    BY <1>3, <2>1, <2>2 DEF Sender, SameSequence, SameTimer
<1>8. SameSequence(p, q) /\ SameTimer(p, q)
  BY <1>5, <1>7 DEF SameSequence, SameTimer
<1>9. p.input = i /\ p.syn_sent /\ (p.fin_sent <=> q.fin_sent \/ msg.FIN)
  BY <1>2, <1>3, <1>5, <1>7
<1> QED
  BY <1>7, <1>8, <1>9 DEF p, i

(* The timer runs, with no retransmission counted if it did not before.    *)
LEMMA StartTimerFacts ==
  ASSUME NEW q \in Sender
  PROVE  LET p == StartTimer(q) IN
         /\ p \in Sender
         /\ p.timer_running
         /\ p.RTO = q.RTO
         /\ q.timer_running => p.consecutive_retransmissions = q.consecutive_retransmissions
         /\ ~q.timer_running => p.consecutive_retransmissions = 0
         /\ SameStream(p, q) /\ SameSequence(p, q)
<1>1. CASE q.timer_running
  BY <1>1 DEF StartTimer, SameStream, SameSequence
<1>2. CASE ~q.timer_running
  <2> DEFINE yes == TRUE
             a == [q EXCEPT !.timer_running = yes]
             b == [a EXCEPT !.passed_time = 0]
             p == StartTimer(q)
  <2>1. yes \in BOOLEAN /\ yes
    OBVIOUS
  <2>2. p = [q EXCEPT !.timer_running = yes, !.passed_time = 0,
                      !.consecutive_retransmissions = 0]
    BY <1>2 DEF StartTimer
  <2> HIDE DEF yes, p
  <2>3. p = [b EXCEPT !.consecutive_retransmissions = 0]
    BY <2>2 DEF Sender
  <2>4. /\ a \in Sender /\ a.timer_running = yes /\ a.RTO = q.RTO
        /\ SameStream(a, q) /\ SameSequence(a, q)
    BY <2>1 DEF Sender, SameStream, SameSequence
  <2> HIDE DEF a
  <2>5. /\ b \in Sender /\ b.timer_running = yes /\ b.RTO = q.RTO
        /\ SameStream(b, q) /\ SameSequence(b, q)
    BY <2>4 DEF Sender, SameStream, SameSequence
  <2> HIDE DEF b
  <2>6. /\ p \in Sender /\ p.timer_running = yes /\ p.RTO = q.RTO
        /\ p.consecutive_retransmissions = 0
        /\ SameStream(p, q) /\ SameSequence(p, q)
    BY <2>3, <2>5 DEF Sender, SameStream, SameSequence
  <2> QED
    BY <1>2, <2>1, <2>6 DEF p
<1> QED
  BY <1>1, <1>2

(* A message becomes outstanding under the next sequence number.           *)
LEMMA SendMessageFacts ==
  ASSUME NEW st, NEW q \in Sender, NEW msg \in Msg, sequence_length(msg) \in Nat
  PROVE  LET sending == SendMessage(st, q, msg)
             p == sending.s IN
         /\ p \in Sender
         /\ p.unacked = Outstanding(q.unacked, q.next_abs_seqno, msg)
         /\ p.next_abs_seqno = q.next_abs_seqno + sequence_length(msg)
         /\ p.window_size = q.window_size /\ p.acked_abs_seqno = q.acked_abs_seqno
         /\ SameStream(p, q) /\ SameTimer(p, q)
         /\ sending.more <=> ~msg.RST
<1> DEFINE u == Outstanding(q.unacked, q.next_abs_seqno, msg)
           n == q.next_abs_seqno + sequence_length(msg)
           a == [q EXCEPT !.unacked = u]
           p == SendMessage(st, q, msg).s
           go == ~msg.RST
           sent == Append(st.sent, msg)
<1>1. q.unacked \in Map /\ q.next_abs_seqno \in Nat
  BY SenderFields
<1>2. u \in Map
  <2>1. /\ DOMAIN q.unacked \cup {q.next_abs_seqno} \in SUBSET Nat
        /\ \A k \in DOMAIN q.unacked : q.unacked[k] \in Msg
    BY <1>1, MapFacts
  <2>2. u \in [DOMAIN q.unacked \cup {q.next_abs_seqno} -> Msg]
    BY <2>1 DEF Outstanding
  <2> QED
    BY <2>1, <2>2, MapNew
<1>3. n \in Nat
  BY <1>1
<1>4. SendMessage(st, q, msg)
      = [s |-> [q EXCEPT !.unacked = u, !.next_abs_seqno = n], sent |-> sent, more |-> go]
  BY DEF SendMessage
<1>5. p = [q EXCEPT !.unacked = u, !.next_abs_seqno = n]
  BY <1>4
<1>6. SendMessage(st, q, msg).more <=> ~msg.RST
  <2>1. go <=> ~msg.RST
    OBVIOUS
  <2> HIDE DEF u, n, p, go, sent
  <2>2. SendMessage(st, q, msg).more = go
    BY <1>4
  <2> QED
    BY <2>1, <2>2
<1> HIDE DEF u, n, p
<1>7. p = [a EXCEPT !.next_abs_seqno = n]
  BY <1>5 DEF Sender
<1>8. /\ a \in Sender /\ a.unacked = u
      /\ a.window_size = q.window_size /\ a.acked_abs_seqno = q.acked_abs_seqno
      /\ SameStream(a, q) /\ SameTimer(a, q)
  BY <1>2 DEF Sender, SameStream, SameTimer
<1> HIDE DEF a
<1>9. /\ p \in Sender /\ p.unacked = u /\ p.next_abs_seqno = n
      /\ p.window_size = q.window_size /\ p.acked_abs_seqno = q.acked_abs_seqno
      /\ SameStream(p, q) /\ SameTimer(p, q)
  BY <1>3, <1>7, <1>8 DEF Sender, SameStream, SameTimer
<1> QED
  BY <1>6, <1>9 DEF p, u, n

(* A message made from sender q.                                           *)
Made(q, msg) ==
  /\ msg \in Msg
  /\ msg.seqno = wrap(q.next_abs_seqno, ISN)
  /\ ~msg.RST
  /\ msg.SYN <=> ~q.syn_sent
  /\ Len(msg.payload) \in 0..BytesBuffered(q.input)
  /\ \A i \in 1..Len(msg.payload) : msg.payload[i] = q.input.queue[i]
  /\ msg.FIN => /\ ~q.fin_sent /\ q.input.closed
                /\ Len(msg.payload) = BytesBuffered(q.input)
  /\ sequence_length(msg) = Len(msg.payload) + One(msg.SYN) + One(msg.FIN)

(* What push() makes of q after it has sent msg.                           *)
Sent(p, q, msg) ==
  /\ p \in Sender
  /\ p.input = Pop(q.input, Len(msg.payload))
  /\ p.syn_sent
  /\ p.fin_sent <=> q.fin_sent \/ msg.FIN
  /\ p.unacked = Outstanding(q.unacked, q.next_abs_seqno, msg)
  /\ p.next_abs_seqno = q.next_abs_seqno + sequence_length(msg)
  /\ p.window_size = q.window_size /\ p.acked_abs_seqno = q.acked_abs_seqno
  /\ p.timer_running /\ p.RTO = q.RTO
  /\ q.timer_running => p.consecutive_retransmissions = q.consecutive_retransmissions
  /\ ~q.timer_running => p.consecutive_retransmissions = 0

(* The stream and the flags after bytes have been taken from a sender.     *)
LEMMA TakenStream ==
  ASSUME NEW q, NEW p, NEW w, Good(q, w), NEW n \in 0..BytesBuffered(q.input),
         p.input = Pop(q.input, n)
  PROVE  /\ InStream(p, w)
         /\ p.input.popped = q.input.popped + n
         /\ BytesBuffered(p.input) = BytesBuffered(q.input) - n
         /\ p.input.closed = q.input.closed
<1> DEFINE old == q.input
           buffered == BytesBuffered(old)
<1>1. /\ old \in StreamType(Capacity, Content)
      /\ old.popped \in Nat /\ buffered \in Nat
      /\ buffered = Len(old.queue)
      /\ w = old.popped + buffered
      /\ w \in 0..ToWrite
  BY InputFacts
<1>2. /\ w = BytesPushed(old)
      /\ buffered <= Capacity
      /\ \A i \in 1..buffered : old.queue[i] = old.popped + i
      /\ ~old.error
  BY DEF Good, InStream
<1>3. n \in Nat /\ n <= buffered
  BY <1>1
<1> HIDE DEF old, buffered
<1>4. /\ Pop(old, n) \in StreamType(Capacity, Content)
      /\ Len(Pop(old, n).queue) = Len(old.queue) - n
      /\ \A i \in 1..(Len(old.queue) - n) : Pop(old, n).queue[i] = old.queue[n + i]
      /\ Pop(old, n).popped = old.popped + n
      /\ Pop(old, n).closed = old.closed
      /\ Pop(old, n).error = old.error
      /\ BytesPushed(Pop(old, n)) = BytesPushed(old)
  <2>1. n <= BytesBuffered(old)
    BY <1>3 DEF buffered
  <2> QED
    BY <1>1, <1>3, <2>1, PopFacts
<1> DEFINE new == Pop(old, n)
<1>5. p.input = new
  BY DEF old
<1>6. BytesBuffered(new) = buffered - n
  BY <1>1, <1>4 DEF BytesBuffered
<1>7. \A i \in 1..(buffered - n) : new.queue[i] = new.popped + i
  <2>1. SUFFICES ASSUME NEW i \in 1..(buffered - n)
                 PROVE  new.queue[i] = new.popped + i
    OBVIOUS
  <2>2. n + i \in 1..buffered
    BY <1>1, <1>3
  <2>3. new.queue[i] = old.queue[n + i]
    BY <1>1, <1>4
  <2>4. old.queue[n + i] = old.popped + (n + i)
    BY <1>2, <2>2
  <2> QED
    BY <1>1, <1>3, <1>4, <2>3, <2>4
<1> HIDE DEF new
<1>8. InStream(p, w)
  <2>1. w = BytesPushed(new) /\ ~new.error /\ buffered - n <= Capacity
    BY <1>1, <1>2, <1>3, <1>4 DEF new
  <2> QED
    BY <1>1, <1>5, <1>6, <1>7, <2>1 DEF InStream
<1> QED
  BY <1>4, <1>5, <1>6, <1>8 DEF new, old, buffered

(* The next sequence number of a sender, by its flags.                     *)
LEMMA NextFacts ==
  ASSUME NEW q, NEW w, Good(q, w)
  PROVE  /\ q.next_abs_seqno \in Nat /\ q.acked_abs_seqno \in 0..q.next_abs_seqno
         /\ q.syn_sent /\ q.fin_sent => /\ q.next_abs_seqno = q.input.popped + 2
                                        /\ q.input.closed
                                        /\ BytesBuffered(q.input) = 0
         /\ q.syn_sent /\ ~q.fin_sent => q.next_abs_seqno = q.input.popped + 1
         /\ ~q.syn_sent => /\ q.next_abs_seqno = 0 /\ q.input.popped = 0
                           /\ ~q.fin_sent /\ DOMAIN q.unacked = {}
                           /\ q.window_size > 0
         /\ q.next_abs_seqno <= w + 2
<1>1. /\ q.next_abs_seqno \in Nat /\ q.acked_abs_seqno \in Nat
      /\ q.acked_abs_seqno <= q.next_abs_seqno
  BY DEF Good, Sender, Counted
<1>2. /\ q.input.popped \in Nat /\ BytesBuffered(q.input) \in Nat
      /\ w = q.input.popped + BytesBuffered(q.input)
  BY InputFacts
<1>3. /\ q.syn_sent => q.next_abs_seqno = 1 + q.input.popped + One(q.fin_sent)
      /\ q.fin_sent => q.input.closed /\ BytesBuffered(q.input) = 0
      /\ ~q.syn_sent =>
           /\ q.next_abs_seqno = 0 /\ q.input.popped = 0 /\ ~q.fin_sent
           /\ DOMAIN q.unacked = {} /\ q.window_size > 0
  BY DEF Good, Counted
<1>4. /\ One(q.fin_sent) \in 0..1
      /\ q.fin_sent => One(q.fin_sent) = 1
      /\ ~q.fin_sent => One(q.fin_sent) = 0
  BY OneFacts
<1>5. q.syn_sent /\ q.fin_sent => q.next_abs_seqno = q.input.popped + 2
  <2>1. SUFFICES ASSUME q.syn_sent, q.fin_sent
                 PROVE  q.next_abs_seqno = q.input.popped + 2
    OBVIOUS
  <2>2. One(q.fin_sent) = 1
    BY <2>1 DEF One
  <2>3. q.next_abs_seqno = 1 + q.input.popped + 1
    BY <1>3, <2>1, <2>2
  <2> QED
    BY <1>2, <2>3
<1>6. q.syn_sent /\ ~q.fin_sent => q.next_abs_seqno = q.input.popped + 1
  BY <1>2, <1>3, <1>4
<1>7. q.next_abs_seqno <= w + 2
  BY <1>1, <1>2, <1>3, <1>5, <1>6
<1> QED
  BY <1>1, <1>3, <1>5, <1>6, <1>7

(* Sending keeps the counters in step with the flags.                      *)
LEMMA SentCounted ==
  ASSUME NEW q, NEW p, NEW w, NEW msg, Good(q, w), Made(q, msg), Sent(p, q, msg)
  PROVE  /\ Counted(p)
         /\ sequence_length(msg) \in Nat
         /\ msg.FIN => p.next_abs_seqno = w + 2
<1> DEFINE n == Len(msg.payload)
           len == sequence_length(msg)
           buffered == BytesBuffered(q.input)
           popped == q.input.popped
<1>1. /\ popped \in Nat /\ buffered \in Nat /\ w = popped + buffered
  BY InputFacts
<1>2. /\ n \in 0..buffered
      /\ len = n + One(msg.SYN) + One(msg.FIN)
      /\ msg.SYN <=> ~q.syn_sent
      /\ msg.FIN => ~q.fin_sent /\ q.input.closed /\ n = buffered
  BY DEF Made
<1>3. /\ p.input.popped = popped + n
      /\ BytesBuffered(p.input) = buffered - n
      /\ p.input.closed = q.input.closed
  <2>1. PICK m \in 0..BytesBuffered(q.input) : m = n /\ p.input = Pop(q.input, m)
    BY <1>2 DEF Sent
  <2>2. /\ p.input.popped = q.input.popped + m
        /\ BytesBuffered(p.input) = BytesBuffered(q.input) - m
        /\ p.input.closed = q.input.closed
    BY <2>1, TakenStream
  <2> QED
    BY <2>1, <2>2
<1>4. /\ p.syn_sent /\ (p.fin_sent <=> q.fin_sent \/ msg.FIN)
      /\ p.next_abs_seqno = q.next_abs_seqno + len
      /\ p.acked_abs_seqno = q.acked_abs_seqno
  BY DEF Sent
<1>5. /\ msg.SYN => One(msg.SYN) = 1
      /\ ~msg.SYN => One(msg.SYN) = 0
      /\ msg.FIN => One(msg.FIN) = 1
      /\ ~msg.FIN => One(msg.FIN) = 0
  BY DEF One
<1>6. /\ q.next_abs_seqno \in Nat /\ q.acked_abs_seqno \in 0..q.next_abs_seqno
      /\ q.syn_sent /\ q.fin_sent => /\ q.next_abs_seqno = popped + 2
                                     /\ q.input.closed
                                     /\ buffered = 0
      /\ q.syn_sent /\ ~q.fin_sent => q.next_abs_seqno = popped + 1
      /\ ~q.syn_sent => q.next_abs_seqno = 0 /\ popped = 0 /\ ~q.fin_sent
  BY NextFacts
<1> HIDE DEF n, len, buffered, popped
<1>7. PICK syn \in 0..1, fin \in 0..1 :
        syn = One(msg.SYN) /\ fin = One(msg.FIN)
  BY <1>5
<1>8. n \in Nat /\ len = n + syn + fin
  BY <1>1, <1>2, <1>7
<1>9. len \in Nat
  BY <1>8
<1>10. p.next_abs_seqno = 1 + p.input.popped + One(p.fin_sent)
  <2>1. CASE ~q.syn_sent
    <3>1. syn = 1 /\ q.next_abs_seqno = 0 /\ popped = 0
      BY <1>2, <1>5, <1>6, <1>7, <2>1
    <3>2. p.next_abs_seqno = n + 1 + fin
      BY <1>4, <1>8, <3>1
    <3>3. p.input.popped = n
      BY <1>3, <1>8, <3>1
    <3>4. One(p.fin_sent) = fin
      <4>1. p.fin_sent <=> msg.FIN
        BY <1>4, <1>6, <2>1
      <4> QED
        BY <1>5, <1>7, <4>1 DEF One
    <3> QED
      BY <1>8, <3>2, <3>3, <3>4
  <2>2. CASE q.syn_sent /\ q.fin_sent
    <3>1. syn = 0 /\ fin = 0 /\ n = 0 /\ q.next_abs_seqno = popped + 2
      BY <1>2, <1>5, <1>6, <1>7, <2>2
    <3>2. One(p.fin_sent) = 1
      BY <1>4, <2>2 DEF One
    <3> QED
      BY <1>1, <1>3, <1>4, <1>8, <3>1, <3>2
  <2>3. CASE q.syn_sent /\ ~q.fin_sent
    <3>1. syn = 0 /\ q.next_abs_seqno = popped + 1
      BY <1>2, <1>5, <1>6, <1>7, <2>3
    <3>2. One(p.fin_sent) = fin
      <4>1. p.fin_sent <=> msg.FIN
        BY <1>4, <2>3
      <4> QED
        BY <1>5, <1>7, <4>1 DEF One
    <3> QED
      BY <1>1, <1>3, <1>4, <1>8, <3>1, <3>2
  <2> QED
    BY <2>1, <2>2, <2>3
<1>11. p.acked_abs_seqno <= p.next_abs_seqno
  BY <1>4, <1>6, <1>9
<1>12. p.fin_sent => p.input.closed /\ BytesBuffered(p.input) = 0
  <2>1. q.fin_sent => q.syn_sent
    BY <1>6
  <2> QED
    BY <1>1, <1>2, <1>3, <1>4, <1>6, <2>1
<1>13. msg.FIN => p.next_abs_seqno = w + 2
  <2>1. SUFFICES ASSUME msg.FIN PROVE p.next_abs_seqno = w + 2
    OBVIOUS
  <2>2. One(p.fin_sent) = 1 /\ n = buffered
    BY <1>2, <1>4, <2>1 DEF One
  <2>3. p.next_abs_seqno = 1 + (popped + buffered) + 1
    BY <1>3, <1>10, <2>2
  <2> QED
    BY <1>1, <2>3
<1>14. Counted(p)
  BY <1>4, <1>10, <1>11, <1>12 DEF Counted
<1> QED
  BY <1>9, <1>13, <1>14 DEF len

(* The new message becomes the last tile.                                  *)
LEMMA OutstandingFacts ==
  ASSUME NEW u, NEW next \in Nat, NEW msg, Tiles(u, next),
         sequence_length(msg) \in Nat \ {0},
         NEW v, v = Outstanding(u, next, msg), NEW n, n = next + sequence_length(msg)
  PROVE  /\ next \notin DOMAIN u
         /\ DOMAIN v = DOMAIN u \cup {next}
         /\ \A k \in DOMAIN u : v[k] = u[k]
         /\ v[next] = msg
         /\ Tiles(v, n)
<1> DEFINE len == sequence_length(msg)
<1>1. \A k \in DOMAIN u : k \in Nat /\ sequence_length(u[k]) \in Nat \ {0}
                          /\ k + sequence_length(u[k]) <= next
  BY DEF Tiles
<1>2. \A k \in DOMAIN u : k < next
  BY <1>1
<1>3. next \notin DOMAIN u
  BY <1>2
<1>4. DOMAIN v = DOMAIN u \cup {next} /\ (\A k \in DOMAIN u : v[k] = u[k])
      /\ v[next] = msg
  BY <1>3 DEF Outstanding
<1>5. PICK l \in Nat \ {0} : l = len
  OBVIOUS
<1>6. Tiles(v, next + l)
  <2>1. DOMAIN v \subseteq Nat
    BY <1>1, <1>4
  <2>2. ASSUME NEW k \in DOMAIN v
        PROVE  /\ sequence_length(v[k]) \in Nat \ {0}
               /\ k + sequence_length(v[k]) <= next + l
               /\ k + sequence_length(v[k]) = next + l
                  \/ k + sequence_length(v[k]) \in DOMAIN v
               /\ \A j \in DOMAIN v : j < k => j + sequence_length(v[j]) <= k
    <3>1. CASE k = next
      <4>1. sequence_length(v[k]) = l
        BY <1>4, <1>5, <3>1
      <4>2. ASSUME NEW j \in DOMAIN v, j < k
            PROVE  j + sequence_length(v[j]) <= k
        <5>1. j \in DOMAIN u /\ v[j] = u[j]
          BY <1>4, <3>1, <4>2
        <5> QED
          BY <1>1, <3>1, <5>1
      <4> QED
        BY <3>1, <4>1, <4>2
    <3>2. CASE k # next
      <4>1. k \in DOMAIN u /\ v[k] = u[k] /\ k < next /\ k \in Nat
        BY <1>1, <1>2, <1>4, <3>2
      <4>2. PICK e \in Nat : e = k + sequence_length(u[k])
        BY <1>1, <4>1
      <4>3. e <= next /\ (e = next \/ e \in DOMAIN u)
        BY <4>1, <4>2 DEF Tiles
      <4>4. e <= next + l /\ e \in DOMAIN v
        BY <1>4, <4>3
      <4>5. ASSUME NEW j \in DOMAIN v, j < k
            PROVE  j + sequence_length(v[j]) <= k
        <5>1. j \in DOMAIN u /\ v[j] = u[j]
          BY <1>1, <1>4, <4>1, <4>5
        <5> QED
          BY <4>1, <4>5, <5>1 DEF Tiles
      <4> QED
        BY <1>1, <4>1, <4>2, <4>4, <4>5
    <3> QED
      BY <3>1, <3>2
  <2> QED
    BY <2>1, <2>2 DEF Tiles
<1> QED
  BY <1>3, <1>4, <1>5, <1>6

(* The new message stands at its place of the stream.                      *)
LEMMA SentInPlace ==
  ASSUME NEW q, NEW p, NEW w, NEW msg, Good(q, w), Made(q, msg), Sent(p, q, msg),
         sequence_length(msg) # 0
  PROVE  Tiles(p.unacked, p.next_abs_seqno) /\ InPlace(p, w)
<1> DEFINE next == q.next_abs_seqno
           u == q.unacked
           v == p.unacked
<1>1. /\ sequence_length(msg) \in Nat \ {0}
      /\ msg.FIN => next + sequence_length(msg) = w + 2
  BY SentCounted DEF Sent
<1>2. /\ next \in Nat
      /\ Tiles(u, next)
      /\ v = Outstanding(u, next, msg)
      /\ p.next_abs_seqno = next + sequence_length(msg)
  BY NextFacts DEF Good, Sent
<1>3. /\ next \notin DOMAIN u
      /\ DOMAIN v = DOMAIN u \cup {next}
      /\ \A k \in DOMAIN u : v[k] = u[k]
      /\ v[next] = msg
      /\ Tiles(v, p.next_abs_seqno)
  <2> DEFINE len == sequence_length(msg)
             after == p.next_abs_seqno
  <2>1. len \in Nat \ {0} /\ after = next + len
    BY <1>1, <1>2
  <2> HIDE DEF next, u, v, after
  <2>2. next \notin DOMAIN u /\ DOMAIN v = DOMAIN u \cup {next}
    BY <1>2, <2>1, OutstandingFacts
  <2>3. \A k \in DOMAIN u : v[k] = u[k]
    BY <1>2 DEF Outstanding
  <2>4. v[next] = msg
    BY <1>2, <2>2 DEF Outstanding
  <2>5. Tiles(v, after)
    BY <1>2, <2>1, OutstandingFacts
  <2> QED
    BY <2>2, <2>3, <2>4, <2>5 DEF after
<1>4. /\ p.input.closed = q.input.closed
      /\ p.input.popped = q.input.popped + Len(msg.payload)
      /\ q.fin_sent \/ msg.FIN => p.fin_sent
      /\ q.input.popped \in Nat /\ BytesBuffered(q.input) \in Nat
      /\ Len(msg.payload) \in 0..BytesBuffered(q.input)
  <2>1. /\ Len(msg.payload) \in 0..BytesBuffered(q.input)
        /\ p.input = Pop(q.input, Len(msg.payload))
        /\ q.fin_sent \/ msg.FIN => p.fin_sent
    BY DEF Made, Sent
  <2>2. PICK m : m = Len(msg.payload)
    OBVIOUS
  <2>3. m \in 0..BytesBuffered(q.input) /\ p.input = Pop(q.input, m)
    BY <2>1, <2>2
  <2>4. p.input.popped = q.input.popped + m /\ p.input.closed = q.input.closed
    BY <2>3, TakenStream
  <2>5. q.input.popped \in Nat /\ BytesBuffered(q.input) \in Nat
    BY InputFacts
  <2> QED
    BY <2>1, <2>2, <2>4, <2>5
<1>5. ASSUME NEW k \in DOMAIN v
      PROVE  /\ v[k].SYN <=> k = 0
             /\ \A i \in 1..Len(v[k].payload) :
                  v[k].payload[i] = (IF v[k].SYN THEN k + 1 ELSE k) + i - 1
             /\ (IF v[k].SYN THEN k + 1 ELSE k) + Len(v[k].payload)
                  <= p.input.popped + 1
             /\ v[k].FIN => /\ p.fin_sent /\ p.input.closed
                            /\ k + sequence_length(v[k]) = w + 2
             /\ v[k].seqno = wrap(k, ISN) /\ ~v[k].RST
  <2>1. CASE k \in DOMAIN u
    <3>1. /\ u[k].SYN <=> k = 0
          /\ \A i \in 1..Len(u[k].payload) :
               u[k].payload[i] = (IF u[k].SYN THEN k + 1 ELSE k) + i - 1
          /\ (IF u[k].SYN THEN k + 1 ELSE k) + Len(u[k].payload) <= q.input.popped + 1
          /\ u[k].FIN => /\ q.fin_sent /\ q.input.closed
                         /\ k + sequence_length(u[k]) = w + 2
          /\ u[k].seqno = wrap(k, ISN) /\ ~u[k].RST
      BY <2>1 DEF Good, InPlace
    <3>2. v[k] = u[k] /\ k \in Nat /\ Len(u[k].payload) \in Nat
      <4>1. q.unacked \in Map
        BY DEF Good, Sender
      <4>2. u[k] \in Msg
        BY <2>1, <4>1, MapFacts
      <4>3. u[k].payload \in Seq(Content)
        BY <4>2 DEF Msg
      <4> QED
        BY <1>2, <1>3, <2>1, <4>3, LenProperties DEF Tiles
    <3>3. PICK a \in Nat : a = IF u[k].SYN THEN k + 1 ELSE k
      BY <3>2
    <3>4. a + Len(u[k].payload) <= p.input.popped + 1
      <4>1. PICK l \in Nat : l = Len(u[k].payload)
        BY <3>2
      <4>2. a + l <= q.input.popped + 1
        BY <3>1, <3>3, <4>1
      <4>3. PICK m \in Nat : m = Len(msg.payload)
        BY <1>4
      <4>4. p.input.popped = q.input.popped + m /\ q.input.popped \in Nat
        BY <1>4, <4>3
      <4>5. a + l <= p.input.popped + 1
        BY <4>2, <4>4
      <4> QED
        BY <4>1, <4>5
    <3> HIDE DEF u, v
    <3> QED
      BY <1>4, <3>1, <3>2, <3>3, <3>4
  <2>2. CASE k = next
    <3>1. v[k] = msg
      BY <1>3, <2>2
    <3>2. msg.SYN <=> next = 0
      <4>1. /\ q.syn_sent => next # 0
            /\ ~q.syn_sent => next = 0
        BY NextFacts, InputFacts
      <4> QED
        BY <4>1 DEF Made
    <3>3. ASSUME NEW i \in 1..Len(msg.payload)
          PROVE  msg.payload[i] = (IF msg.SYN THEN next + 1 ELSE next) + i - 1
      <4>1. /\ q.input.popped \in Nat /\ BytesBuffered(q.input) \in Nat
        BY InputFacts
      <4>2. Len(msg.payload) \in 0..BytesBuffered(q.input)
        BY DEF Made
      <4>3. i \in 1..BytesBuffered(q.input) /\ BytesBuffered(q.input) # 0
        BY <4>1, <4>2
      <4>4. msg.payload[i] = q.input.queue[i]
        BY DEF Made
      <4>5. q.input.queue[i] = q.input.popped + i
        BY <4>3 DEF Good, InStream
      <4>6. CASE q.syn_sent
        <5>1. ~q.fin_sent /\ next = q.input.popped + 1 /\ ~msg.SYN
          BY <4>3, <4>6, NextFacts DEF Made
        <5> QED
          BY <4>1, <4>4, <4>5, <5>1
      <4>7. CASE ~q.syn_sent
        <5>1. next = 0 /\ q.input.popped = 0 /\ msg.SYN
          BY <4>7, NextFacts DEF Made
        <5> QED
          BY <4>1, <4>4, <4>5, <5>1
      <4> QED
        BY <4>6, <4>7
    <3>4. msg.FIN => p.fin_sent /\ p.input.closed
      BY <1>4 DEF Made
    <3>5. msg.seqno = wrap(next, ISN) /\ ~msg.RST
      BY DEF Made
    <3>6. (IF msg.SYN THEN next + 1 ELSE next) + Len(msg.payload) <= p.input.popped + 1
      <4>1. CASE q.syn_sent /\ ~q.fin_sent
        <5>1. next = q.input.popped + 1 /\ ~msg.SYN
          BY <4>1, NextFacts DEF Made
        <5> QED
          BY <1>4, <5>1
      <4>2. CASE ~q.syn_sent
        <5>1. next = 0 /\ q.input.popped = 0 /\ msg.SYN
          BY <4>2, NextFacts DEF Made
        <5> QED
          BY <1>4, <5>1
      <4>3. CASE q.syn_sent /\ q.fin_sent
        <5>1. ~msg.SYN /\ ~msg.FIN /\ Len(msg.payload) = 0
          <6>1. BytesBuffered(q.input) = 0
            BY <4>3, NextFacts
          <6> QED
            BY <1>4, <4>3, <6>1 DEF Made
        <5>2. sequence_length(msg) = 0
          BY <5>1 DEF sequence_length
        <5> QED
          BY <5>2
      <4> QED
        BY <4>1, <4>2, <4>3
    <3> HIDE DEF next, v, u
    <3> QED
      BY <1>1, <2>2, <3>1, <3>2, <3>3, <3>4, <3>5, <3>6
  <2> QED
    BY <1>3, <2>1, <2>2
<1>6. InPlace(p, w)
  BY <1>5 DEF InPlace
<1> QED
  BY <1>3, <1>6

(* Sending a message that takes a place keeps all that is good.            *)
LEMMA SentGood ==
  ASSUME NEW q, NEW p, NEW w, NEW msg, Good(q, w), Made(q, msg), Sent(p, q, msg),
         sequence_length(msg) # 0
  PROVE  /\ Good(p, w)
         /\ sequence_length(msg) \in Nat
         /\ p.next_abs_seqno = q.next_abs_seqno + sequence_length(msg)
         /\ p.window_size = q.window_size
         /\ sequence_numbers_in_flight(p)
            = sequence_numbers_in_flight(q) + sequence_length(msg)
<1> DEFINE next == q.next_abs_seqno
           len == sequence_length(msg)
           u == q.unacked
           v == p.unacked
<1>1. Counted(p) /\ len \in Nat \ {0}
  BY SentCounted
<1>2. Tiles(v, p.next_abs_seqno) /\ InPlace(p, w)
  BY SentInPlace
<1>3. InStream(p, w)
  <2>1. PICK m \in 0..BytesBuffered(q.input) : p.input = Pop(q.input, m)
    BY DEF Made, Sent
  <2> QED
    BY <2>1, TakenStream
<1>4. /\ p \in Sender /\ p.next_abs_seqno = next + len
      /\ v = Outstanding(u, next, msg)
      /\ p.window_size = q.window_size
  BY DEF Sent
<1>5. next \in Nat /\ Tiles(u, next)
  BY NextFacts DEF Good
<1>6. /\ next \notin DOMAIN u
      /\ DOMAIN v = DOMAIN u \cup {next}
  <2> HIDE DEF next, u, v
  <2> QED
    BY <1>1, <1>4, <1>5, OutstandingFacts DEF len
<1>7. Timed(p)
  <2>1. /\ p.timer_running /\ p.RTO = q.RTO
        /\ q.timer_running => p.consecutive_retransmissions = q.consecutive_retransmissions
        /\ ~q.timer_running => p.consecutive_retransmissions = 0
    BY DEF Sent
  <2>2. Timed(q)
    BY DEF Good
  <2>3. p.consecutive_retransmissions = q.consecutive_retransmissions
    BY <2>1, <2>2 DEF Timed
  <2> QED
    BY <1>6, <2>1, <2>2, <2>3 DEF Timed
<1>8. Good(p, w)
  BY <1>1, <1>2, <1>3, <1>4, <1>7 DEF Good
<1>9. sequence_numbers_in_flight(p) = sequence_numbers_in_flight(q) + len
  <2>1. /\ First(p) \in DOMAIN v
        /\ First(p) \in Nat
        /\ sequence_numbers_in_flight(p) = p.next_abs_seqno - First(p)
    BY <1>6, <1>8, FlightFacts
  <2>2. \A k \in DOMAIN v : First(p) <= k
    <3>1. DOMAIN v \subseteq Nat
      BY <1>2 DEF Tiles
    <3> QED
      BY <1>6, <3>1, FirstFacts
  <2>3. CASE DOMAIN u = {}
    <3>1. sequence_numbers_in_flight(q) = 0
      BY <2>3, FlightFacts
    <3>2. First(p) = next
      BY <1>6, <2>1, <2>3
    <3> QED
      BY <1>1, <1>4, <1>5, <2>1, <3>1, <3>2
  <2>4. CASE DOMAIN u # {}
    <3>1. /\ First(q) \in DOMAIN u /\ First(q) \in Nat /\ First(q) < next
          /\ sequence_numbers_in_flight(q) = next - First(q)
      BY <2>4, FlightFacts
    <3>2. \A k \in DOMAIN u : First(q) <= k
      <4>1. DOMAIN u \subseteq Nat
        BY <1>5 DEF Tiles
      <4> QED
        BY <2>4, <4>1, FirstFacts
    <3>3. First(p) <= First(q)
      BY <1>6, <2>2, <3>1
    <3>4. First(q) <= First(p)
      BY <1>6, <2>1, <3>1, <3>2
    <3>5. First(p) = First(q)
      BY <2>1, <3>1, <3>3, <3>4
    <3> QED
      BY <1>1, <1>4, <1>5, <2>1, <3>1, <3>5
  <2> QED
    BY <2>3, <2>4
<1> QED
  BY <1>1, <1>4, <1>8, <1>9

-----------------------------------------------------------------------------
(* A sender whose stream alone has changed, and only as Push, Close and    *)
(* Pop of nothing change it, is still good.                                *)
LEMMA StreamChanged ==
  ASSUME NEW q, NEW p, NEW w, NEW v, Good(q, w), p \in Sender,
         SameSequence(p, q), SameTimer(p, q), InStream(p, v),
         p.syn_sent <=> q.syn_sent, p.fin_sent <=> q.fin_sent,
         p.input.popped = q.input.popped,
         q.input.closed => /\ p.input.closed /\ v = w
                           /\ BytesBuffered(p.input) = BytesBuffered(q.input)
  PROVE  /\ Good(p, v)
         /\ p.window_size = q.window_size
         /\ p.next_abs_seqno = q.next_abs_seqno
         /\ sequence_numbers_in_flight(p) = sequence_numbers_in_flight(q)
<1>1. /\ p.window_size = q.window_size /\ p.acked_abs_seqno = q.acked_abs_seqno
      /\ p.next_abs_seqno = q.next_abs_seqno /\ p.unacked = q.unacked
  BY DEF SameSequence
<1>2. One(p.fin_sent) = One(q.fin_sent)
  BY DEF One
<1>3. Counted(p)
  BY <1>1, <1>2 DEF Good, Counted
<1>4. Tiles(p.unacked, p.next_abs_seqno)
  BY <1>1 DEF Good
<1>5. InPlace(p, v)
  BY <1>1 DEF Good, InPlace
<1>6. Timed(p)
  BY <1>1 DEF Good, Timed, SameTimer
<1>7. sequence_numbers_in_flight(p) = sequence_numbers_in_flight(q)
  BY <1>1 DEF sequence_numbers_in_flight
<1> QED
  BY <1>1, <1>3, <1>4, <1>5, <1>6, <1>7 DEF Good

(* The message push() makes is one made from the sender.                   *)
LEMMA MadeFacts ==
  ASSUME NEW q, NEW w, Good(q, w), MaySend(q)
  PROVE  LET msg == NextMessage(q) IN
         /\ Made(q, msg)
         /\ sequence_length(msg) \in Nat
         /\ sequence_length(msg) <= Room(q)
         /\ sequence_length(msg) = 0 =>
              /\ q.syn_sent /\ Len(msg.payload) = 0 /\ ~msg.FIN
              /\ BytesBuffered(q.input) = 0
              /\ IsFinished(q.input) => q.fin_sent
<1> DEFINE msg == NextMessage(q)
           n == PayloadLength(q)
<1>1. /\ msg \in Msg
      /\ msg.seqno = wrap(q.next_abs_seqno, ISN)
      /\ ~msg.RST
      /\ msg.SYN <=> ~q.syn_sent
      /\ msg.FIN => ~q.fin_sent /\ q.input.closed /\ n = BytesBuffered(q.input)
      /\ Len(msg.payload) = n
      /\ \A i \in 1..n : msg.payload[i] = q.input.queue[i]
      /\ sequence_length(msg) = n + One(msg.SYN) + One(msg.FIN)
      /\ sequence_length(msg) \in Nat
      /\ sequence_length(msg) <= Room(q)
      /\ sequence_length(msg) = 0 =>
           /\ q.syn_sent /\ n = 0 /\ ~msg.FIN
           /\ BytesBuffered(q.input) = 0
           /\ IsFinished(q.input) => q.fin_sent
  BY MessageFacts
<1>2. n \in 0..BytesBuffered(q.input)
  BY PayloadFacts
<1> HIDE DEF msg, n
<1>3. Made(q, msg)
  BY <1>1, <1>2 DEF Made
<1> QED
  BY <1>1, <1>3 DEF msg

(* The oldest sequence number that has not been acknowledged.              *)
Oldest(q) == IF DOMAIN q.unacked = {} THEN q.next_abs_seqno ELSE First(q)

(* Where it lies, and that it is what is in flight that lies behind it.    *)
LEMMA OldestFacts ==
  ASSUME NEW q, NEW w, Good(q, w)
  PROVE  /\ Oldest(q) \in 0..q.next_abs_seqno
         /\ DOMAIN q.unacked = {} <=> Oldest(q) = q.next_abs_seqno
         /\ DOMAIN q.unacked # {} => Oldest(q) \in DOMAIN q.unacked
         /\ \A k \in DOMAIN q.unacked : k \in Nat /\ Oldest(q) <= k
         /\ sequence_numbers_in_flight(q) = q.next_abs_seqno - Oldest(q)
<1>1. q.next_abs_seqno \in Nat /\ DOMAIN q.unacked \subseteq Nat
  BY NextFacts DEF Good, Tiles
<1>2. CASE DOMAIN q.unacked = {}
  BY <1>1, <1>2, FlightFacts DEF Oldest
<1>3. CASE DOMAIN q.unacked # {}
  <2>1. /\ First(q) \in DOMAIN q.unacked /\ First(q) \in Nat
        /\ First(q) < q.next_abs_seqno
        /\ sequence_numbers_in_flight(q) = q.next_abs_seqno - First(q)
    BY <1>3, FlightFacts
  <2>2. \A k \in DOMAIN q.unacked : First(q) <= k
    BY <1>1, <1>3, FirstFacts
  <2> QED
    BY <1>1, <1>3, <2>1, <2>2 DEF Oldest
<1> QED
  BY <1>2, <1>3

(* It is the one number of a message that none precedes.                   *)
LEMMA OldestIs ==
  ASSUME NEW q, NEW w, Good(q, w), NEW f \in DOMAIN q.unacked,
         \A k \in DOMAIN q.unacked : f <= k
  PROVE  Oldest(q) = f
<1>1. Oldest(q) \in DOMAIN q.unacked
  BY OldestFacts
<1>2. Oldest(q) \in Nat /\ f \in Nat /\ Oldest(q) <= f /\ f <= Oldest(q)
  BY <1>1, OldestFacts
<1> QED
  BY <1>2

(* Sender p is what sender q may have become: it has sent no less.         *)
Onward(p, q) ==
  /\ p.input.popped >= q.input.popped
  /\ p.next_abs_seqno >= q.next_abs_seqno
  /\ q.syn_sent => p.syn_sent
  /\ q.fin_sent => p.fin_sent

(* And it has been acknowledged nothing meanwhile, nor its stream closed.  *)
After(p, q) ==
  /\ Onward(p, q)
  /\ p.input.closed = q.input.closed
  /\ Oldest(p) = Oldest(q)

(* Every message of sent is outstanding at q.                              *)
Kept(sent, q) ==
  /\ sent \in Seq(Msg)
  /\ \A i \in 1..Len(sent) : \E k \in DOMAIN q.unacked : q.unacked[k] = sent[i]

(* A message is sent, and outstanding from then on.                        *)
LEMMA SentAfter ==
  ASSUME NEW q, NEW p, NEW w, NEW msg, Good(q, w), Made(q, msg), Sent(p, q, msg),
         sequence_length(msg) # 0, NEW sent, Kept(sent, q)
  PROVE  /\ Kept(Append(sent, msg), p)
         /\ After(p, q)
<1> DEFINE len == sequence_length(msg)
           next == q.next_abs_seqno
<1>1. /\ Good(p, w) /\ len \in Nat \ {0}
      /\ p.next_abs_seqno = next + len
      /\ next \in Nat /\ Tiles(q.unacked, next)
  BY SentGood, NextFacts DEF Good
<1>2. /\ next \notin DOMAIN q.unacked
      /\ DOMAIN p.unacked = DOMAIN q.unacked \cup {next}
      /\ \A k \in DOMAIN q.unacked : p.unacked[k] = q.unacked[k]
      /\ p.unacked[next] = msg
  <2>1. p.unacked = Outstanding(q.unacked, next, msg)
    BY DEF Sent
  <2>2. PICK n \in Nat : n = next + sequence_length(msg)
    BY <1>1
  <2>3. PICK v : v = Outstanding(q.unacked, next, msg)
    OBVIOUS
  <2>4. sequence_length(msg) \in Nat \ {0}
    BY <1>1
  <2>5. /\ next \notin DOMAIN q.unacked
        /\ DOMAIN v = DOMAIN q.unacked \cup {next}
        /\ \A k \in DOMAIN q.unacked : v[k] = q.unacked[k]
        /\ v[next] = msg
    <3> DEFINE u == q.unacked
    <3>1. Tiles(u, next) /\ next \in Nat /\ v = Outstanding(u, next, msg)
      BY <1>1, <2>3
    <3> HIDE DEF u, next
    <3>2. next \notin DOMAIN u /\ DOMAIN v = DOMAIN u \cup {next}
      BY <2>2, <2>4, <3>1, OutstandingFacts
    <3>3. (\A k \in DOMAIN u : v[k] = u[k]) /\ v[next] = msg
      BY <3>1, <3>2 DEF Outstanding
    <3> QED
      BY <3>2, <3>3 DEF u
  <2> QED
    BY <2>1, <2>3, <2>5
<1>3. Kept(Append(sent, msg), p)
  <2>1. sent \in Seq(Msg) /\ msg \in Msg /\ Len(sent) \in Nat
    BY LenProperties DEF Kept, Made
  <2>2. /\ Append(sent, msg) \in Seq(Msg)
        /\ Len(Append(sent, msg)) = Len(sent) + 1
        /\ \A i \in 1..Len(sent) : Append(sent, msg)[i] = sent[i]
        /\ Append(sent, msg)[Len(sent) + 1] = msg
    BY <2>1, AppendProperties
  <2>3. ASSUME NEW i \in 1..Len(Append(sent, msg))
        PROVE  \E k \in DOMAIN p.unacked : p.unacked[k] = Append(sent, msg)[i]
    <3>1. CASE i \in 1..Len(sent)
      BY <1>2, <2>2, <3>1 DEF Kept
    <3>2. CASE i = Len(sent) + 1
      BY <1>2, <2>2, <3>2
    <3> QED
      BY <2>1, <2>2, <3>1, <3>2
  <2> QED
    BY <2>2, <2>3 DEF Kept
<1>4. Oldest(p) = Oldest(q)
  <2>1. CASE DOMAIN q.unacked = {}
    <3>1. next \in DOMAIN p.unacked /\ \A k \in DOMAIN p.unacked : next <= k
      BY <1>1, <1>2, <2>1
    <3>2. Oldest(p) = next
      BY <1>1, <3>1, OldestIs
    <3> QED
      BY <2>1, <3>2 DEF Oldest
  <2>2. CASE DOMAIN q.unacked # {}
    <3>1. /\ Oldest(q) \in DOMAIN q.unacked /\ Oldest(q) \in 0..next
          /\ \A k \in DOMAIN q.unacked : Oldest(q) <= k
      BY <2>2, OldestFacts
    <3>2. \A k \in DOMAIN p.unacked : Oldest(q) <= k
      BY <1>2, <3>1
    <3> QED
      BY <1>1, <1>2, <3>1, <3>2, OldestIs
  <2> QED
    BY <2>1, <2>2
<1>5. /\ p.input.popped >= q.input.popped
      /\ p.input.closed = q.input.closed
  <2>1. Len(msg.payload) \in 0..BytesBuffered(q.input)
        /\ p.input = Pop(q.input, Len(msg.payload))
    BY DEF Made, Sent
  <2>2. /\ p.input.popped = q.input.popped + Len(msg.payload)
        /\ p.input.closed = q.input.closed
    BY <2>1, TakenStream
  <2>3. q.input.popped \in Nat /\ BytesBuffered(q.input) \in Nat
    BY InputFacts
  <2> QED
    BY <2>1, <2>2, <2>3
<1>6. p.syn_sent /\ (q.fin_sent => p.fin_sent) /\ p.next_abs_seqno >= next
  BY <1>1 DEF Sent
<1> QED
  BY <1>3, <1>4, <1>5, <1>6 DEF After, Onward

(* Sending step by step.                                                   *)
LEMMA AfterTwice ==
  ASSUME NEW q, NEW p, NEW t, NEW u, NEW v, NEW w, Good(q, u), Good(p, v), Good(t, w),
         Onward(p, q), Onward(t, p)
  PROVE  Onward(t, q) /\ (After(p, q) /\ After(t, p) => After(t, q))
<1>1. /\ q.input.popped \in Nat /\ p.input.popped \in Nat /\ t.input.popped \in Nat
      /\ q.next_abs_seqno \in Nat /\ p.next_abs_seqno \in Nat /\ t.next_abs_seqno \in Nat
  BY InputFacts, NextFacts
<1> QED
  BY <1>1 DEF After, Onward

(* How much may be in flight: a closed window is probed with one number.   *)
Limit(window) == IF window = 0 THEN 1 ELSE window

(* A state of push()'s loop.                                               *)
Looping(st, w) ==
  /\ st = [s |-> st.s, sent |-> st.sent, more |-> st.more]
  /\ st.more \in BOOLEAN
  /\ Good(st.s, w)

(* Such a state from its fields.                                           *)
LEMMA UpdateLoop ==
  ASSUME NEW st, NEW q, NEW sent, NEW go, NEW p, NEW no, NEW t,
         st = [s |-> q, sent |-> sent, more |-> go],
         t = [st EXCEPT !.s = p, !.more = no]
  PROVE  t = [s |-> p, sent |-> sent, more |-> no]
<1> DEFINE a == [st EXCEPT !.s = p]
<1>1. t = [a EXCEPT !.more = no]
  OBVIOUS
<1>2. a = [s |-> p, sent |-> sent, more |-> go]
  OBVIOUS
<1> HIDE DEF a
<1> QED
  BY <1>1, <1>2

(* A turn that makes an empty message ends the loop with nothing left that *)
(* could be sent.                                                          *)
LEMMA EmptyTurn ==
  ASSUME NEW st, NEW w, Looping(st, w), st.more, MaySend(st.s),
         sequence_length(NextMessage(st.s)) = 0
  PROVE  /\ Looping(Turn(st), w) /\ ~Turn(st).more
         /\ Turn(st).s.window_size = st.s.window_size
         /\ Turn(st).s.next_abs_seqno = st.s.next_abs_seqno
         /\ sequence_numbers_in_flight(Turn(st).s) = sequence_numbers_in_flight(st.s)
         /\ Settled(Turn(st).s)
         /\ Turn(st).sent = st.sent /\ Turn(st).s.syn_sent
         /\ Turn(st).s.unacked = st.s.unacked
         /\ After(Turn(st).s, st.s)
<1> DEFINE q == st.s
           msg == NextMessage(q)
           p == Took(q, msg)
           no == FALSE
           sent == st.sent
<1>1. Good(q, w) /\ q \in Sender
  BY DEF Looping, Good
<1>2. /\ Made(q, msg)
      /\ q.syn_sent /\ Len(msg.payload) = 0 /\ ~msg.FIN
      /\ BytesBuffered(q.input) = 0
      /\ IsFinished(q.input) => q.fin_sent
  BY <1>1, MadeFacts
<1>3. msg \in Msg /\ ~msg.RST
  BY <1>2 DEF Made
<1>4. ~no /\ no \in BOOLEAN
  OBVIOUS
<1>5. Turn(st) = [st EXCEPT !.s = p, !.more = no]
  BY <1>3 DEF Turn
<1> HIDE DEF q, msg, p, no, sent
<1>6. PICK go : st = [s |-> q, sent |-> sent, more |-> go]
  BY DEF Looping, q, sent
<1>7. Turn(st) = [s |-> p, sent |-> sent, more |-> no]
  BY <1>5, <1>6, UpdateLoop, Zenon
<1>8. Turn(st).s = p /\ Turn(st).sent = sent /\ Turn(st).more = no
  BY <1>7
<1>9. /\ p \in Sender
      /\ p.input = Pop(q.input, Len(msg.payload))
      /\ p.syn_sent
      /\ p.fin_sent <=> q.fin_sent \/ msg.FIN
      /\ SameSequence(p, q) /\ SameTimer(p, q)
  <2>1. Len(msg.payload) \in Nat /\ Len(msg.payload) <= BytesBuffered(q.input)
    BY <1>2
  <2> QED
    BY <1>1, <1>3, <2>1, TookFacts DEF p
<1>10. /\ InStream(p, w)
       /\ p.input.popped = q.input.popped
       /\ BytesBuffered(p.input) = BytesBuffered(q.input)
       /\ p.input.closed = q.input.closed
  <2>1. 0 \in 0..BytesBuffered(q.input) /\ p.input = Pop(q.input, 0)
    BY <1>2, <1>9
  <2>2. /\ InStream(p, w)
        /\ p.input.popped = q.input.popped + 0
        /\ BytesBuffered(p.input) = BytesBuffered(q.input) - 0
        /\ p.input.closed = q.input.closed
    BY <1>1, <2>1, TakenStream
  <2>3. q.input.popped \in Nat /\ BytesBuffered(q.input) \in Nat
    BY <1>1, InputFacts
  <2> QED
    BY <2>2, <2>3
<1>11. /\ Good(p, w)
       /\ p.window_size = q.window_size
       /\ p.next_abs_seqno = q.next_abs_seqno
       /\ sequence_numbers_in_flight(p) = sequence_numbers_in_flight(q)
  BY <1>1, <1>2, <1>9, <1>10, StreamChanged
<1>12. Settled(p)
  <2>1. BytesBuffered(p.input) = 0
    BY <1>2, <1>10
  <2>2. IsFinished(p.input) => p.fin_sent
    <3>1. SUFFICES ASSUME IsFinished(p.input) PROVE p.fin_sent
      OBVIOUS
    <3>2. q.input.queue = << >>
      BY <1>1, <1>2, InputFacts, EmptySeq
    <3>3. IsFinished(q.input)
      BY <1>10, <3>1, <3>2 DEF IsFinished
    <3> QED
      BY <1>2, <1>9, <3>3
  <2> QED
    BY <2>1, <2>2 DEF Settled
<1>13. Looping(Turn(st), w)
  BY <1>4, <1>7, <1>8, <1>11 DEF Looping
<1>14. p.unacked = q.unacked /\ After(p, q)
  <2>1. p.unacked = q.unacked
    BY <1>9 DEF SameSequence
  <2>2. Oldest(p) = Oldest(q)
    BY <1>11, <2>1 DEF Oldest, First
  <2>3. p.input.popped \in Nat /\ p.next_abs_seqno \in Nat
    BY <1>11, InputFacts, NextFacts
  <2> QED
    BY <1>2, <1>9, <1>10, <1>11, <2>1, <2>2, <2>3 DEF After, Onward
<1> QED
  BY <1>4, <1>8, <1>9, <1>11, <1>12, <1>13, <1>14 DEF q, sent

(* What a turn makes of the sender, when it sends.                         *)
LEMMA SentFacts ==
  ASSUME NEW st, NEW q, NEW w, NEW msg, Good(q, w), Made(q, msg),
         sequence_length(msg) \in Nat
  PROVE  LET sending == SendMessage(st, StartTimer(Took(q, msg)), msg) IN
         Sent(sending.s, q, msg) /\ (sending.more <=> ~msg.RST)
<1> DEFINE t == Took(q, msg)
           r == StartTimer(t)
           sending == SendMessage(st, r, msg)
           p == sending.s
<1>1. /\ q \in Sender /\ msg \in Msg
      /\ Len(msg.payload) \in Nat /\ Len(msg.payload) <= BytesBuffered(q.input)
  BY InputFacts DEF Good, Made
<1>2. /\ t \in Sender
      /\ t.input = Pop(q.input, Len(msg.payload))
      /\ t.syn_sent
      /\ t.fin_sent <=> q.fin_sent \/ msg.FIN
      /\ SameSequence(t, q) /\ SameTimer(t, q)
  BY <1>1, TookFacts
<1> HIDE DEF t
<1>3. /\ r \in Sender
      /\ r.timer_running
      /\ r.RTO = t.RTO
      /\ t.timer_running => r.consecutive_retransmissions = t.consecutive_retransmissions
      /\ ~t.timer_running => r.consecutive_retransmissions = 0
      /\ SameStream(r, t) /\ SameSequence(r, t)
  BY <1>2, StartTimerFacts
<1> HIDE DEF r
<1>4. /\ p \in Sender
      /\ p.unacked = Outstanding(r.unacked, r.next_abs_seqno, msg)
      /\ p.next_abs_seqno = r.next_abs_seqno + sequence_length(msg)
      /\ p.window_size = r.window_size /\ p.acked_abs_seqno = r.acked_abs_seqno
      /\ SameStream(p, r) /\ SameTimer(p, r)
      /\ sending.more <=> ~msg.RST
  BY <1>1, <1>3, SendMessageFacts
<1> HIDE DEF p
<1>5. /\ p.input = Pop(q.input, Len(msg.payload))
      /\ p.syn_sent
      /\ p.fin_sent <=> q.fin_sent \/ msg.FIN
  BY <1>2, <1>3, <1>4 DEF SameStream
<1>6. /\ p.unacked = Outstanding(q.unacked, q.next_abs_seqno, msg)
      /\ p.next_abs_seqno = q.next_abs_seqno + sequence_length(msg)
      /\ p.window_size = q.window_size /\ p.acked_abs_seqno = q.acked_abs_seqno
  BY <1>2, <1>3, <1>4 DEF SameSequence
<1>7. /\ p.timer_running /\ p.RTO = q.RTO
      /\ q.timer_running => p.consecutive_retransmissions = q.consecutive_retransmissions
      /\ ~q.timer_running => p.consecutive_retransmissions = 0
  BY <1>2, <1>3, <1>4 DEF SameTimer
<1>8. Sent(p, q, msg)
  BY <1>4, <1>5, <1>6, <1>7 DEF Sent
<1> QED
  BY <1>4, <1>8 DEF p, r, t

(* A turn that sends fills places of the window and never more of them     *)
(* than there are.                                                         *)
LEMMA SendingTurn ==
  ASSUME NEW st, NEW w, Looping(st, w), st.more, MaySend(st.s),
         sequence_length(NextMessage(st.s)) # 0
  PROVE  /\ Looping(Turn(st), w) /\ Turn(st).more
         /\ Turn(st).s.window_size = st.s.window_size
         /\ Turn(st).s.next_abs_seqno > st.s.next_abs_seqno
         /\ sequence_numbers_in_flight(Turn(st).s) > sequence_numbers_in_flight(st.s)
         /\ sequence_numbers_in_flight(Turn(st).s) <= Limit(st.s.window_size)
         /\ Turn(st).s.syn_sent /\ After(Turn(st).s, st.s)
         /\ Kept(st.sent, st.s) => Kept(Turn(st).sent, Turn(st).s)
<1> DEFINE q == st.s
           msg == NextMessage(q)
           r == StartTimer(Took(q, msg))
           sending == SendMessage(st, r, msg)
           p == sending.s
           len == sequence_length(msg)
           flight == sequence_numbers_in_flight(q)
           window == q.window_size
<1>1. Good(q, w)
  BY DEF Looping
<1>2. Made(q, msg) /\ len \in Nat /\ len <= Room(q)
  BY <1>1, MadeFacts
<1>3. Turn(st) = sending
  BY DEF Turn
<1>4. /\ Sent(p, q, msg)
      /\ sending.more <=> ~msg.RST
  BY <1>1, <1>2, SentFacts
<1>5. /\ Good(p, w)
      /\ p.next_abs_seqno = q.next_abs_seqno + len
      /\ p.window_size = window
      /\ sequence_numbers_in_flight(p) = flight + len
  <2> HIDE DEF p, msg, q
  <2> QED
    BY <1>1, <1>2, <1>4, SentGood DEF msg, q
<1>6. /\ flight \in Nat /\ q.next_abs_seqno \in Nat /\ window \in Nat
      /\ Room(q) \in Nat
      /\ window = 0 => Room(q) = 1 /\ flight = 0
      /\ window > 0 => Room(q) + flight = window
  BY <1>1, FlightFacts, NextFacts, PayloadFacts DEF Good, Sender
<1>7. /\ sending = [s |-> sending.s, sent |-> sending.sent, more |-> sending.more]
      /\ sending.more \in BOOLEAN
  BY DEF SendMessage
<1>12. /\ p.syn_sent /\ After(p, q)
       /\ Kept(st.sent, q) => Kept(sending.sent, p)
  <2>1. sending.sent = Append(st.sent, msg)
    BY DEF SendMessage
  <2>2. p.syn_sent
    BY <1>4 DEF Sent
  <2> DEFINE before == st.sent
  <2> HIDE DEF sending, p, msg, q, before
  <2>3. Kept(<< >>, q)
    BY EmptySeq DEF Kept
  <2>4. After(p, q)
    BY <1>1, <1>2, <1>4, <2>3, SentAfter DEF msg, q
  <2>5. Kept(before, q) => Kept(Append(before, msg), p)
    BY <1>1, <1>2, <1>4, SentAfter DEF msg, q
  <2> QED
    BY <2>1, <2>2, <2>4, <2>5 DEF before
<1>8. Looping(sending, w) /\ sending.more
  <2>1. ~msg.RST
    BY <1>2 DEF Made
  <2> HIDE DEF sending, msg
  <2> QED
    BY <1>4, <1>5, <1>7, <2>1 DEF Looping
<1> HIDE DEF sending, len, flight, window
<1>9. flight + len <= Limit(window)
  <2>1. len <= Room(q) /\ len \in Nat
    BY <1>2
  <2> HIDE DEF q
  <2> QED
    BY <1>6, <2>1 DEF Limit
<1>10. len \in Nat \ {0}
  BY <1>2 DEF len
<1>11. /\ Turn(st).s.window_size = window
       /\ Turn(st).s.next_abs_seqno > q.next_abs_seqno
       /\ sequence_numbers_in_flight(Turn(st).s) > flight
       /\ sequence_numbers_in_flight(Turn(st).s) <= Limit(window)
  BY <1>3, <1>5, <1>6, <1>9, <1>10
<1> QED
  BY <1>3, <1>8, <1>11, <1>12 DEF flight, window

-----------------------------------------------------------------------------
(* The states of push()'s loop, one after every turn.                      *)
IsLoop(f, start, turns) ==
  f = [n \in 0..turns |-> IF n = 0 THEN start ELSE Turn(f[n - 1])]

(* They do exist, however many turns there are.                            *)
LEMMA LoopExists ==
  ASSUME NEW start, NEW turns \in Nat
  PROVE  \E f : IsLoop(f, start, turns)
<1> DEFINE There(m) ==
      \E f : f = [n \in 0..m |-> IF n = 0 THEN start ELSE Turn(f[n - 1])]
           missing == { m \in Nat : ~There(m) }
<1>1. SUFFICES ASSUME missing # {} PROVE FALSE
  BY DEF IsLoop
<1>2. missing \subseteq Nat
  OBVIOUS
<1>3. PICK m \in missing : \A j \in missing : m <= j
  <2> HIDE DEF missing
  <2> QED
    BY <1>1, <1>2, LeastExists
<1>4. m \in Nat /\ ~There(m)
  OBVIOUS
<1>5. CASE m = 0
  <2> DEFINE f == [n \in 0..0 |-> start]
  <2>1. f = [n \in 0..0 |-> IF n = 0 THEN start ELSE Turn(f[n - 1])]
    OBVIOUS
  <2> QED
    BY <1>4, <1>5, <2>1
<1>6. CASE m > 0
  <2>1. m - 1 \in Nat /\ ~(m <= m - 1)
    BY <1>4, <1>6
  <2>2. There(m - 1)
    BY <1>3, <2>1
  <2>3. PICK f : f = [n \in 0..(m - 1) |-> IF n = 0 THEN start ELSE Turn(f[n - 1])]
    BY <2>2
  <2>4. \A n \in 0..(m - 1) : f[n] = IF n = 0 THEN start ELSE Turn(f[n - 1])
    BY <2>3
  <2> DEFINE g == [n \in 0..m |-> IF n = m THEN Turn(f[m - 1]) ELSE f[n]]
  <2>5. \A n \in 0..m : g[n] = IF n = 0 THEN start ELSE Turn(g[n - 1])
    <3>1. SUFFICES ASSUME NEW n \in 0..m
                   PROVE  g[n] = IF n = 0 THEN start ELSE Turn(g[n - 1])
      OBVIOUS
    <3>2. CASE n = m
      <4>1. g[n] = Turn(f[m - 1])
        BY <3>2
      <4>2. m - 1 \in 0..m /\ m - 1 # m
        BY <1>4, <2>1
      <4>3. g[m - 1] = f[m - 1]
        BY <4>2
      <4> QED
        BY <1>6, <3>2, <4>1, <4>3
    <3>3. CASE n # m
      <4>1. n \in 0..(m - 1) /\ g[n] = f[n]
        BY <1>4, <3>3
      <4>2. CASE n = 0
        BY <2>4, <4>1, <4>2
      <4>3. CASE n # 0
        <5>1. n - 1 \in 0..m /\ n - 1 # m
          BY <1>4, <4>1, <4>3
        <5>2. g[n - 1] = f[n - 1]
          BY <5>1
        <5> QED
          BY <2>4, <4>1, <4>3, <5>2
      <4> QED
        BY <4>2, <4>3
    <3> QED
      BY <3>2, <3>3
  <2>6. g = [n \in 0..m |-> g[n]]
    OBVIOUS
  <2> HIDE DEF g
  <2>7. g = [n \in 0..m |-> IF n = 0 THEN start ELSE Turn(g[n - 1])]
    BY <2>5, <2>6
  <2> QED
    BY <1>4, <2>7
<1> QED
  BY <1>4, <1>5, <1>6

(* The loop of push() after k turns, from sender q of w bytes.             *)
InLoop(st, q, w, k) ==
  /\ Looping(st, w)
  /\ st.s.window_size = q.window_size
  /\ st.s.next_abs_seqno >= q.next_abs_seqno
  /\ st.s.next_abs_seqno > q.next_abs_seqno =>
       sequence_numbers_in_flight(st.s) <= Limit(q.window_size)
  /\ st.more => /\ sequence_numbers_in_flight(st.s) >= k
                /\ k > 0 => sequence_numbers_in_flight(st.s) <= Limit(q.window_size)
  /\ ~st.more => Settled(st.s) /\ st.s.syn_sent
  /\ After(st.s, q) /\ Kept(st.sent, st.s)

(* A turn keeps it.                                                        *)
LEMMA TurnFacts ==
  ASSUME NEW st, NEW q, NEW w, NEW k \in Nat, InLoop(st, q, w, k), Good(q, w)
  PROVE  InLoop(Turn(st), q, w, k + 1)
<1> DEFINE r == st.s
           t == Turn(st)
           flight == sequence_numbers_in_flight(r)
           next == r.next_abs_seqno
<1>1. Looping(st, w) /\ Good(r, w) /\ r.window_size = q.window_size
  BY DEF InLoop, Looping
<1>2. flight \in Nat /\ next \in Nat /\ q.next_abs_seqno \in Nat
  BY <1>1, FlightFacts, NextFacts
<1>3. /\ next >= q.next_abs_seqno
      /\ next > q.next_abs_seqno => flight <= Limit(q.window_size)
      /\ st.more => flight >= k /\ (k > 0 => flight <= Limit(q.window_size))
  BY DEF InLoop
<1>4. CASE st.more /\ MaySend(r) /\ sequence_length(NextMessage(r)) = 0
  <2>1. /\ Looping(t, w) /\ ~t.more
        /\ t.s.window_size = r.window_size
        /\ t.s.next_abs_seqno = next
        /\ sequence_numbers_in_flight(t.s) = flight
        /\ Settled(t.s)
        /\ t.sent = st.sent /\ t.s.syn_sent /\ t.s.unacked = r.unacked
        /\ After(t.s, r)
    BY <1>1, <1>4, EmptyTurn
  <2>2. After(r, q) /\ Kept(st.sent, r)
    BY DEF InLoop
  <2> HIDE DEF t, r, next, flight
  <2>3. Good(t.s, w)
    BY <2>1 DEF Looping
  <2>4. After(t.s, q)
    BY <1>1, <2>1, <2>2, <2>3, AfterTwice DEF After
  <2>5. Kept(t.sent, t.s)
    BY <2>1, <2>2 DEF Kept
  <2>6. InLoop(t, q, w, k + 1)
    BY <1>1, <1>3, <2>1, <2>4, <2>5 DEF InLoop
  <2> QED
    BY <2>6 DEF t
<1>5. CASE st.more /\ MaySend(r) /\ sequence_length(NextMessage(r)) # 0
  <2>1. /\ Looping(t, w) /\ t.more
        /\ t.s.window_size = r.window_size
        /\ t.s.next_abs_seqno > next
        /\ sequence_numbers_in_flight(t.s) > flight
        /\ sequence_numbers_in_flight(t.s) <= Limit(r.window_size)
        /\ t.s.syn_sent /\ After(t.s, r)
        /\ Kept(st.sent, r) => Kept(t.sent, t.s)
    BY <1>1, <1>5, SendingTurn
  <2>8. After(r, q) /\ Kept(st.sent, r)
    BY DEF InLoop
  <2> HIDE DEF t, r, next, flight
  <2>2. Good(t.s, w)
    BY <2>1 DEF Looping
  <2>3. sequence_numbers_in_flight(t.s) \in Nat /\ t.s.next_abs_seqno \in Nat
    BY <2>2, FlightFacts, NextFacts
  <2>4. t.s.next_abs_seqno >= q.next_abs_seqno
    BY <1>2, <1>3, <2>1, <2>3
  <2>5. sequence_numbers_in_flight(t.s) >= k + 1
    BY <1>2, <1>3, <1>5, <2>1, <2>3
  <2>6. sequence_numbers_in_flight(t.s) <= Limit(q.window_size)
    BY <1>1, <2>1
  <2>9. After(t.s, q)
    BY <1>1, <2>1, <2>2, <2>8, AfterTwice DEF After
  <2>7. InLoop(t, q, w, k + 1)
    BY <1>1, <2>1, <2>4, <2>5, <2>6, <2>8, <2>9 DEF InLoop
  <2> QED
    BY <2>7 DEF t
<1>6. CASE ~(st.more /\ MaySend(r))
  <2> DEFINE no == FALSE
  <2>1. t = [st EXCEPT !.more = no]
    BY <1>6 DEF Turn
  <2>2. no \in BOOLEAN /\ ~no
    OBVIOUS
  <2>3. Settled(r) /\ r.syn_sent
    <3>1. CASE ~st.more
      BY <3>1 DEF InLoop
    <3>2. CASE ~MaySend(r)
      <4>1. r.window_size > 0 /\ flight = 0 => MaySend(r)
        BY DEF MaySend
      <4>2. ~r.syn_sent => r.window_size > 0 /\ flight = 0
        BY <1>1, NextFacts, FlightFacts
      <4> QED
        BY <3>2, <4>1, <4>2 DEF Settled
    <3> QED
      BY <1>6, <3>1, <3>2
  <2>4. PICK go : st = [s |-> st.s, sent |-> st.sent, more |-> go]
    BY <1>1 DEF Looping
  <2> HIDE DEF no, t
  <2>5. t = [s |-> st.s, sent |-> st.sent, more |-> no]
    BY <2>1, <2>4
  <2>6. /\ t.s = r /\ t.more = no /\ t.sent = st.sent
        /\ t = [s |-> t.s, sent |-> t.sent, more |-> t.more]
    BY <2>5
  <2> HIDE DEF r
  <2>7. Looping(t, w)
    BY <1>1, <2>2, <2>6 DEF Looping
  <2>8. InLoop(t, q, w, k + 1)
    <3>1. After(st.s, q) /\ Kept(st.sent, st.s)
      BY DEF InLoop
    <3>2. After(t.s, q) /\ Kept(t.sent, t.s)
      BY <2>6, <3>1 DEF r
    <3> HIDE DEF next, flight
    <3>3. /\ t.s.window_size = q.window_size
          /\ t.s.next_abs_seqno >= q.next_abs_seqno
          /\ t.s.next_abs_seqno > q.next_abs_seqno =>
               sequence_numbers_in_flight(t.s) <= Limit(q.window_size)
      BY <1>1, <1>3, <2>6 DEF next, flight
    <3>4. ~t.more /\ Settled(t.s) /\ t.s.syn_sent
      BY <2>2, <2>3, <2>6
    <3> QED
      BY <2>7, <3>2, <3>3, <3>4 DEF InLoop
  <2> QED
    BY <2>8 DEF t
<1> QED
  BY <1>4, <1>5, <1>6

(* push() keeps what is good, leaves the window alone, sends nothing that  *)
(* does not fit it, and holds nothing back that does: within window + 2    *)
(* turns the loop has ended, since every turn but the last adds to what is *)
(* in flight.  All that it sends is outstanding.                           *)
LEMMA PushedFacts ==
  ASSUME NEW q, NEW w, Good(q, w)
  PROVE  LET p == push(q).s IN
         /\ Good(p, w) /\ Settled(p)
         /\ p.window_size = q.window_size
         /\ p.next_abs_seqno > q.next_abs_seqno =>
              sequence_numbers_in_flight(p) <= Limit(q.window_size)
         /\ p.syn_sent /\ After(p, q)
         /\ Kept(push(q).sent, p)
<1> DEFINE turns == q.window_size + 2
           start == [s |-> q, sent |-> << >>, more |-> TRUE]
           after == CHOOSE f :
             f = [n \in 0..turns |-> IF n = 0 THEN start ELSE Turn(f[n - 1])]
           p == push(q).s
<1>1. q.window_size \in Nat /\ turns \in Nat
  BY SenderFields DEF Good
<1>2. p = after[turns].s /\ push(q).sent = after[turns].sent
  BY DEF push
<1>3. after = [n \in 0..turns |-> IF n = 0 THEN start ELSE Turn(after[n - 1])]
  <2> HIDE DEF turns, start
  <2>1. \E f : IsLoop(f, start, turns)
    BY <1>1, LoopExists
  <2>2. \E f : f = [n \in 0..turns |-> IF n = 0 THEN start ELSE Turn(f[n - 1])]
    BY <2>1 DEF IsLoop
  <2> QED
    BY <2>2
<1> HIDE DEF after
<1>4. InLoop(start, q, w, 0)
  <2>1. /\ start.s = q /\ start.more
        /\ start = [s |-> start.s, sent |-> start.sent, more |-> start.more]
        /\ start.more \in BOOLEAN
    OBVIOUS
  <2>2. /\ sequence_numbers_in_flight(q) \in Nat /\ q.next_abs_seqno \in Nat
        /\ q.input.popped \in Nat
    BY FlightFacts, NextFacts, InputFacts
  <2>4. start.sent = << >>
    OBVIOUS
  <2> HIDE DEF start
  <2>3. Looping(start, w)
    BY <2>1 DEF Looping
  <2>5. After(q, q) /\ Kept(<< >>, q)
    BY <2>2, EmptySeq DEF After, Onward, Kept
  <2> QED
    BY <2>1, <2>2, <2>3, <2>4, <2>5 DEF InLoop
<1> HIDE DEF start
<1>5. \A n \in 0..turns : InLoop(after[n], q, w, n)
  <2> DEFINE failing == { n \in 0..turns : ~InLoop(after[n], q, w, n) }
  <2>1. SUFFICES ASSUME failing # {} PROVE FALSE
    OBVIOUS
  <2>2. failing \in SUBSET Nat
    BY <1>1
  <2>3. PICK n \in failing : \A m \in failing : n <= m
    <3> HIDE DEF failing
    <3> QED
      BY <2>1, <2>2, LeastExists
  <2>4. n \in 0..turns /\ ~InLoop(after[n], q, w, n)
    OBVIOUS
  <2> HIDE DEF turns
  <2>5. CASE n = 0
    BY <1>1, <1>3, <1>4, <2>4, <2>5
  <2>6. CASE n # 0
    <3>1. n - 1 \in Nat /\ n - 1 \in 0..turns /\ ~(n <= n - 1) /\ (n - 1) + 1 = n
      BY <1>1, <2>4, <2>6
    <3>2. InLoop(after[n - 1], q, w, n - 1)
      BY <2>3, <3>1
    <3>3. after[n] = Turn(after[n - 1])
      BY <1>3, <2>4, <2>6
    <3>4. PICK m \in Nat : m = n - 1 /\ m + 1 = n
      BY <3>1
    <3>5. InLoop(Turn(after[m]), q, w, m + 1)
      BY <3>2, <3>4, TurnFacts
    <3> QED
      BY <2>4, <3>3, <3>4, <3>5
  <2> QED
    BY <2>5, <2>6
<1>6. InLoop(after[turns], q, w, turns)
  BY <1>1, <1>5
<1> DEFINE end == after[turns]
           flight == sequence_numbers_in_flight(end.s)
<1> HIDE DEF end
<1>7. p = end.s /\ push(q).sent = end.sent /\ InLoop(end, q, w, turns)
  BY <1>2, <1>6 DEF end
<1>8. Good(end.s, w) /\ end.s.window_size = q.window_size
  BY <1>7 DEF InLoop, Looping
<1>9. ~end.more
  <2>1. SUFFICES ASSUME end.more PROVE FALSE
    OBVIOUS
  <2>2. flight \in Nat
    BY <1>8, FlightFacts
  <2>3. flight >= turns /\ flight <= Limit(q.window_size)
    BY <1>1, <1>7, <2>1 DEF InLoop
  <2> HIDE DEF flight
  <2> QED
    BY <1>1, <2>2, <2>3 DEF Limit
<1> HIDE DEF p, turns
<1>11. p.syn_sent /\ After(p, q) /\ Kept(push(q).sent, p)
  BY <1>7, <1>9 DEF InLoop
<1>10. Settled(p) /\ (p.next_abs_seqno > q.next_abs_seqno =>
              sequence_numbers_in_flight(p) <= Limit(q.window_size))
  BY <1>7, <1>9 DEF InLoop
<1> QED
  BY <1>7, <1>8, <1>10, <1>11 DEF p

-----------------------------------------------------------------------------
Half == Mod \div 2

Offset(x) == (x - ISN) % Mod

(* The circle has two equal halves.                                        *)
LEMMA HalfFacts == Half \in Nat /\ Mod = Half + Half /\ Half > 0
<1>1. Mod \div 2 \in Int /\ Mod = 2 * (Mod \div 2) + (Mod % 2)
  BY ModDiv
<1> QED
  BY <1>1 DEF Half

(* Neighbouring multiples, and multiples that are apart.                   *)
LEMMA MultipleFacts ==
  ASSUME NEW M \in Nat \ {0}, NEW a \in Int, NEW b \in Int
  PROVE  /\ M * a \in Int
         /\ M * (a + 1) = M * a + M /\ M * (a - 1) = M * a - M
         /\ a >= 0 => M * a >= 0
         /\ a = 0 => M * a = 0
         /\ a < b => M * a + M <= M * b
<1>1. a >= 0 => M * a >= 0
  OBVIOUS
<1>2. a < b => M * a + M <= M * b
  <2>1. SUFFICES ASSUME a < b PROVE M * a + M <= M * b
    OBVIOUS
  <2>2. PICK d \in Nat : b = a + 1 + d
    <3>1. b - a - 1 \in Nat /\ b = a + 1 + (b - a - 1)
      BY <2>1
    <3> QED
      BY <3>1
  <2>3. M * b = M * a + M + M * d
    BY <2>2
  <2>4. M * d >= 0 /\ M * d \in Int
    OBVIOUS
  <2>5. M * a \in Int
    OBVIOUS
  <2> QED
    BY <2>3, <2>4, <2>5
<1> QED
  BY <1>1, <1>2

(* Where unwrap() lands: at most half a circle below the checkpoint, and   *)
(* no further above it unless it is in the first circle.                   *)
LEMMA UnwrapFacts ==
  ASSUME NEW x \in Raw, NEW c \in Nat, c + Mod <= U64
  PROVE  \E m \in Nat :
           /\ unwrap(x, ISN, c) = Mod * m + Offset(x)
           /\ c - (Mod * m + Offset(x)) <= Half
           /\ m = 0 \/ Mod * m + Offset(x) <= c + Half
<1>1. PICK off \in 0..(Mod - 1) : off = Offset(x)
  <2>1. PICK d \in Int : d = x - ISN
    BY DEF Raw
  <2>2. d % Mod \in 0..(Mod - 1)
    BY ModRange
  <2> QED
    BY <2>1, <2>2 DEF Offset
<1>2. PICK a \in Int, r \in 0..(Mod - 1) : c = Mod * a + r /\ r = c % Mod
  <2>1. c \div Mod \in Int /\ c = Mod * (c \div Mod) + (c % Mod)
    BY ModDiv
  <2>2. c % Mod \in 0..(Mod - 1)
    BY ModRange
  <2> QED
    BY <2>1, <2>2
<1>3. PICK base \in Int : base = Mod * a
  BY MultipleFacts
<1>4. /\ base + Mod = Mod * (a + 1) /\ base - Mod = Mod * (a - 1)
      /\ a < 0 => base + Mod <= 0
      /\ a = 0 => base = 0
  <2>1. a < 0 => Mod * a + Mod <= Mod * 0
    BY MultipleFacts
  <2> QED
    BY <1>3, <2>1, MultipleFacts
<1>5. c = base + r /\ c - (c % Mod) = base
  BY <1>2, <1>3
<1>6. a \in Nat /\ base >= 0
  BY <1>2, <1>4, <1>5
<1> DEFINE t == base + off
           v == unwrap(x, ISN, c)
<1>7. v = IF t > c /\ t - c > Half THEN IF t >= Mod THEN t - Mod ELSE t
          ELSE IF t < c /\ c - t > Half THEN (t + Mod) % U64 ELSE t
  BY <1>1, <1>5 DEF unwrap, TooFar, Half, Offset
<1> HIDE DEF v
<1>8. /\ Half \in Nat /\ Mod = Half + Half /\ t \in Nat
      /\ t < c + Mod /\ c < t + Mod
  BY <1>1, <1>2, <1>5, <1>6, HalfFacts
<1>9. CASE t > c /\ t - c > Half /\ t >= Mod
  <2>1. v = (base - Mod) + off
    BY <1>7, <1>8, <1>9
  <2>2. a # 0
    BY <1>4, <1>9
  <2>3. a - 1 \in Nat
    BY <1>6, <2>2
  <2>4. c - ((base - Mod) + off) <= Half /\ (base - Mod) + off <= c + Half
    BY <1>8, <1>9
  <2> QED
    BY <1>1, <1>4, <2>1, <2>3, <2>4 DEF v
<1>10. CASE t > c /\ t - c > Half /\ t < Mod
  <2>1. v = base + off
    BY <1>7, <1>8, <1>10
  <2>2. a = 0
    <3>1. 0 < a => Mod * 0 + Mod <= Mod * a
      BY MultipleFacts
    <3> QED
      BY <1>1, <1>3, <1>6, <1>10, <3>1
  <2>3. c - (base + off) <= Half
    BY <1>8, <1>10
  <2> QED
    BY <1>1, <1>3, <1>6, <2>1, <2>2, <2>3 DEF v
<1>11. CASE t < c /\ c - t > Half
  <2>1. t + Mod \in 0..(U64 - 1)
    BY <1>8, <1>11
  <2>2. (t + Mod) % U64 = t + Mod
    BY <2>1, ModSmall
  <2>3. v = (base + Mod) + off
    BY <1>7, <1>8, <1>11, <2>2
  <2>4. c - ((base + Mod) + off) <= Half /\ (base + Mod) + off <= c + Half
    BY <1>8, <1>11
  <2>5. a + 1 \in Nat
    BY <1>6
  <2> QED
    BY <1>1, <1>4, <2>3, <2>4, <2>5 DEF v
<1>12. CASE ~(t > c /\ t - c > Half) /\ ~(t < c /\ c - t > Half)
  <2>1. v = base + off
    BY <1>7, <1>12
  <2>2. c - (base + off) <= Half /\ base + off <= c + Half
    BY <1>8, <1>12
  <2> QED
    BY <1>1, <1>3, <1>6, <2>1, <2>2 DEF v
<1> QED
  BY <1>8, <1>9, <1>10, <1>11, <1>12

(* An ackno that is not ahead of what was sent is not ahead of it either   *)
(* when it is unwrapped near what was acknowledged.                        *)
LEMMA AcknoFacts ==
  ASSUME NEW x \in Raw, NEW next \in Nat, NEW acked \in 0..next,
         next + Mod <= U64, unwrap(x, ISN, next) <= next
  PROVE  unwrap(x, ISN, acked) \in 0..next
<1>1. PICK m \in Nat :
           /\ unwrap(x, ISN, next) = Mod * m + Offset(x)
           /\ next - (Mod * m + Offset(x)) <= Half
           /\ m = 0 \/ Mod * m + Offset(x) <= next + Half
  BY UnwrapFacts
<1>2. acked \in Nat /\ acked + Mod <= U64
  OBVIOUS
<1>3. PICK k \in Nat :
           /\ unwrap(x, ISN, acked) = Mod * k + Offset(x)
           /\ acked - (Mod * k + Offset(x)) <= Half
           /\ k = 0 \/ Mod * k + Offset(x) <= acked + Half
  BY <1>2, UnwrapFacts
<1>4. PICK off \in Nat : off = Offset(x)
  <2>1. PICK d \in Int : d = x - ISN
    BY DEF Raw
  <2>2. d % Mod \in 0..(Mod - 1)
    BY ModRange
  <2> QED
    BY <2>1, <2>2 DEF Offset
<1>5. PICK u \in Nat, v \in Nat : u = Mod * m /\ v = Mod * k
  BY MultipleFacts
<1>6. /\ m < k => u + Mod <= v
      /\ m = k => u = v
      /\ k = 0 => v = 0
  BY <1>5, MultipleFacts
<1>7. /\ u + off <= next /\ next - (u + off) <= Half
      /\ k = 0 \/ v + off <= acked + Half
      /\ k < m \/ k = m \/ m < k
  BY <1>1, <1>3, <1>4, <1>5
<1>8. v + off <= next
  <2>1. SUFFICES ASSUME v + off > next PROVE FALSE
    OBVIOUS
  <2>2. k # 0
    BY <1>6, <1>7, <2>1
  <2>3. m < k
    <3>1. k < m => v + Mod <= u
      BY <1>5, MultipleFacts
    <3> QED
      BY <1>6, <1>7, <2>1, <3>1
  <2>4. acked = next /\ u + Mod = v + 0
    BY <1>6, <1>7, <2>1, <2>2, <2>3, HalfFacts
  <2>5. Mod * m + Offset(x) = Mod * k + Offset(x)
    BY <1>1, <1>3, <2>4
  <2> QED
    BY <1>4, <1>5, <2>4, <2>5
<1> QED
  BY <1>3, <1>4, <1>5, <1>8

(* In a stream shorter than half a circle every number is nearest to every *)
(* other.                                                                  *)
LEMMA UnwrapNear ==
  ASSUME NEW z \in Raw, NEW n \in 0..Half, NEW c \in 0..Half
  PROVE  wrap(n, z) \in Raw /\ unwrap(wrap(n, z), z, c) = n
<1>1. Half \in Nat /\ Mod = Half + Half /\ Half > 0
  BY HalfFacts
<1>2. z \in 0..(Mod - 1) /\ n \in 0..(Mod - 1) /\ c \in 0..(Mod - 1)
  BY <1>1 DEF Raw
<1>3. PICK x \in 0..(Mod - 1) : x = (z + n) % Mod
  <2>1. z + n \in Int
    BY <1>2
  <2> QED
    BY <2>1, ModRange
<1>4. (x - z) % Mod = n
  <2>1. x = IF z + n < Mod THEN z + n ELSE z + n - Mod
    <3>1. n \in 0..Mod
      BY <1>1
    <3> QED
      BY <1>2, <1>3, <3>1, ModStep
  <2>2. CASE z + n < Mod
    <3>1. x - z = n
      BY <1>2, <2>1, <2>2
    <3> QED
      BY <1>2, <3>1, ModSmall
  <2>3. CASE ~(z + n < Mod)
    <3>1. PICK d \in Int : d = x - z /\ d = Mod * (-1) + n
      BY <1>2, <2>1, <2>3
    <3> QED
      BY <1>2, <3>1, ModUnique
  <2> QED
    BY <2>2, <2>3
<1>5. c % Mod = c
  BY <1>2, ModSmall
<1>6. /\ c - (c % Mod) = 0
      /\ 0 + ((x - z) % Mod) = n
  BY <1>2, <1>4, <1>5
<1>7. ~(n > c /\ n - c > Half) /\ ~(n < c /\ c - n > Half)
  BY <1>1
<1>8. wrap(n, z) = x
  BY <1>3 DEF wrap
<1>9. unwrap(x, z, c) = n
  BY <1>6, <1>7 DEF unwrap, TooFar, Half
<1> QED
  BY <1>3, <1>8, <1>9 DEF Raw

-----------------------------------------------------------------------------
IsTimeouts(f, m) == f = [n \in 0..m |-> IF n = 0 THEN InitialRTO ELSE 2 * f[n - 1]]

(* The recursive function of the timeouts does exist.                      *)
LEMMA TimeoutsExist ==
  ASSUME NEW turns \in Nat
  PROVE  \E f : IsTimeouts(f, turns)
<1> DEFINE There(m) ==
      \E f : f = [n \in 0..m |-> IF n = 0 THEN InitialRTO ELSE 2 * f[n - 1]]
           missing == { m \in Nat : ~There(m) }
<1>1. SUFFICES ASSUME missing # {} PROVE FALSE
  BY DEF IsTimeouts
<1>2. missing \subseteq Nat
  OBVIOUS
<1>3. PICK m \in missing : \A j \in missing : m <= j
  <2> HIDE DEF missing
  <2> QED
    BY <1>1, <1>2, LeastExists
<1>4. m \in Nat /\ ~There(m)
  OBVIOUS
<1>5. CASE m = 0
  <2> DEFINE f == [n \in 0..0 |-> InitialRTO]
  <2>1. f = [n \in 0..0 |-> IF n = 0 THEN InitialRTO ELSE 2 * f[n - 1]]
    OBVIOUS
  <2> QED
    BY <1>4, <1>5, <2>1
<1>6. CASE m > 0
  <2>1. m - 1 \in Nat /\ ~(m <= m - 1)
    BY <1>4, <1>6
  <2>2. There(m - 1)
    BY <1>3, <2>1
  <2>3. PICK f : f = [n \in 0..(m - 1) |-> IF n = 0 THEN InitialRTO ELSE 2 * f[n - 1]]
    BY <2>2
  <2>4. \A n \in 0..(m - 1) : f[n] = IF n = 0 THEN InitialRTO ELSE 2 * f[n - 1]
    BY <2>3
  <2> DEFINE g == [n \in 0..m |-> IF n = m THEN 2 * f[m - 1] ELSE f[n]]
  <2>5. \A n \in 0..m : g[n] = IF n = 0 THEN InitialRTO ELSE 2 * g[n - 1]
    <3>1. SUFFICES ASSUME NEW n \in 0..m
                   PROVE  g[n] = IF n = 0 THEN InitialRTO ELSE 2 * g[n - 1]
      OBVIOUS
    <3>2. CASE n = m
      <4>1. g[n] = 2 * f[m - 1]
        BY <3>2
      <4>2. m - 1 \in 0..m /\ m - 1 # m
        BY <1>4, <2>1
      <4>3. g[m - 1] = f[m - 1]
        BY <4>2
      <4> QED
        BY <1>6, <3>2, <4>1, <4>3
    <3>3. CASE n # m
      <4>1. n \in 0..(m - 1) /\ g[n] = f[n]
        BY <1>4, <3>3
      <4>2. CASE n = 0
        BY <2>4, <4>1, <4>2
      <4>3. CASE n # 0
        <5>1. n - 1 \in 0..m /\ n - 1 # m
          BY <1>4, <4>1, <4>3
        <5>2. g[n - 1] = f[n - 1]
          BY <5>1
        <5> QED
          BY <2>4, <4>1, <4>3, <5>2
      <4> QED
        BY <4>2, <4>3
    <3> QED
      BY <3>2, <3>3
  <2>6. g = [n \in 0..m |-> g[n]]
    OBVIOUS
  <2> HIDE DEF g
  <2>7. g = [n \in 0..m |-> IF n = 0 THEN InitialRTO ELSE 2 * g[n - 1]]
    BY <2>5, <2>6
  <2> QED
    BY <1>4, <2>7
<1> QED
  BY <1>4, <1>5, <1>6

(* The timeout doubles with every retransmission.                          *)
LEMMA TimeoutFacts ==
  /\ TimeoutAfter[0] = InitialRTO
  /\ \A n \in Nat : n + 1 <= MaxRetx => TimeoutAfter[n + 1] = 2 * TimeoutAfter[n]
<1> DEFINE f == CHOOSE f : f = [n \in 0..MaxRetx |->
                                  IF n = 0 THEN InitialRTO ELSE 2 * f[n - 1]]
<1>1. TimeoutAfter = f
  BY DEF TimeoutAfter
<1>2. f = [n \in 0..MaxRetx |-> IF n = 0 THEN InitialRTO ELSE 2 * f[n - 1]]
  <2>1. \E g : IsTimeouts(g, MaxRetx)
    BY TimeoutsExist
  <2>2. \E g : g = [n \in 0..MaxRetx |-> IF n = 0 THEN InitialRTO ELSE 2 * g[n - 1]]
    BY <2>1 DEF IsTimeouts
  <2> QED
    BY <2>2
<1> HIDE DEF f
<1>3. f[0] = InitialRTO
  BY <1>2
<1>4. ASSUME NEW n \in Nat, n + 1 <= MaxRetx
      PROVE  f[n + 1] = 2 * f[n]
  <2>1. n + 1 \in 0..MaxRetx /\ n + 1 # 0 /\ (n + 1) - 1 = n
    BY <1>4
  <2> QED
    BY <1>2, <2>1
<1> QED
  BY <1>1, <1>3, <1>4

(* A sender that differs from a good one in its window, or in what has     *)
(* been acknowledged, alone.                                               *)
LEMMA AlikeFacts ==
  ASSUME NEW q, NEW p, NEW w, Good(q, w), p \in Sender,
         SameStream(p, q), SameTimer(p, q),
         p.next_abs_seqno = q.next_abs_seqno, p.unacked = q.unacked,
         p.acked_abs_seqno \in 0..q.next_abs_seqno,
         q.syn_sent \/ p.window_size > 0
  PROVE  Good(p, w)
<1>1. /\ p.input = q.input
      /\ p.syn_sent = q.syn_sent /\ p.fin_sent = q.fin_sent
  BY DEF SameStream
<1>2. InStream(p, w)
  BY <1>1 DEF Good, InStream
<1>3. q.next_abs_seqno \in Nat
  BY NextFacts
<1>4. Counted(p)
  BY <1>1, <1>3 DEF Good, Counted
<1>5. InPlace(p, w)
  BY <1>1 DEF Good, InPlace
<1>6. Timed(p)
  BY DEF Good, Timed, SameTimer
<1> QED
  BY <1>2, <1>4, <1>5, <1>6 DEF Good

(* What is left of outstanding messages once a number is acknowledged.     *)
Left(u, gone) == [k \in DOMAIN u \ gone |-> u[k]]

(* What an acknowledgment covers is the beginning of the outstanding       *)
(* messages, so that what is left still ends at the next number.           *)
LEMMA LeftFacts ==
  ASSUME NEW q, NEW next, NEW a, Tiles(q.unacked, next)
  PROVE  Tiles(Left(q.unacked, Acknowledged(q, a)), next)
<1> DEFINE u == q.unacked
           gone == Acknowledged(q, a)
           v == Left(u, gone)
<1>1. DOMAIN v = DOMAIN u \ gone /\ \A k \in DOMAIN v : v[k] = u[k]
  BY DEF Left
<1>2. \A k \in DOMAIN u :
        k \in gone <=> \A j \in DOMAIN u : j <= k => j + sequence_length(u[j]) <= a
  BY DEF Acknowledged
<1> HIDE DEF v, gone
<1>3. DOMAIN v \subseteq Nat
  BY <1>1 DEF Tiles
<1>4. ASSUME NEW k \in DOMAIN v
      PROVE  /\ sequence_length(v[k]) \in Nat \ {0}
             /\ k + sequence_length(v[k]) <= next
             /\ k + sequence_length(v[k]) = next \/ k + sequence_length(v[k]) \in DOMAIN v
             /\ \A j \in DOMAIN v : j < k => j + sequence_length(v[j]) <= k
  <2>1. k \in DOMAIN u /\ k \notin gone /\ v[k] = u[k] /\ k \in Nat
    BY <1>1, <1>3
  <2>2. /\ sequence_length(u[k]) \in Nat \ {0}
        /\ k + sequence_length(u[k]) <= next
        /\ k + sequence_length(u[k]) = next \/ k + sequence_length(u[k]) \in DOMAIN u
        /\ \A j \in DOMAIN u : j < k => j + sequence_length(u[j]) <= k
    BY <2>1 DEF Tiles
  <2>3. PICK e \in Nat : e = k + sequence_length(u[k]) /\ k < e
    BY <2>1, <2>2
  <2>4. e \in DOMAIN u => e \notin gone
    <3>1. SUFFICES ASSUME e \in DOMAIN u, e \in gone PROVE FALSE
      OBVIOUS
    <3>2. \A j \in DOMAIN u : j <= k => j <= e
      BY <2>1, <2>3 DEF Tiles
    <3>3. \A j \in DOMAIN u : j <= k => j + sequence_length(u[j]) <= a
      BY <1>2, <3>1, <3>2
    <3> QED
      BY <1>2, <2>1, <3>3
  <2>5. e = next \/ e \in DOMAIN v
    BY <1>1, <2>2, <2>3, <2>4
  <2>6. ASSUME NEW j \in DOMAIN v, j < k
        PROVE  j + sequence_length(v[j]) <= k
    <3>1. j \in DOMAIN u /\ v[j] = u[j]
      BY <1>1
    <3> QED
      BY <2>2, <2>6, <3>1
  <2> QED
    BY <2>1, <2>2, <2>3, <2>5, <2>6
<1>5. Tiles(v, next)
  BY <1>3, <1>4 DEF Tiles
<1> QED
  BY <1>5 DEF v, gone

(* A sender after an acknowledgment that covers something.                 *)
Forgetting(q, a, left, running) ==
  [q EXCEPT !.acked_abs_seqno = a,
            !.unacked = left,
            !.RTO = InitialRTO,
            !.consecutive_retransmissions = 0,
            !.passed_time = 0,
            !.timer_running = running]

(* Its fields.                                                             *)
LEMMA ForgetFacts ==
  ASSUME NEW q \in Sender, NEW a \in Nat, NEW left \in Map, NEW running \in BOOLEAN,
         NEW p, p = Forgetting(q, a, left, running)
  PROVE  /\ p \in Sender
         /\ SameStream(p, q)
         /\ p.window_size = q.window_size /\ p.next_abs_seqno = q.next_abs_seqno
         /\ p.acked_abs_seqno = a /\ p.unacked = left
         /\ p.RTO = InitialRTO /\ p.consecutive_retransmissions = 0
         /\ p.timer_running = running
<1> DEFINE b == [q EXCEPT !.acked_abs_seqno = a]
           c == [b EXCEPT !.unacked = left]
           d == [c EXCEPT !.RTO = InitialRTO]
           e == [d EXCEPT !.consecutive_retransmissions = 0]
           f == [e EXCEPT !.passed_time = 0]
<1>1. p = [f EXCEPT !.timer_running = running]
  BY DEF Sender, Forgetting
<1>2. /\ b \in Sender /\ SameStream(b, q)
      /\ b.window_size = q.window_size /\ b.next_abs_seqno = q.next_abs_seqno
      /\ b.acked_abs_seqno = a
  BY DEF Sender, SameStream
<1> HIDE DEF b
<1>3. /\ c \in Sender /\ SameStream(c, q)
      /\ c.window_size = q.window_size /\ c.next_abs_seqno = q.next_abs_seqno
      /\ c.acked_abs_seqno = a /\ c.unacked = left
  BY <1>2 DEF Sender, SameStream
<1> HIDE DEF c
<1>4. /\ d \in Sender /\ SameStream(d, q)
      /\ d.window_size = q.window_size /\ d.next_abs_seqno = q.next_abs_seqno
      /\ d.acked_abs_seqno = a /\ d.unacked = left /\ d.RTO = InitialRTO
  BY <1>3 DEF Sender, SameStream
<1> HIDE DEF d
<1>5. /\ e \in Sender /\ SameStream(e, q)
      /\ e.window_size = q.window_size /\ e.next_abs_seqno = q.next_abs_seqno
      /\ e.acked_abs_seqno = a /\ e.unacked = left /\ e.RTO = InitialRTO
      /\ e.consecutive_retransmissions = 0
  BY <1>4 DEF Sender, SameStream
<1> HIDE DEF e
<1>6. /\ f \in Sender /\ SameStream(f, q)
      /\ f.window_size = q.window_size /\ f.next_abs_seqno = q.next_abs_seqno
      /\ f.acked_abs_seqno = a /\ f.unacked = left /\ f.RTO = InitialRTO
      /\ f.consecutive_retransmissions = 0
  BY <1>5 DEF Sender, SameStream
<1> HIDE DEF f
<1> QED
  BY <1>1, <1>6 DEF Sender, SameStream

(* An acknowledgment of a number not ahead of what was sent keeps all that *)
(* is good: it forgets the messages it covers, and the timer goes on only  *)
(* while some are left.                                                    *)
LEMMA AcknowledgeFacts ==
  ASSUME NEW q, NEW w, Good(q, w), q.syn_sent, NEW a \in 0..q.next_abs_seqno
  PROVE  /\ Good(Acknowledge(q, a), w)
         /\ Acknowledge(q, a).next_abs_seqno = q.next_abs_seqno
         /\ Acknowledge(q, a).unacked = Left(q.unacked, Acknowledged(q, a))
         /\ SameStream(Acknowledge(q, a), q)
<1> DEFINE p == Acknowledge(q, a)
           u == q.unacked
           gone == Acknowledged(q, a)
           left == Left(u, gone)
           running == DOMAIN u # gone
<1>1. /\ q \in Sender /\ u \in Map /\ q.next_abs_seqno \in Nat
      /\ a \in Nat /\ a <= q.next_abs_seqno
      /\ Tiles(u, q.next_abs_seqno)
  BY NextFacts, SenderFields DEF Good
<1>2. CASE gone = {}
  <2>1. p = [q EXCEPT !.acked_abs_seqno = a]
    BY <1>2 DEF Acknowledge
  <2>2. /\ p \in Sender /\ SameStream(p, q) /\ SameTimer(p, q)
        /\ p.next_abs_seqno = q.next_abs_seqno /\ p.unacked = q.unacked
        /\ p.acked_abs_seqno = a
    BY <1>1, <2>1 DEF Sender, SameStream, SameTimer
  <2> HIDE DEF p
  <2>3. Good(p, w)
    BY <2>2, AlikeFacts
  <2>4. Left(u, gone) = u
    <3>1. u = [k \in DOMAIN u |-> u[k]]
      BY <1>1 DEF Map
    <3> HIDE DEF u
    <3> QED
      BY <1>2, <3>1 DEF Left
  <2> QED
    BY <2>2, <2>3, <2>4 DEF p
<1>3. CASE gone # {}
  <2>1. p = Forgetting(q, a, left, running)
    BY <1>3 DEF Acknowledge, Left, Forgetting
  <2>2. running \in BOOLEAN /\ (running <=> DOMAIN u # gone)
    OBVIOUS
  <2>3. /\ left \in Map
        /\ DOMAIN left = DOMAIN u \ gone
        /\ \A k \in DOMAIN left : left[k] = u[k]
    <3>1. DOMAIN u \ gone \in SUBSET Nat /\ \A k \in DOMAIN u : u[k] \in Msg
      BY <1>1, MapFacts
    <3> HIDE DEF gone
    <3>2. /\ left \in [DOMAIN u \ gone -> Msg]
          /\ DOMAIN left = DOMAIN u \ gone
          /\ \A k \in DOMAIN left : left[k] = u[k]
      BY <3>1 DEF Left
    <3> HIDE DEF left
    <3> QED
      BY <3>1, <3>2, MapNew
  <2>4. Tiles(left, q.next_abs_seqno)
    BY <1>1, LeftFacts
  <2>5. gone \subseteq DOMAIN u
    BY DEF Acknowledged
  <2> HIDE DEF p, left, running, gone
  <2>6. /\ p \in Sender
        /\ SameStream(p, q)
        /\ p.window_size = q.window_size /\ p.next_abs_seqno = q.next_abs_seqno
        /\ p.acked_abs_seqno = a /\ p.unacked = left
        /\ p.RTO = InitialRTO /\ p.consecutive_retransmissions = 0
        /\ p.timer_running = running
    <3>1. q \in Sender /\ a \in Nat /\ left \in Map /\ running \in BOOLEAN
      BY <1>1, <2>2, <2>3
    <3> HIDE DEF u
    <3> QED
      BY <2>1, <3>1, ForgetFacts
  <2>7. /\ p.input = q.input
        /\ p.syn_sent = q.syn_sent /\ p.fin_sent = q.fin_sent
    BY <2>6 DEF SameStream
  <2>8. InStream(p, w)
    BY <2>7 DEF Good, InStream
  <2>9. Counted(p)
    BY <1>1, <2>6, <2>7 DEF Good, Counted
  <2>10. InPlace(p, w)
    <3>1. ASSUME NEW k \in DOMAIN p.unacked
          PROVE  k \in DOMAIN u /\ p.unacked[k] = u[k]
      BY <2>3, <2>6
    <3> QED
      BY <2>7, <3>1 DEF Good, InPlace
  <2>11. Timed(p)
    <3>1. p.timer_running <=> DOMAIN p.unacked # {}
      BY <2>2, <2>3, <2>5, <2>6
    <3> QED
      BY <2>6, <3>1, TimeoutFacts DEF Timed
  <2>12. Good(p, w)
    BY <2>4, <2>6, <2>8, <2>9, <2>10, <2>11 DEF Good
  <2> QED
    BY <2>6, <2>12 DEF p, left, gone
<1> QED
  BY <1>2, <1>3

(* What an acknowledgment of a leaves of outstanding messages u: nothing   *)
(* when it covers everything, and otherwise something that begins at a or  *)
(* before, or as before.                                                   *)
Remains(v, u, a, next) ==
  /\ DOMAIN v = {} => DOMAIN u = {} \/ a = next
  /\ a = next => DOMAIN v = {}
  /\ DOMAIN v \subseteq DOMAIN u
  /\ \A f \in DOMAIN v : (\A k \in DOMAIN v : f <= k) =>
       f <= a \/ \A k \in DOMAIN u : f <= k

(* It does.                                                                *)
LEMMA LeftFrom ==
  ASSUME NEW q, NEW next \in Nat, NEW a \in 0..next, Tiles(q.unacked, next),
         NEW v, v = Left(q.unacked, Acknowledged(q, a))
  PROVE  Remains(v, q.unacked, a, next)
<1> DEFINE u == q.unacked
           gone == Acknowledged(q, a)
<1>1. /\ DOMAIN v = DOMAIN u \ gone
      /\ \A k \in DOMAIN u :
        k \in gone <=> \A j \in DOMAIN u : j <= k => j + sequence_length(u[j]) <= a
  BY DEF Left, Acknowledged
<1>2. /\ DOMAIN u \subseteq Nat
      /\ \A k \in DOMAIN u :
           /\ sequence_length(u[k]) \in Nat \ {0}
           /\ k + sequence_length(u[k]) <= next
           /\ \A j \in DOMAIN u : j < k => j + sequence_length(u[j]) <= k
  BY DEF Tiles
<1> HIDE DEF gone
<1>3. a = next => DOMAIN v = {}
  BY <1>1, <1>2
<1>4. ASSUME DOMAIN v = {}, DOMAIN u # {} PROVE a = next
  <2>1. PICK f \in DOMAIN u : TRUE
    BY <1>4
  <2>2. /\ next - 1 \in Nat /\ f \in Nat /\ f <= next - 1 /\ next - 1 < next
    BY <1>2, <2>1
  <2>3. PICK k \in DOMAIN u : k <= next - 1 /\ next - 1 < k + sequence_length(u[k])
    BY <2>1, <2>2, OwnerExists
  <2>4. k \in gone /\ k \in Nat
    BY <1>1, <1>2, <1>4
  <2>5. k + sequence_length(u[k]) <= a
    BY <1>1, <2>4
  <2> QED
    BY <1>2, <2>2, <2>3, <2>4, <2>5
<1>5. ASSUME NEW f \in DOMAIN v, \A k \in DOMAIN v : f <= k,
             NEW e \in DOMAIN u, ~(f <= e)
      PROVE  f <= a
  <2>1. f \in DOMAIN u /\ f \in Nat /\ e \in Nat /\ e <= f - 1 /\ f - 1 \in Nat
    BY <1>1, <1>2, <1>5
  <2>2. f - 1 < next
    BY <1>2, <2>1
  <2>3. PICK k \in DOMAIN u : k <= f - 1 /\ f - 1 < k + sequence_length(u[k])
    BY <2>1, <2>2, OwnerExists
  <2>4. k \in Nat /\ ~(f <= k)
    BY <1>2, <2>1, <2>3
  <2>5. k \in gone
    BY <1>1, <1>5, <2>4
  <2>6. k + sequence_length(u[k]) <= a
    BY <1>1, <2>4, <2>5
  <2> QED
    BY <1>2, <2>1, <2>3, <2>4, <2>6
<1> QED
  BY <1>1, <1>3, <1>4, <1>5 DEF Remains

-----------------------------------------------------------------------------
(* A message of the receiver.                                              *)
Report(ackno, window) == [ackno |-> ackno, window_size |-> window, RST |-> FALSE]

(* Whatever the receiver reports, receive() keeps what is good, and sends  *)
(* nothing itself.                                                         *)
LEMMA ReceiveFacts ==
  ASSUME NEW q, NEW w, Good(q, w), NEW ackno \in Raw \cup {NoAckno}, NEW window \in Nat,
         q.next_abs_seqno = 0 => window > 0 /\ ackno = NoAckno
  PROVE  LET p == receive(q, Report(ackno, window)) IN
         /\ Good(p, w)
         /\ p.next_abs_seqno = q.next_abs_seqno
         /\ SameStream(p, q)
         /\ ackno = NoAckno => p.unacked = q.unacked
         /\ ackno # NoAckno /\ unwrap(ackno, ISN, q.next_abs_seqno) <= q.next_abs_seqno =>
              p.unacked =
                Left(q.unacked, Acknowledged(q, unwrap(ackno, ISN, q.acked_abs_seqno)))
<1> DEFINE next == q.next_abs_seqno
           acked == q.acked_abs_seqno
           windowed == [q EXCEPT !.window_size = window]
           seen == q.syn_sent \/ ackno = add(q.isn, 1)
           noted == [windowed EXCEPT !.syn_sent = seen]
           p == receive(q, Report(ackno, window))
<1>1. /\ q \in Sender /\ q.isn = ISN /\ next \in Nat /\ acked \in 0..next
      /\ q.syn_sent \in BOOLEAN /\ w \in 0..ToWrite /\ next <= w + 2
      /\ ~q.syn_sent => next = 0
  BY NextFacts, SenderFields, InputFacts DEF Good
<1>2. p = IF ackno = NoAckno THEN windowed
          ELSE IF unwrap(ackno, ISN, next) > next THEN noted
          ELSE Acknowledge(noted, unwrap(ackno, ISN, acked))
  BY <1>1 DEF receive, Report
<1>3. /\ windowed \in Sender /\ SameStream(windowed, q) /\ SameTimer(windowed, q)
      /\ windowed.next_abs_seqno = next /\ windowed.unacked = q.unacked
      /\ windowed.acked_abs_seqno = acked
      /\ windowed.window_size = window
      /\ windowed.syn_sent = q.syn_sent
  BY <1>1 DEF Sender, SameStream, SameTimer
<1> HIDE DEF windowed, next, acked
<1>4. Good(windowed, w)
  <2>1. q.syn_sent \/ windowed.window_size > 0
    BY <1>1, <1>3 DEF next
  <2> QED
    BY <1>1, <1>3, <2>1, AlikeFacts DEF next
<1>5. CASE ackno = NoAckno
  <2>1. p = windowed
    BY <1>2, <1>5
  <2> HIDE DEF p
  <2>2. /\ Good(p, w) /\ p.next_abs_seqno = q.next_abs_seqno /\ SameStream(p, q)
        /\ p.unacked = q.unacked
    BY <1>3, <1>4, <2>1 DEF next
  <2> QED
    BY <1>5, <2>2 DEF p
<1>6. CASE ackno # NoAckno
  <2>1. ackno \in Raw /\ next # 0 /\ q.syn_sent
    BY <1>1, <1>6 DEF next
  <2>2. seen \in BOOLEAN /\ seen
    BY <2>1
  <2> HIDE DEF seen
  <2>3. /\ noted \in Sender
        /\ noted.input = windowed.input /\ noted.syn_sent = seen
        /\ noted.fin_sent = windowed.fin_sent
        /\ SameTimer(noted, windowed) /\ SameSequence(noted, windowed)
    BY <1>3, <2>2 DEF Sender, SameTimer, SameSequence
  <2> HIDE DEF noted
  <2>4. SameStream(noted, windowed)
    BY <1>1, <1>3, <2>1, <2>2, <2>3 DEF SameStream
  <2>5. /\ noted.next_abs_seqno = windowed.next_abs_seqno
        /\ noted.unacked = windowed.unacked
        /\ noted.acked_abs_seqno \in 0..windowed.next_abs_seqno
        /\ windowed.syn_sent
    BY <1>1, <1>3, <2>1, <2>3 DEF SameSequence
  <2>6. Good(noted, w)
    BY <1>4, <2>3, <2>4, <2>5, AlikeFacts
  <2>9. SameStream(noted, q) /\ noted.unacked = q.unacked
    BY <1>3, <2>4, <2>5 DEF SameStream
  <2>7. CASE unwrap(ackno, ISN, next) > next
    <3>1. p = noted
      BY <1>2, <1>6, <2>7
    <3> HIDE DEF p
    <3>2. Good(p, w) /\ p.next_abs_seqno = q.next_abs_seqno /\ SameStream(p, q)
      BY <1>3, <2>5, <2>6, <2>9, <3>1 DEF next
    <3>3. ~(unwrap(ackno, ISN, q.next_abs_seqno) <= q.next_abs_seqno)
      <4>1. unwrap(ackno, ISN, next) <= next => FALSE
        <5>1. next + Mod <= U64
          BY <1>1
        <5>2. PICK m \in Nat : unwrap(ackno, ISN, next) = Mod * m + Offset(ackno)
          BY <1>1, <2>1, <5>1, UnwrapFacts
        <5>3. PICK off \in Nat : off = Offset(ackno)
          <6>1. PICK d \in Int : d = ackno - ISN
            BY <2>1 DEF Raw
          <6>2. d % Mod \in 0..(Mod - 1)
            BY ModRange
          <6> QED
            BY <6>1, <6>2 DEF Offset
        <5>4. PICK u \in Int : u = Mod * m
          BY MultipleFacts
        <5>5. unwrap(ackno, ISN, next) = u + off
          BY <5>2, <5>3, <5>4
        <5> QED
          BY <1>1, <2>7, <5>5
      <4> QED
        BY <4>1 DEF next
    <3> QED
      BY <1>6, <3>2, <3>3 DEF p
  <2>8. CASE ~(unwrap(ackno, ISN, next) > next)
    <3>1. next + Mod <= U64
      BY <1>1
    <3>2. unwrap(ackno, ISN, next) <= next
      <4>1. PICK m \in Nat : unwrap(ackno, ISN, next) = Mod * m + Offset(ackno)
        BY <1>1, <2>1, <3>1, UnwrapFacts
      <4>2. PICK off \in Nat : off = Offset(ackno)
        <5>1. PICK d \in Int : d = ackno - ISN
          BY <2>1 DEF Raw
        <5>2. d % Mod \in 0..(Mod - 1)
          BY ModRange
        <5> QED
          BY <5>1, <5>2 DEF Offset
      <4>3. PICK u \in Int : u = Mod * m
        BY MultipleFacts
      <4>4. unwrap(ackno, ISN, next) = u + off
        BY <4>1, <4>2, <4>3
      <4> QED
        BY <1>1, <2>8, <4>4
    <3>3. unwrap(ackno, ISN, acked) \in 0..next
      BY <1>1, <2>1, <3>1, <3>2, AcknoFacts
    <3> DEFINE a == unwrap(ackno, ISN, acked)
    <3>4. a \in 0..noted.next_abs_seqno /\ noted.syn_sent
      BY <1>3, <2>2, <2>3, <2>5, <3>3
    <3> HIDE DEF a
    <3>5. /\ Good(Acknowledge(noted, a), w)
          /\ Acknowledge(noted, a).next_abs_seqno = noted.next_abs_seqno
          /\ Acknowledge(noted, a).unacked = Left(noted.unacked, Acknowledged(noted, a))
          /\ SameStream(Acknowledge(noted, a), noted)
      BY <2>6, <3>4, AcknowledgeFacts
    <3>6. p = Acknowledge(noted, a)
      BY <1>2, <1>6, <2>8 DEF a
    <3> HIDE DEF p
    <3>7. Acknowledged(noted, a) = Acknowledged(q, a)
      BY <2>9 DEF Acknowledged
    <3>8. /\ Good(p, w) /\ p.next_abs_seqno = q.next_abs_seqno /\ SameStream(p, q)
          /\ p.unacked = Left(q.unacked, Acknowledged(q, a))
      BY <1>3, <2>5, <2>9, <3>5, <3>6, <3>7 DEF next, SameStream
    <3> QED
      BY <1>6, <3>8 DEF a, p, acked
  <2> QED
    BY <2>7, <2>8
<1> QED
  BY <1>5, <1>6

(* A report without an ackno acknowledges nothing.                         *)
LEMMA SilentFacts ==
  ASSUME NEW q, NEW w, Good(q, w), NEW window \in Nat,
         q.next_abs_seqno = 0 => window > 0
  PROVE  LET p == receive(q, Report(NoAckno, window)) IN
         /\ Good(p, w) /\ SameStream(p, q) /\ After(p, q)
         /\ p.next_abs_seqno = q.next_abs_seqno
<1> DEFINE p == receive(q, Report(NoAckno, window))
<1>1. /\ Good(p, w) /\ SameStream(p, q)
      /\ p.next_abs_seqno = q.next_abs_seqno /\ p.unacked = q.unacked
  BY ReceiveFacts
<1> HIDE DEF p
<1>2. q.input.popped \in Nat /\ q.next_abs_seqno \in Nat
  BY InputFacts, NextFacts
<1>3. After(p, q)
  BY <1>1, <1>2 DEF After, Onward, SameStream, Oldest, First
<1> QED
  BY <1>1, <1>3 DEF p

(* A report of n in a short stream acknowledges what lies below n, and     *)
(* nothing else.                                                           *)
LEMMA ReportFacts ==
  ASSUME NEW q, NEW w, Good(q, w), NEW n \in 1..q.next_abs_seqno, NEW window \in Nat,
         q.next_abs_seqno <= Half
  PROVE  LET p == receive(q, Report(wrap(n, ISN), window)) IN
         /\ Good(p, w) /\ SameStream(p, q) /\ Onward(p, q)
         /\ p.next_abs_seqno = q.next_abs_seqno
         /\ Oldest(p) = Oldest(q) \/ Oldest(p) <= n
         /\ n = q.next_abs_seqno \/ DOMAIN q.unacked = {} => DOMAIN p.unacked = {}
<1> DEFINE next == q.next_abs_seqno
           acked == q.acked_abs_seqno
           ackno == wrap(n, ISN)
           p == receive(q, Report(ackno, window))
<1>1. next \in Nat /\ acked \in 0..next /\ q.input.popped \in Nat
      /\ Tiles(q.unacked, next)
  BY NextFacts, InputFacts DEF Good
<1>2. /\ n \in 0..Half /\ next \in 0..Half /\ acked \in 0..Half /\ n <= next
      /\ n \in 0..next
  BY <1>1, HalfFacts
<1>3. /\ ackno \in Raw
      /\ unwrap(ackno, ISN, next) = n /\ unwrap(ackno, ISN, acked) = n
  BY <1>2, UnwrapNear
<1>4. ackno # NoAckno
  BY <1>3
<1> HIDE DEF ackno
<1>5. /\ Good(p, w) /\ SameStream(p, q)
      /\ p.next_abs_seqno = next
      /\ p.unacked = Left(q.unacked, Acknowledged(q, n))
  <2>1. ackno \in Raw \cup {NoAckno} /\ q.next_abs_seqno # 0
    BY <1>2, <1>3
  <2> QED
    BY <1>2, <1>3, <1>4, <2>1, ReceiveFacts
<1> HIDE DEF p
<1>6. PICK v : v = Left(q.unacked, Acknowledged(q, n))
  OBVIOUS
<1>10. Tiles(q.unacked, next) /\ next \in Nat /\ n \in 0..next
  BY <1>1, <1>2
<1> HIDE DEF next, acked
<1>7. Remains(v, q.unacked, n, next)
  BY <1>6, <1>10, LeftFrom
<1>8. Oldest(p) = Oldest(q) \/ Oldest(p) <= n
  <2>1. CASE DOMAIN v = {}
    BY <1>1, <1>2, <1>5, <1>6, <1>7, <2>1 DEF Oldest, next, Remains
  <2>2. CASE DOMAIN v # {}
    <3>1. /\ Oldest(p) \in DOMAIN v
          /\ \A k \in DOMAIN v : Oldest(p) <= k
      BY <1>5, <1>6, <2>2, OldestFacts
    <3>2. CASE \A k \in DOMAIN q.unacked : Oldest(p) <= k
      BY <1>7, <3>1, <3>2, OldestIs DEF Remains
    <3> QED
      BY <1>7, <3>1, <3>2 DEF Remains
  <2> QED
    BY <2>1, <2>2
<1>9. Onward(p, q)
  BY <1>1, <1>5 DEF Onward, SameStream, next
<1> QED
  BY <1>5, <1>6, <1>7, <1>8, <1>9 DEF p, ackno, next, Remains

(* A tick keeps what is good, and leaves alone what could be sent.  It     *)
(* transmits only what is outstanding.                                     *)
LEMMA TickFacts ==
  ASSUME NEW q, NEW w, Good(q, w), Settled(q), NEW elapsed \in Nat,
         q.consecutive_retransmissions < MaxRetx
  PROVE  LET p == tick(q, elapsed).s IN
         /\ Good(p, w) /\ Settled(p) /\ p.next_abs_seqno = q.next_abs_seqno
         /\ SameStream(p, q) /\ After(p, q)
         /\ Kept(tick(q, elapsed).sent, p)
<1> DEFINE n == q.passed_time + elapsed
           p == tick(q, elapsed).s
           expired == [q EXCEPT !.passed_time = 0]
           doubled == [expired EXCEPT !.RTO = 2 * q.RTO]
           count == q.consecutive_retransmissions
           more == [doubled EXCEPT !.consecutive_retransmissions = count + 1]
           Same(r) == /\ Good(r, w) /\ Settled(r)
                      /\ r.next_abs_seqno = q.next_abs_seqno
                      /\ SameStream(r, q) /\ After(r, q) /\ r.unacked = q.unacked
<1>1. /\ q \in Sender /\ n \in Nat /\ q.RTO \in Nat /\ 2 * q.RTO \in Nat
      /\ count \in Nat /\ q.next_abs_seqno \in Nat
      /\ q.acked_abs_seqno \in 0..q.next_abs_seqno
      /\ q.syn_sent \/ q.window_size > 0
  BY SenderFields, NextFacts DEF Good
<1>3. ASSUME NEW r, Good(r, w), SameStream(r, q), SameSequence(r, q)
      PROVE  Same(r)
  <2>1. sequence_numbers_in_flight(r) = sequence_numbers_in_flight(q)
    BY <1>3 DEF SameSequence, sequence_numbers_in_flight
  <2>2. MaySend(r) <=> MaySend(q)
    BY <1>3, <2>1 DEF SameSequence, MaySend
  <2>3. Settled(r)
    BY <1>3, <2>2 DEF SameStream, SameSequence, Settled
  <2>4. q.input.popped \in Nat
    BY InputFacts
  <2>5. After(r, q)
    BY <1>1, <1>3, <2>4
    DEF SameStream, SameSequence, After, Onward, Oldest, First
  <2> QED
    BY <1>3, <2>3, <2>5 DEF SameSequence
<1>2. ASSUME ~q.timer_running PROVE Same(p)
  <2>1. p = q
    BY <1>2 DEF tick
  <2>2. SameStream(q, q) /\ SameSequence(q, q)
    BY DEF SameStream, SameSequence
  <2> HIDE DEF p
  <2> QED
    BY <1>3, <2>1, <2>2
<1>4. ASSUME NEW r, r \in Sender, SameStream(r, q), SameSequence(r, q), SameTimer(r, q)
      PROVE  Good(r, w)
  <2>1. /\ r.next_abs_seqno = q.next_abs_seqno /\ r.unacked = q.unacked
        /\ r.acked_abs_seqno \in 0..q.next_abs_seqno
        /\ q.syn_sent \/ r.window_size > 0
    BY <1>1, <1>4 DEF SameSequence
  <2> QED
    BY <1>4, <2>1, AlikeFacts
<1>5. ASSUME q.timer_running /\ n < q.RTO PROVE Same(p)
  <2> DEFINE r == [q EXCEPT !.passed_time = n]
  <2>1. p = r
    BY <1>5 DEF tick
  <2>2. r \in Sender /\ SameStream(r, q) /\ SameSequence(r, q) /\ SameTimer(r, q)
    BY <1>1 DEF Sender, SameStream, SameSequence, SameTimer
  <2> HIDE DEF r, p
  <2>3. Good(r, w)
    BY <1>4, <2>2
  <2> QED
    BY <1>3, <2>1, <2>2, <2>3
<1>6. ASSUME q.timer_running /\ ~(n < q.RTO) PROVE Same(p)
  <2>1. p = IF q.window_size > 0
            THEN [expired EXCEPT !.RTO = 2 * expired.RTO,
                                 !.consecutive_retransmissions =
                                    expired.consecutive_retransmissions + 1]
            ELSE expired
    BY <1>6 DEF tick
  <2>2. /\ expired \in Sender /\ SameStream(expired, q) /\ SameSequence(expired, q)
        /\ SameTimer(expired, q)
        /\ expired.RTO = q.RTO /\ expired.consecutive_retransmissions = count
        /\ expired.timer_running = q.timer_running
    BY <1>1 DEF Sender, SameStream, SameSequence, SameTimer
  <2> HIDE DEF expired, p, count
  <2>3. Good(expired, w)
    BY <1>4, <2>2
  <2>4. CASE q.window_size > 0
    <3>1. p = [expired EXCEPT !.RTO = 2 * q.RTO,
                              !.consecutive_retransmissions = count + 1]
      BY <2>1, <2>2, <2>4
    <3>2. p = more
      BY <2>2, <3>1 DEF Sender
    <3>3. /\ doubled \in Sender /\ SameStream(doubled, q) /\ SameSequence(doubled, q)
          /\ doubled.RTO = 2 * q.RTO
          /\ doubled.timer_running = q.timer_running
      BY <1>1, <2>2 DEF Sender, SameStream, SameSequence
    <3> HIDE DEF doubled
    <3>4. /\ p \in Sender /\ SameStream(p, q) /\ SameSequence(p, q)
          /\ p.RTO = 2 * q.RTO
          /\ p.timer_running = q.timer_running
          /\ p.consecutive_retransmissions = count + 1
      BY <1>1, <3>2, <3>3 DEF Sender, SameStream, SameSequence
    <3>5. Timed(p)
      <4>1. Timed(q)
        BY DEF Good
      <4>2. p.RTO = TimeoutAfter[count + 1] /\ count + 1 <= MaxRetx
        <5>1. count + 1 <= MaxRetx
          BY <1>1 DEF count
        <5> QED
          BY <1>1, <3>4, <4>1, <5>1, TimeoutFacts DEF Timed, count
      <4>3. p.unacked = q.unacked
        BY <3>4 DEF SameSequence
      <4> QED
        BY <1>6, <3>4, <4>1, <4>2, <4>3 DEF Timed
    <3>6. /\ p.input = expired.input /\ p.syn_sent = expired.syn_sent
          /\ p.fin_sent = expired.fin_sent
          /\ p.window_size = expired.window_size
          /\ p.acked_abs_seqno = expired.acked_abs_seqno
          /\ p.next_abs_seqno = expired.next_abs_seqno /\ p.unacked = expired.unacked
      BY <2>2, <3>4 DEF SameStream, SameSequence
    <3>7. InStream(p, w)
      BY <2>3, <3>6 DEF Good, InStream
    <3>8. Counted(p)
      BY <2>3, <3>6 DEF Good, Counted
    <3>9. InPlace(p, w)
      BY <2>3, <3>6 DEF Good, InPlace
    <3>10. Tiles(p.unacked, p.next_abs_seqno)
      BY <2>3, <3>6 DEF Good
    <3>11. Good(p, w)
      BY <3>4, <3>5, <3>7, <3>8, <3>9, <3>10 DEF Good
    <3> QED
      BY <1>3, <3>4, <3>11
  <2>5. CASE ~(q.window_size > 0)
    <3>1. p = expired
      BY <2>1, <2>5
    <3> QED
      BY <1>3, <2>2, <2>3, <3>1
  <2> QED
    BY <2>4, <2>5
<1>7. /\ Good(p, w) /\ Settled(p) /\ p.next_abs_seqno = q.next_abs_seqno
      /\ SameStream(p, q) /\ After(p, q) /\ p.unacked = q.unacked
  BY <1>2, <1>5, <1>6
<1>8. Kept(tick(q, elapsed).sent, p)
  <2> HIDE DEF p
  <2>1. Kept(<< >>, p)
    BY EmptySeq DEF Kept
  <2>2. CASE q.timer_running /\ ~(n < q.RTO) /\ DOMAIN q.unacked # {}
    <3>1. tick(q, elapsed).sent = << q.unacked[First(q)] >>
      BY <2>2 DEF tick
    <3>2. First(q) \in DOMAIN q.unacked /\ q.unacked \in Map
      BY <2>2, FlightFacts DEF Good, Sender
    <3>3. PICK msg \in Msg : msg = q.unacked[First(q)]
      BY <3>2, MapFacts
    <3>4. << msg >> \in Seq(Msg) /\ Len(<< msg >>) = 1 /\ << msg >>[1] = msg
      OBVIOUS
    <3>5. Kept(<< msg >>, p)
      BY <1>7, <3>2, <3>3, <3>4 DEF Kept
    <3> QED
      BY <3>1, <3>3, <3>5
  <2>3. CASE ~(q.timer_running /\ ~(n < q.RTO) /\ DOMAIN q.unacked # {})
    <3>1. tick(q, elapsed).sent = << >>
      BY <2>3 DEF tick
    <3> QED
      BY <2>1, <3>1
  <2> QED
    BY <2>2, <2>3
<1> QED
  BY <1>7, <1>8

(* What the application writes goes to the end of the stream.              *)
LEMMA WriteFacts ==
  ASSUME NEW q, NEW w, Good(q, w), NEW n \in Nat, ~q.input.closed,
         n <= AvailableCapacity(q.input), w + n <= ToWrite
  PROVE  LET p == [q EXCEPT !.input = Push(q.input, [i \in 1..n |-> w + i])] IN
         /\ Good(p, w + n) /\ p.next_abs_seqno = q.next_abs_seqno
         /\ After(p, q)
<1> DEFINE data == [i \in 1..n |-> w + i]
           old == q.input
           new == Push(old, data)
           p == [q EXCEPT !.input = new]
<1>1. /\ q \in Sender /\ old \in StreamType(Capacity, Content)
      /\ old.queue \in Seq(Content) /\ old.popped \in Nat /\ old.capacity = Capacity
      /\ Len(old.queue) \in Nat
      /\ BytesBuffered(old) = Len(old.queue)
      /\ w = old.popped + BytesBuffered(old)
      /\ w \in 0..ToWrite
  BY InputFacts DEF Good
<1>2. /\ \A i \in 1..BytesBuffered(old) : old.queue[i] = old.popped + i
      /\ ~old.error
  BY DEF Good, InStream
<1>3. data \in Seq(Content) /\ Len(data) = n /\ \A i \in 1..n : data[i] = w + i
  <2>0. PICK x \in Nat : x = w
    BY <1>1
  <2>1. \A i \in 1..n : w + i \in Content
    <3>1. x + n <= ToWrite
      BY <2>0
    <3>2. \A i \in 1..n : x + i \in 1..ToWrite
      BY <3>1
    <3> QED
      BY <2>0, <3>2 DEF Content
  <2>2. data \in [1..n -> Content] /\ \A i \in 1..n : data[i] = w + i
    BY <2>1
  <2> HIDE DEF data
  <2>3. data \in Seq(Content) /\ Len(data) = n
    BY <2>2
  <2> QED
    BY <2>2, <2>3
<1> HIDE DEF data, old
<1>4. /\ new \in StreamType(Capacity, Content)
      /\ Extended(new.queue, old.queue, data)
      /\ new.popped = old.popped
      /\ new.closed = old.closed
      /\ new.error = old.error
  <2>1. ~old.closed /\ Len(data) <= AvailableCapacity(old)
    BY <1>3 DEF old
  <2> QED
    BY <1>1, <1>3, <2>1, PushFacts
<1> HIDE DEF new
<1>5. /\ p \in Sender
      /\ p.input = new /\ p.syn_sent = q.syn_sent /\ p.fin_sent = q.fin_sent
      /\ SameSequence(p, q) /\ SameTimer(p, q)
  BY <1>1, <1>4, InputSet
<1>6. /\ BytesBuffered(new) = Len(old.queue) + n
      /\ \A i \in 1..(Len(old.queue) + n) :
           new.queue[i] = IF i <= Len(old.queue) THEN old.queue[i]
                          ELSE data[i - Len(old.queue)]
  BY <1>3, <1>4 DEF Extended, BytesBuffered
<1>7. \A i \in 1..BytesBuffered(new) : new.queue[i] = new.popped + i
  <2>1. SUFFICES ASSUME NEW i \in 1..BytesBuffered(new)
                 PROVE  new.queue[i] = new.popped + i
    OBVIOUS
  <2>2. PICK l \in Nat : l = Len(old.queue)
    BY <1>1
  <2>3. i \in 1..(l + n)
    BY <1>6, <2>2
  <2>4. CASE i <= l
    <3>1. new.queue[i] = old.queue[i]
      BY <1>6, <2>2, <2>3, <2>4
    <3>2. i \in 1..BytesBuffered(old)
      BY <1>1, <2>2, <2>3, <2>4
    <3> QED
      BY <1>2, <1>4, <3>1, <3>2
  <2>5. CASE ~(i <= l)
    <3>1. new.queue[i] = data[i - l]
      BY <1>6, <2>2, <2>3, <2>5
    <3>2. i - l \in 1..n
      BY <2>2, <2>3, <2>5
    <3>3. data[i - l] = w + (i - l)
      BY <1>3, <3>2
    <3> QED
      BY <1>1, <1>4, <2>2, <2>3, <3>1, <3>3
  <2> QED
    BY <2>4, <2>5
<1>8. InStream(p, w + n)
  <2>1. w + n \in 0..ToWrite
    BY <1>1
  <2>2. w + n = BytesPushed(new)
    <3>1. BytesPushed(new) = new.popped + BytesBuffered(new)
      BY <1>4, StreamFields
    <3> QED
      BY <1>1, <1>4, <1>6, <3>1
  <2>3. BytesBuffered(new) <= Capacity
    BY <1>1, <1>6 DEF AvailableCapacity, old
  <2>4. ~new.error
    BY <1>2, <1>4
  <2> QED
    BY <1>5, <1>7, <2>1, <2>2, <2>3, <2>4 DEF InStream
<1>9. p.input.popped = q.input.popped
  BY <1>4, <1>5 DEF old
<1> HIDE DEF p
<1>10. Good(p, w + n) /\ p.next_abs_seqno = q.next_abs_seqno
  BY <1>5, <1>8, <1>9, StreamChanged
<1>11. After(p, q)
  <2>1. q.next_abs_seqno \in Nat
    BY NextFacts
  <2>2. p.input.closed = q.input.closed
    BY <1>4, <1>5 DEF old
  <2> QED
    BY <1>1, <1>5, <1>9, <2>1, <2>2
    DEF After, Onward, Oldest, First, SameSequence, old
<1> QED
  BY <1>10, <1>11 DEF p, new, data, old

(* Closing the stream leaves the bytes in it.                              *)
LEMMA ShutdownFacts ==
  ASSUME NEW q, NEW w, Good(q, w)
  PROVE  LET p == [q EXCEPT !.input = Close(q.input)] IN
         /\ Good(p, w) /\ p.next_abs_seqno = q.next_abs_seqno
         /\ Onward(p, q) /\ p.input.closed /\ Oldest(p) = Oldest(q)
         /\ p.syn_sent = q.syn_sent
<1> DEFINE old == q.input
           new == Close(old)
           p == [q EXCEPT !.input = new]
<1>1. q \in Sender /\ old \in StreamType(Capacity, Content)
  BY InputFacts DEF Good
<1>2. /\ new \in StreamType(Capacity, Content)
      /\ new.queue = old.queue
      /\ new.popped = old.popped
      /\ new.closed
      /\ new.error = old.error
  BY <1>1, CloseFacts
<1> HIDE DEF new
<1>3. /\ p \in Sender
      /\ p.input = new /\ p.syn_sent = q.syn_sent /\ p.fin_sent = q.fin_sent
      /\ SameSequence(p, q) /\ SameTimer(p, q)
  BY <1>1, <1>2, InputSet
<1>4. BytesBuffered(new) = BytesBuffered(old) /\ BytesPushed(new) = BytesPushed(old)
  BY <1>2 DEF BytesBuffered, BytesPushed
<1>5. InStream(p, w)
  BY <1>2, <1>3, <1>4 DEF Good, InStream
<1>6. p.input.popped = q.input.popped /\ p.input.closed
      /\ BytesBuffered(p.input) = BytesBuffered(q.input)
  BY <1>2, <1>3, <1>4
<1> HIDE DEF p
<1>7. Good(p, w) /\ p.next_abs_seqno = q.next_abs_seqno
  BY <1>3, <1>5, <1>6, StreamChanged
<1>8. Onward(p, q) /\ Oldest(p) = Oldest(q)
  <2>1. q.next_abs_seqno \in Nat /\ q.input.popped \in Nat
    BY NextFacts, InputFacts
  <2> QED
    BY <1>3, <1>6, <2>1 DEF Onward, Oldest, First, SameSequence
<1> QED
  BY <1>3, <1>6, <1>7, <1>8 DEF p, new

-----------------------------------------------------------------------------
(* What the other end of a connection may rely on.  A segment of sender q  *)
(* of w bytes carries a stretch of what was sent, and the end of the       *)
(* stream only where it is.                                                *)
Segment(q, w, msg) ==
  /\ msg \in Msg /\ ~msg.RST
  /\ \E k \in Nat :
       /\ msg.seqno = wrap(k, ISN)
       /\ k + sequence_length(msg) <= q.next_abs_seqno
       /\ msg.SYN <=> k = 0
       /\ \A i \in 1..Len(msg.payload) :
            /\ msg.payload[i] = (IF msg.SYN THEN k + 1 ELSE k) + i - 1
            /\ msg.payload[i] <= q.input.popped
       /\ msg.FIN => q.fin_sent /\ k + sequence_length(msg) = w + 2

(* A sender between two of its operations.                                 *)
Running(q, w) ==
  Good(q, w) /\ Settled(q) /\ (q.input.closed => q.syn_sent)

(* Sender p of w bytes, running, and the messages it has sent.             *)
Speaks(p, w, sent) ==
  /\ Running(p, w)
  /\ sent \in Seq(Msg)
  /\ \A i \in 1..Len(sent) : Segment(p, w, sent[i])

(* The numbers of a running sender.                                        *)
LEMMA RunningFacts ==
  ASSUME NEW q, NEW w, Running(q, w)
  PROVE  /\ w \in 0..ToWrite /\ q.isn = ISN
         /\ q.next_abs_seqno \in 0..(w + 2) /\ q.input.popped \in 0..w
         /\ q.input.closed \in BOOLEAN /\ ~q.input.error
         /\ q.syn_sent => q.next_abs_seqno = q.input.popped + 1 + One(q.fin_sent)
         /\ ~q.syn_sent => q.next_abs_seqno = 0
         /\ q.fin_sent => /\ q.syn_sent /\ IsFinished(q.input)
                          /\ q.next_abs_seqno = w + 2
         /\ q.input.closed => q.syn_sent
         /\ Oldest(q) \in 0..q.next_abs_seqno
         /\ DOMAIN q.unacked = {} <=> Oldest(q) = q.next_abs_seqno
         /\ sequence_numbers_in_flight(q) = q.next_abs_seqno - Oldest(q)
<1>1. Good(q, w)
  BY DEF Running
<1>2. /\ q.next_abs_seqno \in Nat
      /\ q.syn_sent /\ q.fin_sent => /\ q.next_abs_seqno = q.input.popped + 2
                                     /\ q.input.closed
                                     /\ BytesBuffered(q.input) = 0
      /\ q.syn_sent /\ ~q.fin_sent => q.next_abs_seqno = q.input.popped + 1
      /\ ~q.syn_sent => q.next_abs_seqno = 0 /\ ~q.fin_sent
      /\ q.next_abs_seqno <= w + 2
  BY <1>1, NextFacts
<1>3. /\ q.input.popped \in Nat /\ q.input.closed \in BOOLEAN
      /\ q.input.queue \in Seq(Content)
      /\ BytesBuffered(q.input) \in Nat /\ BytesBuffered(q.input) = Len(q.input.queue)
      /\ w = q.input.popped + BytesBuffered(q.input)
      /\ w \in 0..ToWrite
  BY <1>1, InputFacts
<1>4. q.isn = ISN /\ ~q.input.error
  BY <1>1, SenderFields DEF Good, InStream
<1>5. /\ Oldest(q) \in 0..q.next_abs_seqno
      /\ DOMAIN q.unacked = {} <=> Oldest(q) = q.next_abs_seqno
      /\ sequence_numbers_in_flight(q) = q.next_abs_seqno - Oldest(q)
  BY <1>1, OldestFacts
<1>6. q.input.popped \in 0..w /\ q.next_abs_seqno \in 0..(w + 2)
  BY <1>2, <1>3
<1>7. q.syn_sent => q.next_abs_seqno = q.input.popped + 1 + One(q.fin_sent)
  BY <1>2, <1>3 DEF One
<1>8. q.fin_sent => /\ q.syn_sent /\ IsFinished(q.input)
                    /\ q.next_abs_seqno = w + 2
  <2>1. SUFFICES ASSUME q.fin_sent
                 PROVE  /\ q.syn_sent /\ IsFinished(q.input)
                        /\ q.next_abs_seqno = w + 2
    OBVIOUS
  <2>2. /\ q.syn_sent /\ q.input.closed /\ Len(q.input.queue) = 0
        /\ BytesBuffered(q.input) = 0
    BY <1>2, <1>3, <2>1
  <2>3. q.input.queue = << >>
    BY <1>3, <2>2, EmptySeq
  <2> QED
    BY <1>2, <1>3, <2>1, <2>2, <2>3 DEF IsFinished
<1> QED
  BY <1>3, <1>4, <1>5, <1>6, <1>7, <1>2, <1>8 DEF Running

(* A running sender that has nothing in flight and nothing left to send    *)
(* has sent the end of its stream.                                         *)
LEMMA RunningDone ==
  ASSUME NEW q, NEW w, Running(q, w),
         sequence_numbers_in_flight(q) = 0, IsFinished(q.input)
  PROVE  q.fin_sent
<1>1. q.syn_sent /\ Settled(q) /\ q.window_size \in Nat
  BY SenderFields DEF Running, Good, IsFinished
<1>2. MaySend(q)
  BY <1>1 DEF MaySend
<1> QED
  BY <1>1, <1>2 DEF Settled

(* What is outstanding are segments.                                       *)
LEMMA KeptSpeaks ==
  ASSUME NEW q, NEW w, Running(q, w), NEW sent, Kept(sent, q)
  PROVE  Speaks(q, w, sent)
<1>1. ASSUME NEW i \in 1..Len(sent)
      PROVE  Segment(q, w, sent[i])
  <2>1. PICK k \in DOMAIN q.unacked : q.unacked[k] = sent[i]
    BY DEF Kept
  <2>2. /\ k \in Nat /\ k + sequence_length(q.unacked[k]) <= q.next_abs_seqno
    BY DEF Running, Good, Tiles
  <2>3. PICK msg : msg = q.unacked[k]
    OBVIOUS
  <2>4. msg \in Msg
    BY <2>3, MapFacts DEF Running, Good, Sender
  <2>5. PICK first \in Nat : first = IF msg.SYN THEN k + 1 ELSE k
    BY <2>2
  <2>6. /\ msg.SYN <=> k = 0
        /\ \A j \in 1..Len(msg.payload) : msg.payload[j] = first + j - 1
        /\ first + Len(msg.payload) <= q.input.popped + 1
        /\ msg.FIN => q.fin_sent /\ k + sequence_length(msg) = w + 2
        /\ msg.seqno = wrap(k, ISN) /\ ~msg.RST
    BY <2>3, <2>5 DEF Running, Good, InPlace
  <2>7. \A j \in 1..Len(msg.payload) : msg.payload[j] <= q.input.popped
    <3>1. Len(msg.payload) \in Nat /\ q.input.popped \in Nat
      <4>1. msg.payload \in Seq(Content)
        BY <2>4 DEF Msg
      <4> QED
        BY <4>1, LenProperties, RunningFacts
    <3> QED
      BY <2>5, <2>6, <3>1
  <2> QED
    BY <2>1, <2>2, <2>3, <2>4, <2>5, <2>6, <2>7 DEF Segment
<1> QED
  BY <1>1 DEF Speaks, Kept

(* So is the empty message, once the SYN has been sent.                    *)
LEMMA EmptySpeaks ==
  ASSUME NEW q, NEW w, Running(q, w), q.syn_sent
  PROVE  Segment(q, w, make_empty_message(q))
<1> DEFINE next == q.next_abs_seqno
           msg == make_empty_message(q)
<1>1. /\ next \in Nat /\ next # 0 /\ q.isn = ISN /\ ~q.input.error
      /\ q.input.error \in BOOLEAN
  <2>1. q.input \in StreamType(Capacity, Content)
    BY InputFacts DEF Running
  <2> QED
    BY <2>1, RunningFacts DEF One, StreamType
<1>2. wrap(next, ISN) \in Raw
  <2>1. PICK x \in Int : x = ISN + next
    BY <1>1 DEF Raw
  <2> QED
    BY <2>1, ModRange DEF wrap, Raw
<1>3. << >> \in Seq(Content) /\ Len(<< >>) = 0
  BY EmptySeq
<1>4. /\ msg \in Msg /\ ~msg.RST /\ msg.seqno = wrap(next, ISN)
      /\ ~msg.SYN /\ ~msg.FIN /\ msg.payload = << >>
      /\ sequence_length(msg) = 0
  BY <1>1, <1>2, <1>3 DEF make_empty_message, Msg, sequence_length
<1> HIDE DEF msg
<1>5. next + sequence_length(msg) <= next
  BY <1>1, <1>4
<1>6. \A i \in 1..Len(msg.payload) : FALSE
  BY <1>3, <1>4
<1> HIDE DEF next
<1>7. Segment(q, w, msg)
  <2>1. (msg.SYN <=> next = 0)
    BY <1>1, <1>4
  <2> QED
    BY <1>1, <1>4, <1>5, <1>6, <2>1 DEF Segment, next
<1> QED
  BY <1>7 DEF msg

(* A segment stays one while its sender goes on.                           *)
LEMMA SegmentStays ==
  ASSUME NEW q, NEW w, Running(q, w), NEW p, NEW v, Running(p, v), Onward(p, q),
         q.fin_sent => v = w, NEW msg, Segment(q, w, msg)
  PROVE  Segment(p, v, msg)
<1>1. /\ q.input.popped \in Nat /\ p.input.popped \in Nat
      /\ q.next_abs_seqno \in Nat /\ p.next_abs_seqno \in Nat
      /\ p.input.popped >= q.input.popped /\ p.next_abs_seqno >= q.next_abs_seqno
      /\ q.fin_sent => p.fin_sent
  BY RunningFacts DEF Onward
<1>2. msg \in Msg /\ ~msg.RST
  BY DEF Segment
<1>3. PICK k \in Nat :
       /\ msg.seqno = wrap(k, ISN)
       /\ k + sequence_length(msg) <= q.next_abs_seqno
       /\ msg.SYN <=> k = 0
       /\ \A i \in 1..Len(msg.payload) :
            /\ msg.payload[i] = (IF msg.SYN THEN k + 1 ELSE k) + i - 1
            /\ msg.payload[i] <= q.input.popped
       /\ msg.FIN => q.fin_sent /\ k + sequence_length(msg) = w + 2
  BY DEF Segment
<1>4. sequence_length(msg) \in Nat
  <2>1. msg.payload \in Seq(Content)
    BY <1>2 DEF Msg
  <2>2. Len(msg.payload) \in Nat
    BY <2>1, LenProperties
  <2>3. PICK l \in Nat, a \in Nat, b \in Nat :
          /\ l = Len(msg.payload)
          /\ a = IF msg.SYN THEN 1 ELSE 0
          /\ b = IF msg.FIN THEN 1 ELSE 0
    BY <2>2
  <2>4. sequence_length(msg) = l + a + b
    BY <2>3 DEF sequence_length
  <2> QED
    BY <2>4
<1>5. k + sequence_length(msg) <= p.next_abs_seqno
  BY <1>1, <1>3, <1>4
<1>6. \A i \in 1..Len(msg.payload) : msg.payload[i] <= p.input.popped
  <2>1. SUFFICES ASSUME NEW i \in 1..Len(msg.payload)
                 PROVE  msg.payload[i] <= p.input.popped
    OBVIOUS
  <2>2. msg.payload[i] \in Nat /\ msg.payload[i] <= q.input.popped
    <3>1. msg.payload \in Seq(Content)
      BY <1>2 DEF Msg
    <3>2. msg.payload[i] \in Content
      BY <2>1, <3>1, ElementOfSeq
    <3> QED
      BY <1>3, <3>2 DEF Content
  <2> QED
    BY <1>1, <2>2
<1> QED
  BY <1>1, <1>2, <1>3, <1>5, <1>6 DEF Segment

(* push() of a good sender.                                                *)
LEMMA PushSpeaks ==
  ASSUME NEW q, NEW w, Good(q, w)
  PROVE  /\ Speaks(push(q).s, w, push(q).sent)
         /\ push(q).s.syn_sent /\ After(push(q).s, q)
<1> DEFINE p == push(q).s
           sent == push(q).sent
<1>1. Good(p, w) /\ Settled(p) /\ p.syn_sent /\ After(p, q) /\ Kept(sent, p)
  BY PushedFacts
<1> HIDE DEF p, sent
<1>2. Running(p, w)
  BY <1>1 DEF Running
<1>3. Speaks(p, w, sent)
  BY <1>1, <1>2, KeptSpeaks
<1> QED
  BY <1>1, <1>3 DEF p, sent

(* The application writes n bytes.                                         *)
LEMMA WriteSpeaks ==
  ASSUME NEW q, NEW w, Running(q, w), NEW n \in Nat, ~q.input.closed,
         n <= AvailableCapacity(q.input), w + n <= ToWrite
  PROVE  LET pushed == push([q EXCEPT !.input = Push(q.input, [i \in 1..n |-> w + i])]) IN
         Speaks(pushed.s, w + n, pushed.sent) /\ After(pushed.s, q)
<1> DEFINE t == [q EXCEPT !.input = Push(q.input, [i \in 1..n |-> w + i])]
           p == push(t).s
           sent == push(t).sent
<1>1. Good(t, w + n) /\ After(t, q)
  BY WriteFacts DEF Running
<1> HIDE DEF t
<1>2. Speaks(p, w + n, sent) /\ After(p, t)
  BY <1>1, PushSpeaks
<1>3. Good(p, w + n) /\ Good(q, w)
  BY <1>2 DEF Speaks, Running
<1> HIDE DEF p, sent
<1>4. After(p, q)
  BY <1>1, <1>2, <1>3, AfterTwice DEF After
<1> QED
  BY <1>2, <1>4 DEF p, sent, t

(* The application shuts its side down.                                    *)
LEMMA ShutdownSpeaks ==
  ASSUME NEW q, NEW w, Running(q, w)
  PROVE  LET pushed == push([q EXCEPT !.input = Close(q.input)]) IN
         /\ Speaks(pushed.s, w, pushed.sent)
         /\ Onward(pushed.s, q) /\ pushed.s.input.closed
         /\ Oldest(pushed.s) = Oldest(q)
<1> DEFINE t == [q EXCEPT !.input = Close(q.input)]
           p == push(t).s
           sent == push(t).sent
<1>1. Good(t, w) /\ Onward(t, q) /\ t.input.closed /\ Oldest(t) = Oldest(q)
  BY ShutdownFacts DEF Running
<1> HIDE DEF t
<1>2. Speaks(p, w, sent) /\ After(p, t)
  BY <1>1, PushSpeaks
<1>3. Good(p, w) /\ Good(q, w)
  BY <1>2 DEF Speaks, Running
<1> HIDE DEF p, sent
<1>4. Onward(p, q) /\ p.input.closed /\ Oldest(p) = Oldest(q)
  BY <1>1, <1>2, <1>3, AfterTwice DEF After
<1> QED
  BY <1>2, <1>4 DEF p, sent, t

(* Time passes.                                                            *)
LEMMA TickSpeaks ==
  ASSUME NEW q, NEW w, Running(q, w), NEW elapsed \in Nat,
         q.consecutive_retransmissions < MaxRetx
  PROVE  LET ticked == tick(q, elapsed) IN
         Speaks(ticked.s, w, ticked.sent) /\ After(ticked.s, q)
<1> DEFINE p == tick(q, elapsed).s
           sent == tick(q, elapsed).sent
<1>1. Good(p, w) /\ Settled(p) /\ SameStream(p, q) /\ After(p, q) /\ Kept(sent, p)
  BY TickFacts DEF Running
<1> HIDE DEF p, sent
<1>2. Running(p, w)
  BY <1>1 DEF Running, SameStream
<1>3. Speaks(p, w, sent)
  BY <1>1, <1>2, KeptSpeaks
<1> QED
  BY <1>1, <1>3 DEF p, sent

(* The other end reports that it waits for number n: nothing above n is    *)
(* forgotten, and nothing at all is left when n is the end of the stream.  *)
LEMMA ReportSpeaks ==
  ASSUME NEW q, NEW w, Running(q, w), NEW n \in 1..q.next_abs_seqno, NEW window \in Nat,
         q.next_abs_seqno <= Half
  PROVE  LET pushed == push(receive(q, Report(wrap(n, ISN), window)))
             p == pushed.s IN
         /\ Speaks(p, w, pushed.sent)
         /\ Onward(p, q) /\ p.input.closed = q.input.closed
         /\ Oldest(p) = Oldest(q) \/ Oldest(p) <= n
         /\ q.fin_sent /\ (n = q.next_abs_seqno \/ DOMAIN q.unacked = {}) =>
              DOMAIN p.unacked = {}
<1> DEFINE t == receive(q, Report(wrap(n, ISN), window))
           p == push(t).s
           sent == push(t).sent
<1>1. /\ Good(t, w) /\ SameStream(t, q) /\ Onward(t, q)
      /\ t.next_abs_seqno = q.next_abs_seqno
      /\ Oldest(t) = Oldest(q) \/ Oldest(t) <= n
      /\ n = q.next_abs_seqno \/ DOMAIN q.unacked = {} => DOMAIN t.unacked = {}
  BY ReportFacts DEF Running
<1> HIDE DEF t
<1>2. Speaks(p, w, sent) /\ After(p, t)
  BY <1>1, PushSpeaks
<1>3. Running(p, w) /\ Good(p, w) /\ Good(q, w)
  BY <1>2 DEF Speaks, Running
<1> HIDE DEF p, sent
<1>4. /\ Onward(p, q) /\ p.input.closed = q.input.closed
      /\ Oldest(p) = Oldest(q) \/ Oldest(p) <= n
  BY <1>1, <1>2, <1>3, AfterTwice DEF After, SameStream
<1>5. q.fin_sent /\ (n = q.next_abs_seqno \/ DOMAIN q.unacked = {}) =>
        DOMAIN p.unacked = {}
  <2>1. SUFFICES ASSUME q.fin_sent, n = q.next_abs_seqno \/ DOMAIN q.unacked = {}
                 PROVE  DOMAIN p.unacked = {}
    OBVIOUS
  <2>2. q.next_abs_seqno = w + 2 /\ w \in Nat
    BY <2>1, RunningFacts
  <2>3. Oldest(p) = w + 2
    BY <1>1, <1>2, <2>1, <2>2 DEF After, Oldest
  <2>4. p.next_abs_seqno \in 0..(w + 2) /\ Oldest(p) \in 0..p.next_abs_seqno
    BY <1>3, RunningFacts
  <2>5. Oldest(p) = p.next_abs_seqno
    BY <2>2, <2>3, <2>4
  <2> QED
    BY <1>3, <2>5, RunningFacts
<1> QED
  BY <1>2, <1>4, <1>5 DEF p, sent, t

(* The other end, still listening, reports nothing.                        *)
LEMMA SilentSpeaks ==
  ASSUME NEW q, NEW w, Running(q, w), NEW window \in Nat, window > 0
  PROVE  LET pushed == push(receive(q, Report(NoAckno, window))) IN
         /\ Speaks(pushed.s, w, pushed.sent)
         /\ pushed.s.syn_sent /\ After(pushed.s, q)
<1> DEFINE t == receive(q, Report(NoAckno, window))
           p == push(t).s
           sent == push(t).sent
<1>1. Good(t, w) /\ After(t, q)
  BY SilentFacts DEF Running
<1> HIDE DEF t
<1>2. Speaks(p, w, sent) /\ p.syn_sent /\ After(p, t)
  BY <1>1, PushSpeaks
<1>3. Good(p, w) /\ Good(q, w)
  BY <1>2 DEF Speaks, Running
<1> HIDE DEF p, sent
<1>4. After(p, q)
  BY <1>1, <1>2, <1>3, AfterTwice DEF After
<1> QED
  BY <1>2, <1>4 DEF p, sent, t

(* A new sender runs.                                                      *)
LEMMA NewRuns ==
  /\ Running(NewSender(Capacity, ISN), 0)
  /\ ~NewSender(Capacity, ISN).input.closed /\ ~NewSender(Capacity, ISN).syn_sent
  /\ DOMAIN NewSender(Capacity, ISN).unacked = {}
<1> DEFINE stream == NewStream(Capacity)
           no == FALSE
           none == << >>
           q == [input |-> stream, isn |-> ISN, RTO |-> InitialRTO,
                 timer_running |-> no, passed_time |-> 0,
                 window_size |-> 1, next_abs_seqno |-> 0, acked_abs_seqno |-> 0,
                 syn_sent |-> no, fin_sent |-> no, unacked |-> none,
                 consecutive_retransmissions |-> 0]
<1>1. NewSender(Capacity, ISN) = q
  BY DEF NewSender
<1>2. /\ stream \in StreamType(Capacity, Content)
      /\ BytesBuffered(stream) = 0 /\ BytesPushed(stream) = 0
      /\ stream.popped = 0 /\ stream.closed = FALSE /\ stream.error = FALSE
  BY NewStreamFacts
<1>3. no \in BOOLEAN /\ ~no
  OBVIOUS
<1>4. none \in Map /\ DOMAIN none = {}
  <2>1. {} \in SUBSET Nat /\ none \in [{} -> Msg]
    OBVIOUS
  <2> HIDE DEF none
  <2> QED
    BY <2>1, MapNew
<1> HIDE DEF stream, no, none
<1>5. q \in Sender
  BY <1>2, <1>3, <1>4 DEF Sender
<1>6. /\ q.input = stream /\ q.RTO = InitialRTO /\ q.timer_running = no
      /\ q.window_size = 1 /\ q.next_abs_seqno = 0 /\ q.acked_abs_seqno = 0
      /\ q.syn_sent = no /\ q.fin_sent = no /\ q.unacked = none
      /\ q.consecutive_retransmissions = 0
  OBVIOUS
<1> HIDE DEF q
<1>7. InStream(q, 0)
  BY <1>2, <1>6 DEF InStream
<1>8. Counted(q)
  BY <1>2, <1>3, <1>4, <1>6 DEF Counted
<1>9. Tiles(q.unacked, q.next_abs_seqno) /\ InPlace(q, 0)
  BY <1>4, <1>6 DEF Tiles, InPlace
<1>10. Timed(q)
  BY <1>3, <1>4, <1>6, TimeoutFacts DEF Timed
<1>11. Good(q, 0)
  BY <1>5, <1>7, <1>8, <1>9, <1>10 DEF Good
<1>12. Settled(q)
  BY <1>3, <1>6 DEF Settled
<1>13. ~q.input.closed /\ ~q.syn_sent /\ DOMAIN q.unacked = {}
  BY <1>2, <1>3, <1>4, <1>6
<1> QED
  BY <1>1, <1>11, <1>12, <1>13 DEF Running

-----------------------------------------------------------------------------
(* The inductive invariant.                                                *)
IInv == Good(s, written) /\ Settled(s)

(* A new sender is good.                                                   *)
LEMMA InitHolds == Init => IInv
  BY NewRuns DEF Init, IInv, Running

(* What a step sends that is new fits the window it leaves.                *)
Fits ==
  s'.next_abs_seqno > s.next_abs_seqno =>
    sequence_numbers_in_flight(s') <= Limit(s'.window_size)

(* A push of a good sender that has sent nothing new since the last step.  *)
LEMMA PushStep ==
  ASSUME NEW q, NEW w, Good(q, w), q.next_abs_seqno = s.next_abs_seqno,
         s' = push(q).s, written' = w
  PROVE  IInv' /\ Fits
<1>1. /\ Good(s', w) /\ Settled(s')
      /\ s'.window_size = q.window_size
      /\ s'.next_abs_seqno > q.next_abs_seqno =>
           sequence_numbers_in_flight(s') <= Limit(q.window_size)
  BY PushedFacts
<1> QED
  BY <1>1 DEF IInv, Fits

(* Every step keeps the invariant.                                         *)
LEMMA StepHolds ==
  ASSUME IInv, Next, ~AckBeforeSyn
  PROVE  IInv' /\ Fits
<1>1. Good(s, written) /\ Settled(s)
  BY DEF IInv
<1>2. s.next_abs_seqno \in Nat /\ written \in 0..ToWrite /\ s.isn = ISN
      /\ s \in Sender
  BY <1>1, NextFacts, InputFacts, SenderFields DEF Good
<1>3. CASE PushStream
  <2>1. s' = push(s).s /\ written' = written
    BY <1>3 DEF PushStream
  <2> QED
    BY <1>1, <2>1, PushStep
<1>4. ASSUME NEW n \in 1..Capacity, Write(n)
      PROVE  IInv' /\ Fits
  <2> DEFINE q == [s EXCEPT !.input = Push(s.input, [i \in 1..n |-> written + i])]
  <2>1. /\ ~s.input.closed /\ n <= AvailableCapacity(s.input)
        /\ written + n <= ToWrite
        /\ s' = push(q).s /\ written' = written + n
    BY <1>4 DEF Write
  <2>2. Good(q, written + n) /\ q.next_abs_seqno = s.next_abs_seqno
    <3>1. n \in Nat
      OBVIOUS
    <3> QED
      BY <1>1, <2>1, <3>1, WriteFacts
  <2> HIDE DEF q
  <2> QED
    BY <2>1, <2>2, PushStep
<1>5. CASE Shutdown
  <2> DEFINE q == [s EXCEPT !.input = Close(s.input)]
  <2>1. s' = push(q).s /\ written' = written
    BY <1>5 DEF Shutdown
  <2>2. Good(q, written) /\ q.next_abs_seqno = s.next_abs_seqno
    BY <1>1, ShutdownFacts
  <2> HIDE DEF q
  <2> QED
    BY <2>1, <2>2, PushStep
<1>6. ASSUME NEW ackno \in Acknos, NEW window \in Windows, ReceiveMessage(ackno, window)
      PROVE  IInv' /\ Fits
  <2> DEFINE q == receive(s, Report(ackno, window))
  <2>1. /\ s.next_abs_seqno = 0 => window > 0
        /\ s' = push(q).s /\ written' = written
    BY <1>6 DEF ReceiveMessage, Report
  <2>2. window \in Nat
    OBVIOUS
  <2>3. /\ ackno \in Raw \cup {NoAckno}
        /\ s.next_abs_seqno = 0 => ackno = NoAckno
    <3>1. CASE ackno = NoAckno
      BY <3>1
    <3>2. CASE ackno # NoAckno
      <4>1. s.next_abs_seqno # 0
        BY <3>2 DEF Acknos
      <4>2. PICK n \in 0..(s.next_abs_seqno + 1) : ackno = wrap(n, s.isn)
        BY <3>2, <4>1 DEF Acknos
      <4>3. PICK x \in Int : x = ISN + n
        BY <1>2 DEF Raw
      <4>4. x % Mod \in 0..(Mod - 1)
        BY ModRange
      <4> QED
        BY <1>2, <4>1, <4>2, <4>3, <4>4 DEF wrap, Raw
    <3> QED
      BY <3>1, <3>2
  <2>4. Good(q, written) /\ q.next_abs_seqno = s.next_abs_seqno
    BY <1>1, <2>1, <2>2, <2>3, ReceiveFacts
  <2> HIDE DEF q
  <2> QED
    BY <2>1, <2>4, PushStep
<1>7. ASSUME NEW elapsed \in 1..(2 * InitialRTO), Tick(elapsed)
      PROVE  IInv' /\ Fits
  <2>1. /\ s.consecutive_retransmissions < MaxRetx
        /\ s' = tick(s, elapsed).s /\ written' = written
    BY <1>7 DEF Tick
  <2>2. elapsed \in Nat
    OBVIOUS
  <2>3. Good(s', written) /\ Settled(s') /\ s'.next_abs_seqno = s.next_abs_seqno
    BY <1>1, <2>1, <2>2, TickFacts
  <2>4. Fits
    BY <1>2, <2>3 DEF Fits
  <2> QED
    BY <2>1, <2>3, <2>4 DEF IInv
<1> QED
  BY <1>3, <1>4, <1>5, <1>6, <1>7 DEF Next

(* The invariant holds in every behaviour in which nobody acknowledges the *)
(* SYN before it was sent.                                                 *)
THEOREM Invariant ==
  ASSUME ~AckBeforeSyn
  PROVE  Spec => []IInv
<1>1. IInv /\ [Next]_vars => IInv'
  <2>1. SUFFICES ASSUME IInv, [Next]_vars PROVE IInv'
    OBVIOUS
  <2>2. CASE Next
    BY <2>1, <2>2, StepHolds
  <2>3. CASE UNCHANGED vars
    BY <2>1, <2>3 DEF vars, IInv
  <2> QED
    BY <2>1, <2>2, <2>3
<1> QED
  BY <1>1, InitHolds, PTL DEF Spec

-----------------------------------------------------------------------------
(* The stream, the counters and the timeout of the TCPSender stay within   *)
(* their bounds.                                                           *)
THEOREM TypeCorrect ==
  ASSUME ~AckBeforeSyn
  PROVE  Spec => []TypeOK
<1>1. IInv => TypeOK
  <2>1. SUFFICES ASSUME IInv PROVE TypeOK
    OBVIOUS
  <2>2. Good(s, written) /\ s \in Sender
    BY <2>1 DEF IInv, Good
  <2>3. s.input.queue \in Seq(1..ToWrite) /\ Len(s.input.queue) <= Capacity
    BY <2>2, InputFacts DEF Good, InStream, Content
  <2>4. /\ s.RTO \in Nat /\ s.passed_time \in Nat /\ s.window_size \in Nat
        /\ DOMAIN s.unacked \subseteq Nat
        /\ {s.timer_running, s.syn_sent, s.fin_sent} \subseteq BOOLEAN
    BY <2>2, SenderFields, MapFacts
  <2>5. /\ written \in 0..ToWrite
        /\ s.next_abs_seqno \in Nat /\ s.next_abs_seqno <= written + 2
        /\ s.acked_abs_seqno \in 0..s.next_abs_seqno
    BY <2>2, NextFacts, InputFacts
  <2>6. s.next_abs_seqno \in 0..(ToWrite + 2)
    BY <2>5
  <2> QED
    BY <2>3, <2>4, <2>5, <2>6 DEF TypeOK
<1> QED
  BY <1>1, Invariant, PTL

(* What the TCPSender holds in unacked_messages_ covers everything from    *)
(* the oldest unacknowledged sequence number to the next, without a hole   *)
(* or an overlap, whatever was acknowledged.                               *)
THEOREM NoHole ==
  ASSUME ~AckBeforeSyn
  PROVE  Spec => []OutstandingTiles
<1>1. IInv => OutstandingTiles
  <2>1. SUFFICES ASSUME IInv PROVE OutstandingTiles
    OBVIOUS
  <2>2. Good(s, written) /\ s.unacked \in Map
    BY <2>1, SenderFields DEF IInv, Good
  <2>3. Tiles(s.unacked, s.next_abs_seqno)
    BY <2>2 DEF Good
  <2>4. s.unacked # << >> => sequence_numbers_in_flight(s) = s.next_abs_seqno - First(s)
    BY <2>2, FlightFacts, MapFacts
  <2> QED
    BY <2>3, <2>4 DEF OutstandingTiles, Tiles, EndOf
<1> QED
  BY <1>1, Invariant, PTL

(* Every retransmission the TCPSender can make carries the bytes that the  *)
(* application wrote at its place of the stream.                           *)
THEOREM EachInPlace ==
  ASSUME ~AckBeforeSyn
  PROVE  Spec => []MessagesInPlace
<1>1. IInv => MessagesInPlace
  <2>1. SUFFICES ASSUME IInv PROVE MessagesInPlace
    OBVIOUS
  <2>2. InPlace(s, written) /\ s.isn = ISN
    BY <2>1, SenderFields DEF IInv, Good
  <2> QED
    BY <2>2 DEF InPlace, MessagesInPlace, EndOf
<1> QED
  BY <1>1, Invariant, PTL

(* The retransmission timer of the TCPSender runs exactly while a message  *)
(* is outstanding.                                                         *)
THEOREM TimerMatches ==
  ASSUME ~AckBeforeSyn
  PROVE  Spec => []TimerCoversOutstanding
<1>1. IInv => TimerCoversOutstanding
  <2>1. SUFFICES ASSUME IInv PROVE TimerCoversOutstanding
    OBVIOUS
  <2>2. s.unacked \in Map /\ Timed(s)
    BY <2>1, SenderFields DEF IInv, Good
  <2>3. s.timer_running <=> DOMAIN s.unacked # {}
    BY <2>2 DEF Timed
  <2>4. DOMAIN s.unacked = {} <=> s.unacked = << >>
    BY <2>2, MapFacts
  <2> QED
    BY <2>3, <2>4 DEF TimerCoversOutstanding
<1> QED
  BY <1>1, Invariant, PTL

(* The retransmission timeout is the initial one, doubled as often as      *)
(* consecutive_retransmissions() says.                                     *)
THEOREM BackoffMatches ==
  ASSUME ~AckBeforeSyn
  PROVE  Spec => []BackoffMatchesCount
<1>1. IInv => BackoffMatchesCount
  BY DEF IInv, Good, Timed, BackoffMatchesCount
<1> QED
  BY <1>1, Invariant, PTL

(* Every byte the application wrote is outstanding, acknowledged or still  *)
(* in the stream, and TCPSender::push leaves nothing that fits the window. *)
THEOREM NothingKept ==
  ASSUME ~AckBeforeSyn
  PROVE  Spec => []NothingHeldBack
<1>1. IInv => NothingHeldBack
  <2>1. SUFFICES ASSUME IInv PROVE NothingHeldBack
    OBVIOUS
  <2>2. Counted(s) /\ Settled(s)
    BY <2>1 DEF IInv, Good
  <2>3. s.syn_sent => s.next_abs_seqno =
          1 + s.input.popped + (IF s.fin_sent THEN 1 ELSE 0)
    BY <2>2 DEF Counted, One
  <2>4. /\ s.syn_sent /\ BytesBuffered(s.input) > 0 => ~MaySend(s)
        /\ s.syn_sent /\ IsFinished(s.input) /\ ~s.fin_sent => ~MaySend(s)
    BY <2>2 DEF Settled
  <2> QED
    BY <2>3, <2>4 DEF NothingHeldBack
<1> QED
  BY <1>1, Invariant, PTL

(* The TCPSender sends new sequence numbers only into the window it was    *)
(* told last, and probes a closed one with a single number.                *)
THEOREM FitsTheWindow ==
  ASSUME ~AckBeforeSyn
  PROVE  Spec => NewDataFitsWindow
<1>1. IInv /\ [Next]_vars =>
        [s'.next_abs_seqno > s.next_abs_seqno =>
           sequence_numbers_in_flight(s')
             <= IF s'.window_size = 0 THEN 1 ELSE s'.window_size]_vars
  <2>1. SUFFICES ASSUME IInv, Next
                 PROVE  s'.next_abs_seqno > s.next_abs_seqno =>
                          sequence_numbers_in_flight(s')
                            <= IF s'.window_size = 0 THEN 1 ELSE s'.window_size
    OBVIOUS
  <2>2. Fits
    BY <2>1, StepHolds
  <2> QED
    BY <2>2 DEF Fits, Limit
<1> QED
  BY <1>1, Invariant, PTL DEF Spec, NewDataFitsWindow
=============================================================================
