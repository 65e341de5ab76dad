-------------------------- MODULE ConnectionProofs --------------------------
(***************************************************************************)
(* What holds of a connection of two peers for every pair of streams,      *)
(* capacity, window and sequence of losses, copies and reorderings of the  *)
(* segments: the invariant that ties each sender to the Reassembler it     *)
(* writes to, and what follows from it about acknowledgments, clean exits, *)
(* lingering and the delivery of the two streams.                          *)
(*                                                                         *)
(* The argument relies on senders and Reassemblers through Laws only.      *)
(* That both peers' keep these laws follows from SenderProofs and          *)
(* ReassemblerProofs, in the last part; the theorems are there.            *)
(***************************************************************************)
EXTENDS TCPConnection, Lemmas

-----------------------------------------------------------------------------
(* Two peers, each the other's other.                                      *)
LEMMA OtherFacts ==
  ASSUME NEW p \in Peers
  PROVE  /\ Other(p) \in Peers /\ Other(p) # p /\ Other(Other(p)) = p
         /\ \A q \in Peers : q = p \/ q = Other(p)
  BY ConnectionAssumption DEF Peers, Other

Half == Mod \div 2

(* The circle of sequence numbers has two equal halves.                    *)
LEMMA HalfTwice == Half \in Nat /\ Mod = Half + Half /\ Half > 0
<1> USE ConnectionAssumption
<1>1. Mod \div 2 \in Int /\ Mod = 2 * (Mod \div 2) + (Mod % 2)
  BY ModDiv
<1> QED
  BY <1>1 DEF Half

(* A 64-bit number counts at least two turns of the circle.                *)
LEMMA Wide == U64 >= Mod + Mod
<1> USE ConnectionAssumption
<1>0. U64 \in Int /\ U64 \div Mod \in Int
  BY ModDiv
<1>1. PICK k \in Int : k = U64 \div Mod
  BY <1>0
<1>2. U64 = Mod * k + (U64 % Mod)
  BY <1>0, <1>1, ModDiv
<1>3. U64 = Mod * k
  BY <1>2
<1>4. CASE k <= 1
  <2>1. Mod * k <= Mod
    BY <1>4
  <2> QED
    BY <1>3, <2>1
<1>5. CASE k >= 2
  <2>1. PICK d \in Nat : k = 2 + d
    <3>1. k - 2 \in Nat /\ k = 2 + (k - 2)
      BY <1>5
    <3> QED
      BY <3>1
  <2>2. Mod * k = Mod + Mod + Mod * d
    BY <2>1
  <2>3. Mod * d \in Nat
    OBVIOUS
  <2> QED
    BY <1>3, <2>2, <2>3
<1> QED
  BY <1>4, <1>5

-----------------------------------------------------------------------------
(* The instances of one operator are one operator.  The streams', which    *)
(* TCPPeer has of its own.                            *)
LEMMA SamePlain ==
  ASSUME NEW q, NEW a, NEW b
  PROVE  /\ Sender!Lesser(a, b) = Lesser(a, b)
         /\ Receiver!Lesser(a, b) = Lesser(a, b)
         /\ Sender!NewStream(a) = NewStream(a)
         /\ Receiver!NewStream(a) = NewStream(a)
         /\ Sender!BytesBuffered(q) = BytesBuffered(q)
         /\ Receiver!BytesBuffered(q) = BytesBuffered(q)
         /\ Sender!BytesPushed(q) = BytesPushed(q)
         /\ Receiver!BytesPushed(q) = BytesPushed(q)
         /\ Sender!AvailableCapacity(q) = AvailableCapacity(q)
         /\ Receiver!AvailableCapacity(q) = AvailableCapacity(q)
         /\ Sender!IsFinished(q) = IsFinished(q)
         /\ Receiver!IsFinished(q) = IsFinished(q)
         /\ Sender!Push(q, a) = Push(q, a)
         /\ Receiver!Push(q, a) = Push(q, a)
         /\ Sender!Close(q) = Close(q)
         /\ Receiver!Close(q) = Close(q)
         /\ Sender!PeekLength(q) = PeekLength(q)
         /\ Receiver!PeekLength(q) = PeekLength(q)
         /\ Sender!Pop(q, a) = Pop(q, a)
         /\ Receiver!Pop(q, a) = Pop(q, a)
         /\ Sender!SetError(q) = SetError(q)
         /\ Receiver!SetError(q) = SetError(q)
  BY DEF Sender!Lesser, Receiver!Lesser, Lesser,
         Sender!NewStream, Receiver!NewStream, NewStream,
         Sender!BytesBuffered, Receiver!BytesBuffered,
         BytesBuffered, Sender!BytesPushed, Receiver!BytesPushed,
         BytesPushed, Sender!AvailableCapacity,
         Receiver!AvailableCapacity,
         AvailableCapacity, Sender!IsFinished, Receiver!IsFinished,
         IsFinished, Sender!Push, Receiver!Push,
         Push, Sender!Close, Receiver!Close, Close,
         Sender!PeekLength, Receiver!PeekLength, PeekLength,
         Sender!Pop, Receiver!Pop, Pop, Sender!SetError,
         Receiver!SetError, SetError

(* Sequence numbers at the receiver.                                       *)
LEMMA SameWrap ==
  ASSUME NEW a, NEW b, NEW c
  PROVE  /\ Sender!wrap(a, b) = Receiver!wrap(a, b)
         /\ Sender!unwrap(a, b, c) = Receiver!unwrap(a, b, c)
         /\ Sender!add(a, b) = Receiver!add(a, b)
  BY DEF Sender!wrap, Receiver!wrap, Sender!unwrap, Receiver!unwrap,
         Sender!add, Receiver!add, Sender!TooFar, Receiver!TooFar

-----------------------------------------------------------------------------
(* The oldest sequence number that has not been acknowledged to sender q.  *)
Oldest(q) == IF DOMAIN q.unacked = {} THEN q.next_abs_seqno ELSE Sender!First(q)

(* A condition as a number.                                                *)
One(condition) == IF condition THEN 1 ELSE 0

(* Sender t is what sender q may have become; and no more than that.       *)
Onward(t, q) ==
  /\ t.input.popped >= q.input.popped
  /\ t.next_abs_seqno >= q.next_abs_seqno
  /\ q.syn_sent => t.syn_sent
  /\ q.fin_sent => t.fin_sent

After(t, q) ==
  /\ Onward(t, q)
  /\ t.input.closed = q.input.closed
  /\ Oldest(t) = Oldest(q)

-----------------------------------------------------------------------------
(* What SenderProofs says of a sender, said of the sender q of peer p, of  *)
(* which w bytes have been written: its type,                              *)
Messages(p) ==
  [seqno : 0..(Mod - 1), SYN : BOOLEAN, payload : Seq(1..ToWrite[p]),
   FIN : BOOLEAN, RST : BOOLEAN]

Senders(p) ==
  [input : Sender!StreamType(SendCapacity[p], 1..ToWrite[p]), isn : {ISN[p]},
   RTO : Nat, timer_running : BOOLEAN, passed_time : Nat,
   window_size : Nat, next_abs_seqno : Nat, acked_abs_seqno : Nat,
   syn_sent : BOOLEAN, fin_sent : BOOLEAN,
   unacked : UNION { [keys -> Messages(p)] : keys \in SUBSET Nat },
   consecutive_retransmissions : Nat]

(* its stream,                                                             *)
InStream(p, q, w) ==
  /\ w \in 0..ToWrite[p]
  /\ w = Sender!BytesPushed(q.input)
  /\ Sender!BytesBuffered(q.input) <= SendCapacity[p]
  /\ \A i \in 1..Sender!BytesBuffered(q.input) : q.input.queue[i] = q.input.popped + i
  /\ ~q.input.error

(* its counters,                                                           *)
Counted(q) ==
  /\ q.acked_abs_seqno <= q.next_abs_seqno
  /\ q.syn_sent => q.next_abs_seqno = 1 + q.input.popped + One(q.fin_sent)
  /\ ~q.syn_sent =>
       /\ q.next_abs_seqno = 0 /\ q.input.popped = 0 /\ ~q.fin_sent
       /\ DOMAIN q.unacked = {} /\ q.window_size > 0
  /\ q.fin_sent => q.input.closed /\ Sender!BytesBuffered(q.input) = 0

(* what it keeps to send again,                                            *)
Tiled(u, next) ==
  /\ DOMAIN u \subseteq Nat
  /\ \A k \in DOMAIN u :
       /\ Sender!sequence_length(u[k]) \in Nat \ {0}
       /\ k + Sender!sequence_length(u[k]) <= next
       /\ \/ k + Sender!sequence_length(u[k]) = next
          \/ k + Sender!sequence_length(u[k]) \in DOMAIN u
       /\ \A j \in DOMAIN u : j < k => j + Sender!sequence_length(u[j]) <= k

InPlace(p, q, w) ==
  \A k \in DOMAIN q.unacked :
    LET msg == q.unacked[k]
        first == IF msg.SYN THEN k + 1 ELSE k
    IN  /\ msg.SYN <=> k = 0
        /\ \A i \in 1..Len(msg.payload) : msg.payload[i] = first + i - 1
        /\ first + Len(msg.payload) <= q.input.popped + 1
        /\ msg.FIN =>
             /\ q.fin_sent /\ q.input.closed
             /\ k + Sender!sequence_length(msg) = w + 2
        /\ msg.seqno = Sender!wrap(k, ISN[p]) /\ ~msg.RST

(* its timer,                                                              *)
Timeouts(p) ==
  LET f[n \in 0..MaxRetx[p]] == IF n = 0 THEN InitialRTO ELSE 2 * f[n - 1]
  IN  f

Timed(p, q) ==
  /\ q.timer_running <=> DOMAIN q.unacked # {}
  /\ q.consecutive_retransmissions <= MaxRetx[p]
  /\ q.RTO = Timeouts(p)[q.consecutive_retransmissions]
  /\ ~q.timer_running => q.consecutive_retransmissions = 0

(* and that it holds nothing back.                                         *)
Settled(q) ==
  q.syn_sent /\ (Sender!BytesBuffered(q.input) > 0
                   \/ (Sender!IsFinished(q.input) /\ ~q.fin_sent))
    => ~Sender!MaySend(q)

(* Such a sender is between two operations.                                *)
Running(p, q, w) ==
  /\ q \in Senders(p)
  /\ InStream(p, q, w)
  /\ Counted(q)
  /\ Tiled(q.unacked, q.next_abs_seqno)
  /\ InPlace(p, q, w)
  /\ Timed(p, q)
  /\ Settled(q)
  /\ q.input.closed => q.syn_sent

(* Message msg is one of its segments: it carries a stretch of what was    *)
(* sent, and the end of the stream only where it is.                       *)
Segment(p, q, w, msg) ==
  /\ msg \in Messages(p) /\ ~msg.RST
  /\ \E k \in Nat :
       /\ msg.seqno = Sender!wrap(k, ISN[p])
       /\ k + Sender!sequence_length(msg) <= q.next_abs_seqno
       /\ msg.SYN <=> k = 0
       /\ \A i \in 1..Len(msg.payload) :
            /\ msg.payload[i] = (IF msg.SYN THEN k + 1 ELSE k) + i - 1
            /\ msg.payload[i] <= q.input.popped
       /\ msg.FIN => q.fin_sent /\ k + Sender!sequence_length(msg) = w + 2

(* The sender runs, and all of sent are its segments.                      *)
Speaks(p, q, w, sent) ==
  /\ Running(p, q, w)
  /\ sent \in Seq(Messages(p))
  /\ \A i \in 1..Len(sent) : Segment(p, q, w, sent[i])

-----------------------------------------------------------------------------
(* A Reassembler q between two calls: it is well formed, its next index is *)
(* the output's count, and what waits lies in the window.                  *)
IsSubstring(s) ==
  /\ s.first \in Nat /\ s.last \in Nat /\ s.first <= s.last
  /\ s.data \in [s.first..s.last -> Nat]
  /\ s = Receiver!Substring(s.first, s.last, s.data)

Sound(q, capacity) ==
  /\ q = [output |-> q.output, substrings |-> q.substrings,
          next_index_to_write |-> q.next_index_to_write,
          eof_received |-> q.eof_received, eof_index |-> q.eof_index]
  /\ q.output \in StreamType(capacity, Nat)
  /\ q.next_index_to_write \in Nat /\ q.eof_index \in Nat
  /\ q.eof_received \in BOOLEAN
  /\ q.next_index_to_write = BytesPushed(q.output)
  /\ BytesBuffered(q.output) <= capacity
  /\ \A s \in q.substrings : IsSubstring(s) /\ s.last < Receiver!FirstUnacceptable(q)
  /\ \A s, t \in q.substrings : s = t \/ Receiver!Disjoint(s, t)
  /\ \A s \in q.substrings : q.next_index_to_write <= s.first

(* Nothing waits that could be written.                                    *)
Tight(q) == q.output.closed \/ \A s \in q.substrings : s.first > q.next_index_to_write

(* The index i has been reached, by a byte v; an insertion may take it.    *)
Reached(q, i) == i < q.next_index_to_write \/ Receiver!Known(q.substrings, i)

(* The byte v stands at index i, read not yet or stored.                   *)
Stands(q, i, v) ==
  \/ /\ q.output.popped <= i /\ i < q.next_index_to_write
     /\ q.output.queue[i - q.output.popped + 1] = v
  \/ \E s \in q.substrings : Receiver!Covers(s, i) /\ s.data[i] = v

(* An insertion of data at f has a byte for i, inside the window.          *)
Accepts(q, f, data, i) ==
  /\ f <= i /\ i < f + Len(data)
  /\ q.next_index_to_write <= i /\ i < Receiver!FirstUnacceptable(q)

(* What an insertion makes of it.                                          *)
Inserted(c, q, capacity, f, data, is_last) ==
  /\ Sound(c, capacity) /\ Tight(c)
  /\ c.output.error = q.output.error
  /\ c.eof_received <=> q.eof_received \/ is_last
  /\ c.eof_index = IF is_last THEN Receiver!OriginalLast(f, data) ELSE q.eof_index
  /\ c.output.popped = q.output.popped
  /\ q.next_index_to_write <= c.next_index_to_write
  /\ q.output.closed => c.output.closed
  /\ c.output.closed =>
       q.output.closed \/ (c.eof_received /\ c.next_index_to_write = c.eof_index)
  /\ \A i \in Nat : Reached(c, i) => Reached(q, i) \/ Accepts(q, f, data, i)
  /\ \A i \in Nat, v \in Nat :
       Stands(c, i, v) =>
         Stands(q, i, v) \/ (Accepts(q, f, data, i) /\ data[i - f + 1] = v)

(* A read takes bytes from the front and changes nothing else.             *)
Shifted(c, q, capacity) ==
  /\ Sound(c, capacity) /\ Tight(c)
  /\ c.next_index_to_write = q.next_index_to_write
  /\ c.eof_received = q.eof_received /\ c.eof_index = q.eof_index
  /\ c.output.closed = q.output.closed
  /\ \A i \in Nat : Reached(c, i) <=> Reached(q, i)
  /\ \A i \in Nat, v \in Nat : Stands(c, i, v) => Stands(q, i, v)

(* Nothing has been reached and no end is known.                           *)
Fresh(q, capacity) ==
  /\ Sound(q, capacity) /\ Tight(q)
  /\ ~q.eof_received /\ ~q.output.closed /\ q.next_index_to_write = 0
  /\ \A i \in Nat : ~Reached(q, i)
  /\ \A i \in Nat, v \in Nat : ~Stands(q, i, v)

-----------------------------------------------------------------------------
(* What the proofs below rely on of the sender of peer p, whatever it may  *)
(* be; from SenderProofs it follows that all of it holds.  The numbers of  *)
(* a running sender,                                                       *)
KeepsNumbers(p) ==
  \A q, w : Running(p, q, w) =>
    /\ w \in 0..ToWrite[p] /\ q.isn = ISN[p]
    /\ q.next_abs_seqno \in 0..(w + 2) /\ q.input.popped \in 0..w
    /\ q.input.closed \in BOOLEAN /\ ~q.input.error
    /\ q.syn_sent => q.next_abs_seqno = q.input.popped + 1 + One(q.fin_sent)
    /\ ~q.syn_sent => q.next_abs_seqno = 0
    /\ q.fin_sent => /\ q.syn_sent /\ IsFinished(q.input)
                     /\ q.next_abs_seqno = w + 2
    /\ q.input.closed => q.syn_sent
    /\ Oldest(q) \in 0..q.next_abs_seqno
    /\ DOMAIN q.unacked = {} <=> Oldest(q) = q.next_abs_seqno
    /\ Sender!sequence_numbers_in_flight(q) = q.next_abs_seqno - Oldest(q)

(* its end,                                                                *)
KeepsEnd(p) ==
  \A q, w : Running(p, q, w) /\ Sender!sequence_numbers_in_flight(q) = 0
              /\ IsFinished(q.input)
              => q.fin_sent

(* what it says of itself and has said,                                    *)
KeepsSegments(p) ==
  /\ \A q, w : Running(p, q, w) /\ q.syn_sent =>
       Segment(p, q, w, Sender!make_empty_message(q))
  /\ \A q, w, t, v, msg :
       Running(p, q, w) /\ Running(p, t, v) /\ Onward(t, q)
         /\ (q.fin_sent => v = w) /\ Segment(p, q, w, msg)
         => Segment(p, t, v, msg)

(* push(),                                                                 *)
RunsPush(p) ==
  \A q, w, pushed : Running(p, q, w) /\ pushed = Sender!push(q) =>
    /\ Speaks(p, pushed.s, w, pushed.sent)
    /\ pushed.s.syn_sent /\ After(pushed.s, q)

(* a write of n bytes,                                                     *)
RunsWrite(p) ==
  \A q, w, pushed : \A n \in Nat :
    /\ Running(p, q, w) /\ ~q.input.closed
    /\ n <= AvailableCapacity(q.input) /\ w + n <= ToWrite[p]
    /\ pushed = Sender!push([q EXCEPT !.input = Push(q.input, [i \in 1..n |-> w + i])])
    => Speaks(p, pushed.s, w + n, pushed.sent) /\ After(pushed.s, q)

(* a shutdown,                                                             *)
RunsShutdown(p) ==
  \A q, w, pushed :
    Running(p, q, w) /\ pushed = Sender!push([q EXCEPT !.input = Close(q.input)]) =>
      /\ Speaks(p, pushed.s, w, pushed.sent)
      /\ Onward(pushed.s, q) /\ pushed.s.input.closed
      /\ Oldest(pushed.s) = Oldest(q)

(* tick(),                                                                 *)
RunsTick(p) ==
  \A q, w, ticked : \A elapsed \in Nat :
    /\ Running(p, q, w) /\ ticked = Sender!tick(q, elapsed)
    /\ q.consecutive_retransmissions < MaxRetx[p]
    => Speaks(p, ticked.s, w, ticked.sent) /\ After(ticked.s, q)

(* What the sender is once it knows that the other peer waits for n.       *)
Answers(q, n, after) ==
  /\ Onward(after, q) /\ after.input.closed = q.input.closed
  /\ Oldest(after) = Oldest(q) \/ Oldest(after) <= n
  /\ q.fin_sent /\ (n = q.next_abs_seqno \/ DOMAIN q.unacked = {}) => DOMAIN after.unacked = {}

(* receive() of a report that the other peer waits for number n,           *)
RunsReport(p) ==
  \A q, w, report, pushed : \A n \in 1..q.next_abs_seqno, window \in Nat :
    /\ Running(p, q, w) /\ q.next_abs_seqno <= Half
    /\ report = [ackno |-> Sender!wrap(n, ISN[p]), window_size |-> window, RST |-> FALSE]
    /\ pushed = Sender!push(Sender!receive(q, report))
    => Speaks(p, pushed.s, w, pushed.sent) /\ Answers(q, n, pushed.s)

(* receive() of one without an ackno,                                      *)
RunsSilence(p) ==
  \A q, w, report, pushed : \A window \in Nat :
    /\ Running(p, q, w) /\ window > 0
    /\ report = [ackno |-> NoAckno, window_size |-> window, RST |-> FALSE]
    /\ pushed = Sender!push(Sender!receive(q, report))
    => /\ Speaks(p, pushed.s, w, pushed.sent)
       /\ pushed.s.syn_sent /\ After(pushed.s, q)

(* and its beginning.                                                      *)
RunsNew(p) ==
  \A q : q = Sender!NewSender(SendCapacity[p], ISN[p]) =>
    /\ Running(p, q, 0)
    /\ ~q.input.closed /\ ~q.syn_sent /\ DOMAIN q.unacked = {}

(* What a small number travels as tells it.                                *)
Tells(p) ==
  \A n, c \in 0..Half :
    /\ Receiver!wrap(n, ISN[p]) \in 0..(Mod - 1)
    /\ Receiver!unwrap(Receiver!wrap(n, ISN[p]), ISN[p], c) = n

(* And what they rely on of a Reassembler: from ReassemblerProofs it       *)
(* follows.                                                                *)
KeepsInserting(capacity) ==
  \A q, c, is_last : \A f \in 0..(U64 - 1), data \in Seq(Nat) :
    /\ Sound(q, capacity) /\ Tight(q) /\ Len(data) < U64 /\ is_last \in BOOLEAN
    /\ c = Receiver!Insert(q, f, data, is_last)
    => Inserted(c, q, capacity, f, data, is_last)

(* A read of n bytes that are there leaves it shifted, and no more.        *)
KeepsReading(capacity) ==
  \A q, c : \A n \in Nat :
    /\ Sound(q, capacity) /\ Tight(q) /\ n <= BytesBuffered(q.output)
    /\ c = [q EXCEPT !.output = Pop(@, n)]
    => Shifted(c, q, capacity)

(* A new Reassembler is fresh.                                             *)
StartsFresh(capacity) ==
  \A q : q = Receiver!NewReassembler(NewStream(capacity)) => Fresh(q, capacity)

(* All that is relied on of the senders and of the Reassemblers.           *)
Laws ==
  /\ \A p \in Peers :
       /\ KeepsNumbers(p) /\ KeepsEnd(p) /\ KeepsSegments(p)
       /\ RunsPush(p) /\ RunsWrite(p) /\ RunsShutdown(p) /\ RunsTick(p)
       /\ RunsReport(p) /\ RunsSilence(p) /\ RunsNew(p) /\ Tells(p)
  /\ \A capacity \in Nat :
       KeepsInserting(capacity) /\ KeepsReading(capacity) /\ StartsFresh(capacity)

(* The numbers of a sound Reassembler.                                     *)
LEMMA SoundNumbers ==
  ASSUME NEW capacity \in Nat, NEW q, Sound(q, capacity)
  PROVE  /\ q.output.queue \in Seq(Nat) /\ BytesBuffered(q.output) \in Nat
         /\ q.output.popped \in Nat /\ q.next_index_to_write \in Nat
         /\ q.next_index_to_write = q.output.popped + BytesBuffered(q.output)
<1>1. q.output.queue \in Seq(Nat) /\ q.output.popped \in Nat
  BY DEF Sound, StreamType
<1>2. BytesBuffered(q.output) \in Nat
  BY <1>1, LenProperties DEF BytesBuffered
<1> QED
  BY <1>1, <1>2 DEF Sound, BytesPushed, BytesBuffered

(* An insertion, into one Reassembler.                                     *)
LEMMA InsertInserts ==
  ASSUME Laws, NEW capacity \in Nat, NEW q, Sound(q, capacity), Tight(q),
         NEW f \in 0..(U64 - 1), NEW data \in Seq(Nat), Len(data) < U64,
         NEW is_last \in BOOLEAN, NEW c, c = Receiver!Insert(q, f, data, is_last)
  PROVE  Inserted(c, q, capacity, f, data, is_last)
  BY DEF Laws, KeepsInserting

(* A read, of one Reassembler.                                             *)
LEMMA ReadShifts ==
  ASSUME Laws, NEW capacity \in Nat, NEW q, Sound(q, capacity), Tight(q),
         NEW n \in Nat, n <= BytesBuffered(q.output),
         NEW c, c = [q EXCEPT !.output = Pop(@, n)]
  PROVE  Shifted(c, q, capacity)
  BY DEF Laws, KeepsReading

(* A new Reassembler.                                                      *)
LEMMA NewIsFresh ==
  ASSUME Laws, NEW capacity \in Nat,
         NEW q, q = Receiver!NewReassembler(NewStream(capacity))
  PROVE  Fresh(q, capacity)
  BY DEF Laws, StartsFresh

(* The numbers of a running sender.                                        *)
LEMMA RunningNumbers ==
  ASSUME Laws, NEW p \in Peers, NEW q, NEW w,
         Running(p, q, w)
  PROVE  /\ w \in 0..ToWrite[p] /\ q.isn = ISN[p]
         /\ q.next_abs_seqno \in 0..(w + 2) /\ q.input.popped \in 0..w
         /\ q.input.closed \in BOOLEAN /\ ~q.input.error
         /\ q.syn_sent => q.next_abs_seqno = q.input.popped + 1 + One(q.fin_sent)
         /\ ~q.syn_sent => q.next_abs_seqno = 0
         /\ q.fin_sent => /\ q.syn_sent /\ IsFinished(q.input)
                          /\ q.next_abs_seqno = w + 2
         /\ q.input.closed => q.syn_sent
         /\ Oldest(q) \in 0..q.next_abs_seqno
         /\ DOMAIN q.unacked = {} <=> Oldest(q) = q.next_abs_seqno
         /\ Sender!sequence_numbers_in_flight(q) = q.next_abs_seqno - Oldest(q)
  BY DEF Laws, KeepsNumbers

(* With nothing in flight and nothing left it has sent its end.            *)
LEMMA RunningFinished ==
  ASSUME Laws, NEW p \in Peers, NEW q, NEW w,
         Running(p, q, w), Sender!sequence_numbers_in_flight(q) = 0, IsFinished(q.input)
  PROVE  q.fin_sent
  BY DEF Laws, KeepsEnd

(* An empty message is a segment of a sender that has sent its SYN.        *)
LEMMA EmptyIsSegment ==
  ASSUME Laws, NEW p \in Peers, NEW q, NEW w,
         Running(p, q, w), q.syn_sent
  PROVE  Segment(p, q, w, Sender!make_empty_message(q))
  BY DEF Laws, KeepsSegments

(* A segment stays one while its sender goes on.                           *)
LEMMA SegmentRemains ==
  ASSUME Laws, NEW p \in Peers, NEW q, NEW w, NEW t, NEW v, NEW msg,
         Running(p, q, w), Running(p, t, v), Onward(t, q),
         q.fin_sent => v = w, Segment(p, q, w, msg)
  PROVE  Segment(p, t, v, msg)
  BY DEF Laws, KeepsSegments

(* push() of a running sender.                                             *)
LEMMA PushRuns ==
  ASSUME Laws, NEW p \in Peers, NEW q, NEW w, NEW pushed,
         Running(p, q, w), pushed = Sender!push(q)
  PROVE  /\ Speaks(p, pushed.s, w, pushed.sent)
         /\ pushed.s.syn_sent /\ After(pushed.s, q)
  BY DEF Laws, RunsPush

(* The application writes n bytes.                                         *)
LEMMA WriteRuns ==
  ASSUME Laws, NEW p \in Peers, NEW q, NEW w, NEW n \in Nat, NEW pushed,
         Running(p, q, w), ~q.input.closed,
         n <= AvailableCapacity(q.input), w + n <= ToWrite[p],
         pushed = Sender!push([q EXCEPT !.input = Push(q.input, [i \in 1..n |-> w + i])])
  PROVE  Speaks(p, pushed.s, w + n, pushed.sent) /\ After(pushed.s, q)
  BY DEF Laws, RunsWrite

(* The application shuts its side down.                                    *)
LEMMA ShutdownRuns ==
  ASSUME Laws, NEW p \in Peers, NEW q, NEW w, NEW pushed,
         Running(p, q, w),
         pushed = Sender!push([q EXCEPT !.input = Close(q.input)])
  PROVE  /\ Speaks(p, pushed.s, w, pushed.sent)
         /\ Onward(pushed.s, q) /\ pushed.s.input.closed
         /\ Oldest(pushed.s) = Oldest(q)
  BY DEF Laws, RunsShutdown

(* Time passes.                                                            *)
LEMMA TickRuns ==
  ASSUME Laws, NEW p \in Peers, NEW q, NEW w, NEW elapsed \in Nat, NEW ticked,
         Running(p, q, w), ticked = Sender!tick(q, elapsed),
         q.consecutive_retransmissions < MaxRetx[p]
  PROVE  Speaks(p, ticked.s, w, ticked.sent) /\ After(ticked.s, q)
  BY DEF Laws, RunsTick

(* The other peer reports that it waits for number n.                      *)
LEMMA ReportRuns ==
  ASSUME Laws, NEW p \in Peers, NEW q, NEW w, NEW n \in 1..q.next_abs_seqno, NEW window \in Nat,
         NEW report, NEW pushed,
         Running(p, q, w), q.next_abs_seqno <= Half,
         report = [ackno |-> Sender!wrap(n, ISN[p]), window_size |-> window, RST |-> FALSE],
         pushed = Sender!push(Sender!receive(q, report))
  PROVE  /\ Speaks(p, pushed.s, w, pushed.sent)
         /\ Onward(pushed.s, q) /\ pushed.s.input.closed = q.input.closed
         /\ Oldest(pushed.s) = Oldest(q) \/ Oldest(pushed.s) <= n
         /\ q.fin_sent /\ (n = q.next_abs_seqno \/ DOMAIN q.unacked = {}) =>
              DOMAIN pushed.s.unacked = {}
<1>1. RunsReport(p)
  BY DEF Laws
<1>2. Speaks(p, pushed.s, w, pushed.sent) /\ Answers(q, n, pushed.s)
  BY <1>1 DEF RunsReport
<1> QED
  BY <1>2 DEF Answers

(* The other peer, still listening, reports nothing.                       *)
LEMMA SilenceRuns ==
  ASSUME Laws, NEW p \in Peers, NEW q, NEW w, NEW window \in Nat, NEW report, NEW pushed,
         Running(p, q, w), window > 0,
         report = [ackno |-> NoAckno, window_size |-> window, RST |-> FALSE],
         pushed = Sender!push(Sender!receive(q, report))
  PROVE  /\ Speaks(p, pushed.s, w, pushed.sent)
         /\ pushed.s.syn_sent /\ After(pushed.s, q)
  BY DEF Laws, RunsSilence

(* A new sender runs.                                                      *)
LEMMA NewSenderRuns ==
  ASSUME Laws, NEW p \in Peers, NEW q,
         q = Sender!NewSender(SendCapacity[p], ISN[p])
  PROVE  /\ Running(p, q, 0)
         /\ ~q.input.closed /\ ~q.syn_sent /\ DOMAIN q.unacked = {}
  BY DEF Laws, RunsNew

-----------------------------------------------------------------------------
(* What a segment carries: it has number k, and its payload the bytes that *)
(* follow index f of the stream.                                           *)
Carries(p, q, w, msg, k, f) ==
  /\ msg.seqno = Receiver!wrap(k, ISN[p])
  /\ msg.SYN <=> k = 0
  /\ f = IF msg.SYN THEN 0 ELSE k - 1
  /\ k + One(msg.SYN) + Len(msg.payload) <= q.next_abs_seqno
  /\ \A i \in 1..Len(msg.payload) :
       msg.payload[i] = f + i /\ f + i <= q.input.popped
  /\ msg.FIN => q.fin_sent /\ f + Len(msg.payload) = w

(* A sequence of some numbers is a sequence of numbers.                    *)
LEMMA Numbers ==
  ASSUME NEW n \in Nat, NEW data \in Seq(1..n)
  PROVE  data \in Seq(Nat) /\ Len(data) \in Nat /\ \A i \in 1..Len(data) : data[i] \in Nat
  OBVIOUS

(* Every segment of a running sender carries a stretch of its stream.      *)
LEMMA SegmentCarries ==
  ASSUME Laws, NEW p \in Peers, NEW q, NEW w, NEW msg, Running(p, q, w), Segment(p, q, w, msg)
  PROVE  /\ msg = [seqno |-> msg.seqno, SYN |-> msg.SYN, payload |-> msg.payload,
                   FIN |-> msg.FIN, RST |-> FALSE]
         /\ msg.SYN \in BOOLEAN /\ msg.FIN \in BOOLEAN
         /\ msg.payload \in Seq(Nat)
         /\ \E k \in Nat, f \in Nat : Carries(p, q, w, msg, k, f)
<1>1. msg \in Messages(p) /\ ~msg.RST
  BY DEF Segment
<1>2. ToWrite[p] \in Nat
  BY ConnectionAssumption DEF Peers
<1>3. PICK n \in Nat : n = Len(msg.payload)
  BY <1>1, <1>2, Numbers DEF Messages
<1>4. msg.payload \in Seq(Nat) /\ msg.SYN \in BOOLEAN /\ msg.FIN \in BOOLEAN
  BY <1>1, <1>2, Numbers DEF Messages
<1>5. PICK k \in Nat :
        /\ msg.seqno = Sender!wrap(k, ISN[p])
        /\ k + Sender!sequence_length(msg) <= q.next_abs_seqno
        /\ msg.SYN <=> k = 0
        /\ \A i \in 1..Len(msg.payload) :
             /\ msg.payload[i] = (IF msg.SYN THEN k + 1 ELSE k) + i - 1
             /\ msg.payload[i] <= q.input.popped
        /\ msg.FIN => q.fin_sent /\ k + Sender!sequence_length(msg) = w + 2
  BY DEF Segment
<1>6. PICK a \in Nat, b \in Nat :
        /\ a = One(msg.SYN) /\ b = One(msg.FIN)
        /\ msg.SYN => a = 1
        /\ ~msg.SYN => a = 0
        /\ msg.FIN => b = 1
  BY DEF One
<1>15. PICK l \in Nat : l = Sender!sequence_length(msg) /\ l = n + a + b
  <2>1. Sender!sequence_length(msg) = n + a + b
    BY <1>3, <1>6, Zenon DEF Sender!sequence_length, One
  <2>2. n + a + b \in Nat
    BY <1>3, <1>6
  <2> QED
    BY <2>1, <2>2
<1>7. PICK f \in Nat : f = IF msg.SYN THEN 0 ELSE k - 1
  <2>1. CASE msg.SYN
    BY <2>1
  <2>2. CASE ~msg.SYN
    <3>1. k - 1 \in Nat
      BY <1>5, <2>2
    <3> QED
      BY <2>2, <3>1
  <2> QED
    BY <2>1, <2>2
<1>8. q.next_abs_seqno \in Nat /\ w \in Nat
  BY RunningNumbers
<1>16. k + l <= q.next_abs_seqno
  BY <1>5, <1>15
<1>9. k + a + n <= q.next_abs_seqno
  BY <1>8, <1>15, <1>16
<1>10. msg.FIN => q.fin_sent /\ f + n = w
  <2>1. SUFFICES ASSUME msg.FIN PROVE q.fin_sent /\ f + n = w
    OBVIOUS
  <2>2. q.fin_sent /\ b = 1 /\ k + l = w + 2
    BY <1>5, <1>6, <1>15, <2>1
  <2>3. CASE msg.SYN
    <3>1. a = 1 /\ f = 0 /\ k = 0
      BY <1>5, <1>6, <1>7, <2>3
    <3> QED
      BY <1>8, <1>15, <2>2, <3>1
  <2>4. CASE ~msg.SYN
    <3>1. a = 0 /\ f = k - 1
      BY <1>6, <1>7, <2>4
    <3> QED
      BY <1>8, <1>15, <2>2, <3>1
  <2> QED
    BY <2>3, <2>4
<1>11. \A i \in 1..n : msg.payload[i] = f + i /\ f + i <= q.input.popped
  BY <1>3, <1>5, <1>7
<1>12. Receiver!wrap(k, ISN[p]) = Sender!wrap(k, ISN[p])
  BY SameWrap
<1>13. Carries(p, q, w, msg, k, f)
  BY <1>3, <1>5, <1>6, <1>7, <1>9, <1>10, <1>11, <1>12 DEF Carries
<1>14. msg = [seqno |-> msg.seqno, SYN |-> msg.SYN, payload |-> msg.payload,
             FIN |-> msg.FIN, RST |-> FALSE]
  BY <1>1 DEF Messages
<1> QED
  BY <1>4, <1>13, <1>14

-----------------------------------------------------------------------------
(* The number that receiver r waits for.                                   *)
Awaited(r) == IF r.state = "LISTEN" THEN 0 ELSE Receiver!NextAbsSeqno(r)

(* Receiver r of what sender q of peer p has sent of its w bytes: it has   *)
(* only bytes of that stream, each at its place, and no more than were     *)
(* sent; and it has seen the end only where it is.                         *)
Receiving(p, q, w, r) ==
  LET b == r.reassembler IN
  /\ r = [reassembler |-> b, state |-> r.state, ins |-> r.ins]
  /\ r.state \in {"LISTEN", "SYN_RECEIVED", "FIN_RECEIVED"}
  /\ Sound(b, RecvCapacity[Other(p)]) /\ Tight(b)
  /\ ~b.output.error
  /\ r.state = "LISTEN" => b.next_index_to_write = 0
  /\ r.state # "LISTEN" => r.ins = ISN[p] /\ q.syn_sent
  /\ \A i \in Nat : Reached(b, i) => i < q.input.popped
  /\ \A i, v \in Nat : Stands(b, i, v) => v = i + 1
  /\ b.eof_received <=> r.state = "FIN_RECEIVED"
  /\ b.eof_received => q.fin_sent /\ b.eof_index = w
  /\ b.output.closed => b.eof_received /\ b.next_index_to_write = w

(* The numbers a receiver keeps are bounded by those its sender keeps.     *)
LEMMA ReceivingNumbers ==
  ASSUME Laws, NEW p \in Peers, NEW q, NEW w, NEW r, Running(p, q, w), Receiving(p, q, w, r)
  PROVE  LET b == r.reassembler IN
         /\ b.next_index_to_write \in 0..q.input.popped
         /\ BytesPushed(b.output) = b.next_index_to_write
         /\ b.output.popped \in Nat /\ b.output.queue \in Seq(Nat)
         /\ b.next_index_to_write = b.output.popped + Len(b.output.queue)
         /\ \A i \in 1..Len(b.output.queue) : b.output.queue[i] = b.output.popped + i
         /\ b.output.closed \in BOOLEAN
         /\ Awaited(r) \in 0..q.next_abs_seqno
         /\ r.state # "LISTEN" =>
              Awaited(r) = 1 + b.next_index_to_write + One(b.output.closed)
         /\ b.output.closed =>
              /\ r.state = "FIN_RECEIVED" /\ q.fin_sent
              /\ Awaited(r) = w + 2 /\ b.next_index_to_write = w
         /\ Awaited(r) = w + 2 => b.output.closed
<1> DEFINE b == r.reassembler
           next == b.next_index_to_write
<1>1. Sound(b, RecvCapacity[Other(p)])
  BY DEF Receiving
<1>2. Other(p) \in Peers /\ RecvCapacity[Other(p)] \in Nat
  BY OtherFacts, ConnectionAssumption DEF Peers
<1>3. /\ b.output.queue \in Seq(Nat) /\ BytesBuffered(b.output) \in Nat
      /\ b.output.popped \in Nat
      /\ next \in Nat
      /\ next = b.output.popped + BytesBuffered(b.output)
  BY <1>1, <1>2, SoundNumbers
<1>4. BytesBuffered(b.output) = Len(b.output.queue)
  BY DEF BytesBuffered
<1>5. /\ BytesPushed(b.output) = next
      /\ b.output.closed \in BOOLEAN
  BY <1>1 DEF Sound, StreamType
<1>6. BytesPushed(b.output) = next /\ Receiver!BytesPushed(b.output) = next
  BY <1>5, SamePlain
<1>7. q.input.popped \in Nat /\ q.next_abs_seqno \in Nat /\ w \in Nat /\ q.input.popped <= w
  BY RunningNumbers
<1>8. next <= q.input.popped
  <2>1. CASE next = 0
    BY <1>7, <2>1
  <2>2. CASE next # 0
    <3>1. next - 1 \in Nat /\ next - 1 < next
      BY <1>3, <2>2
    <3>2. Reached(b, next - 1)
      BY <3>1 DEF Reached
    <3>3. next - 1 < q.input.popped
      BY <3>1, <3>2 DEF Receiving
    <3> QED
      BY <1>3, <1>7, <3>3
  <2> QED
    BY <2>1, <2>2
<1>9. ASSUME NEW i \in 1..Len(b.output.queue)
      PROVE  b.output.queue[i] = b.output.popped + i
  <2>6. PICK l \in Nat, m \in Nat :
          /\ l = Len(b.output.queue) /\ m = b.output.popped /\ next = m + l
          /\ i \in 1..l
    BY <1>3, <1>4, <1>9
  <2>1. PICK j \in Nat : j = m + i - 1
    <3>1. m + i - 1 \in Nat
      BY <2>6
    <3> QED
      BY <3>1
  <2>2. /\ b.output.popped <= j /\ j < next /\ j - b.output.popped + 1 = i
    <3>1. i \in 1..l /\ j = m + i - 1
      BY <2>1, <2>6, Zenon
    <3>2. m <= j /\ j < m + l /\ j - m + 1 = i
      BY <3>1
    <3> QED
      BY <2>6, <3>2, Zenon
  <2>3. b.output.queue[i] \in Nat
    <3>1. PICK u \in Seq(Nat) : u = b.output.queue
      BY <1>3
    <3>2. i \in 1..Len(u)
      BY <2>6, <3>1
    <3>3. u[i] \in Nat
      BY <3>2
    <3> QED
      BY <3>1, <3>3
  <2>4. Stands(b, j, b.output.queue[i])
    BY <2>2 DEF Stands
  <2>5. b.output.queue[i] = j + 1
    BY <2>1, <2>3, <2>4 DEF Receiving
  <2> QED
    BY <2>1, <2>5, <2>6
<1>10. b.output.closed => r.state = "FIN_RECEIVED" /\ q.fin_sent /\ next = w
  BY DEF Receiving
<1>11. r.state # "LISTEN" => Awaited(r) = 1 + next + One(b.output.closed)
  BY <1>3, <1>6, <1>10 DEF Awaited, Receiver!NextAbsSeqno, Receiver!Output, One
<1>12. r.state = "LISTEN" => Awaited(r) = 0
  BY DEF Awaited
<1>13. r.state # "LISTEN" => q.syn_sent
  BY DEF Receiving
<1>14. /\ q.syn_sent => q.next_abs_seqno = q.input.popped + 1 + One(q.fin_sent)
  BY RunningNumbers
<1> HIDE DEF b, next
<1>15. Awaited(r) \in 0..q.next_abs_seqno
  BY <1>3, <1>7, <1>8, <1>10, <1>11, <1>12, <1>13, <1>14 DEF One
<1>16. b.output.closed => Awaited(r) = w + 2
  BY <1>3, <1>7, <1>10, <1>11 DEF One
<1>17. Awaited(r) = w + 2 => b.output.closed
  BY <1>3, <1>7, <1>8, <1>11, <1>12 DEF One
<1>18. next \in 0..q.input.popped
  BY <1>3, <1>7, <1>8
<1> QED
  BY <1>3, <1>4, <1>5, <1>6, <1>9, <1>10, <1>11, <1>15, <1>16, <1>17, <1>18 DEF b, next

(* A stream is short enough for its numbers.                               *)
LEMMA ShortNumbers ==
  ASSUME Laws, NEW p \in Peers, NEW q, NEW w, Running(p, q, w)
  PROVE  /\ q.next_abs_seqno \in 0..Half /\ w + 2 \in 0..Half /\ q.input.popped \in 0..Half
         /\ U64 \in Nat /\ Half + Half <= U64 /\ Half > 0
<1>1. ToWrite[p] \in Nat /\ ToWrite[p] + 2 <= Half
  BY ShortStreams, ConnectionAssumption DEF Peers, Half
<1>2. U64 \in Nat /\ U64 >= Mod + Mod /\ Half \in Nat /\ Mod = Half + Half /\ Half > 0
  BY Wide, HalfTwice, ConnectionAssumption
<1>3. w \in 0..ToWrite[p] /\ q.next_abs_seqno \in 0..(w + 2) /\ q.input.popped \in 0..w
  BY RunningNumbers
<1> QED
  BY <1>1, <1>2, <1>3

(* What a small number travels as tells it.                                *)
LEMMA Unwraps ==
  ASSUME Laws, NEW p \in Peers, NEW n \in 0..Half, NEW c \in 0..Half
  PROVE  /\ Receiver!wrap(n, ISN[p]) \in 0..(Mod - 1)
         /\ Receiver!unwrap(Receiver!wrap(n, ISN[p]), ISN[p], c) = n
  BY DEF Laws, Tells

(* The numbers of what a segment carries.                                  *)
LEMMA CarriedNumbers ==
  ASSUME Laws, NEW p \in Peers, NEW q, NEW w, Running(p, q, w), NEW msg,
         msg.SYN \in BOOLEAN, msg.payload \in Seq(Nat),
         NEW k \in Nat, NEW f \in Nat, Carries(p, q, w, msg, k, f)
  PROVE  /\ k \in 0..Half /\ Len(msg.payload) \in Nat
         /\ f + Len(msg.payload) \in 0..Half
         /\ q.syn_sent
<1>1. PICK n \in Nat : n = Len(msg.payload)
  OBVIOUS
<1>2. PICK a \in Nat : a = One(msg.SYN) /\ (msg.SYN => a = 1) /\ (~msg.SYN => a = 0)
  BY DEF One
<1>3. PICK next \in Nat : next = q.next_abs_seqno /\ next <= Half
  BY ShortNumbers
<1>4. k + a + n <= next
  BY <1>1, <1>2, <1>3 DEF Carries
<1>5. (msg.SYN => k = 0 /\ f = 0) /\ (~msg.SYN => k # 0 /\ f = k - 1)
  BY DEF Carries
<1>6. next >= 1
  <2>1. CASE msg.SYN
    <3>1. a = 1
      BY <1>2, <2>1
    <3> QED
      BY <1>4, <3>1
  <2>2. CASE ~msg.SYN
    <3>1. k # 0
      BY <1>5, <2>2
    <3> QED
      BY <1>4, <3>1
  <2> QED
    BY <2>1, <2>2
<1>7. ~q.syn_sent => next = 0
  BY <1>3, RunningNumbers
<1>8. f + n <= next
  <2>1. f <= k
    BY <1>5
  <2> QED
    BY <1>4, <2>1
<1>9. PICK half \in Nat : half = Half /\ next <= half
  BY <1>3, HalfTwice
<1>10. k \in 0..half /\ f + n \in 0..half
  BY <1>4, <1>8, <1>9
<1>11. q.syn_sent
  BY <1>6, <1>7
<1> QED
  BY <1>1, <1>9, <1>10, <1>11

(* The receiver finds the index a segment's payload stands at.             *)
LEMMA FirstIndexIs ==
  ASSUME Laws, NEW p \in Peers, NEW q, NEW w, Running(p, q, w), NEW msg,
         msg.SYN \in BOOLEAN, msg.payload \in Seq(Nat),
         NEW k \in Nat, NEW f \in Nat, Carries(p, q, w, msg, k, f),
         NEW y, y.ins = ISN[p],
         BytesPushed(y.reassembler.output) \in 0..Half
  PROVE  Receiver!FirstIndex(y, msg) = f
<1>0. k \in 0..Half
  BY CarriedNumbers
<1>1. k \in 0..Half /\ (msg.SYN => k = 0 /\ f = 0) /\ (~msg.SYN => k # 0 /\ f = k - 1)
  BY <1>0 DEF Carries
<1>2. PICK c \in 0..Half : c = Receiver!BytesPushed(Receiver!Output(y))
  BY SamePlain DEF Receiver!Output
<1>3. msg.seqno = Receiver!wrap(k, ISN[p])
  BY DEF Carries
<1>4. Receiver!unwrap(msg.seqno, y.ins, c) = k
  BY <1>1, <1>2, <1>3, Unwraps
<1>5. Receiver!FirstIndex(y, msg) = IF msg.SYN THEN k ELSE (k - 1) % U64
  BY <1>2, <1>4, Zenon DEF Receiver!FirstIndex
<1>6. CASE msg.SYN
  BY <1>1, <1>5, <1>6
<1>7. CASE ~msg.SYN
  <2>3. U64 \in Nat /\ Half \in Nat /\ Half + Half <= U64 /\ Half > 0
    BY ShortNumbers, HalfTwice
  <2>1. k - 1 \in 0..(U64 - 1) /\ U64 \in Nat \ {0}
    BY <1>1, <1>7, <2>3
  <2>2. (k - 1) % U64 = k - 1
    BY <2>1, ModSmall
  <2> QED
    BY <1>1, <1>5, <1>7, <2>2
<1> QED
  BY <1>6, <1>7

(* Taking one of the sender's segments, a receiver that has seen the SYN   *)
(* goes on receiving the sender's stream, and forgets nothing.             *)
Advances(r, t, msg) ==
  /\ Awaited(r) <= Awaited(t)
  /\ t.reassembler.output.popped = r.reassembler.output.popped
  /\ r.reassembler.next_index_to_write <= t.reassembler.next_index_to_write
  /\ r.reassembler.output.closed => t.reassembler.output.closed
  /\ r.state # "LISTEN" => t.state # "LISTEN"
  /\ t.state = "FIN_RECEIVED" => r.state = "FIN_RECEIVED" \/ msg.FIN

(* An insertion of what a segment carries.                                 *)
LEMMA InsertReceives ==
  ASSUME Laws, NEW p \in Peers, NEW q, NEW w, Running(p, q, w), NEW msg,
         msg.SYN \in BOOLEAN, msg.FIN \in BOOLEAN, msg.payload \in Seq(Nat),
         NEW k \in Nat, NEW f \in Nat, Carries(p, q, w, msg, k, f),
         NEW r, Receiving(p, q, w, r), r.state # "LISTEN",
         NEW c, c = Receiver!Insert(r.reassembler, f, msg.payload, msg.FIN),
         NEW t, t = [reassembler |-> c,
                     state |-> IF msg.FIN THEN "FIN_RECEIVED" ELSE r.state,
                     ins |-> r.ins]
  PROVE  Receiving(p, q, w, t) /\ Advances(r, t, msg)
<1> DEFINE b == r.reassembler
           data == msg.payload
           capacity == RecvCapacity[Other(p)]
<1>1. capacity \in Nat
  BY OtherFacts, ConnectionAssumption DEF Peers
<1>2. Sound(b, capacity) /\ Tight(b) /\ ~b.output.error
  BY DEF Receiving
<1>3. PICK n \in Nat : n = Len(data)
  OBVIOUS
<1>4. /\ U64 \in Nat /\ Half + Half <= U64 /\ Half > 0 /\ Half \in Nat
      /\ w \in Nat /\ q.input.popped \in Nat /\ q.input.popped <= w /\ w < U64
  BY ShortNumbers, RunningNumbers, HalfTwice
<1>5. f + n <= Half /\ q.syn_sent
  BY <1>3, CarriedNumbers
<1>6. f \in 0..(U64 - 1) /\ Len(data) < U64 /\ f + Len(data) < U64
  BY <1>3, <1>4, <1>5
<1> HIDE DEF capacity
<1>7. /\ Sound(c, capacity) /\ Tight(c)
      /\ c.output.error = b.output.error
      /\ c.eof_received <=> b.eof_received \/ msg.FIN
      /\ c.eof_index = IF msg.FIN THEN Receiver!OriginalLast(f, data) ELSE b.eof_index
      /\ c.output.popped = b.output.popped
      /\ b.next_index_to_write <= c.next_index_to_write
      /\ b.output.closed => c.output.closed
      /\ c.output.closed =>
           b.output.closed \/ (c.eof_received /\ c.next_index_to_write = c.eof_index)
      /\ \A i \in Nat : Reached(c, i) =>
           Reached(b, i) \/ Accepts(b, f, data, i)
      /\ \A i \in Nat, v \in Nat : Stands(c, i, v) =>
           Stands(b, i, v) \/
           (Accepts(b, f, data, i) /\ data[i - f + 1] = v)
  <2>1. PICK old, bytes, last : old = b /\ bytes = data /\ last = msg.FIN
    OBVIOUS
  <2>2. /\ Sound(old, capacity) /\ Tight(old)
        /\ bytes \in Seq(Nat) /\ Len(bytes) < U64 /\ last \in BOOLEAN
        /\ c = Receiver!Insert(old, f, bytes, last)
    BY <1>2, <1>6, <2>1
  <2>3. Inserted(c, old, capacity, f, bytes, last)
    BY <1>1, <1>6, <2>2, InsertInserts
  <2> QED
    BY <2>1, <2>3 DEF Inserted
<1>8. ~c.output.error
  BY <1>2, <1>7
<1>9. ASSUME NEW i \in Nat, Accepts(b, f, data, i)
      PROVE  i < q.input.popped /\ data[i - f + 1] = i + 1
  <2>1. f <= i /\ i < f + n
    BY <1>3, <1>9 DEF Accepts
  <2>2. PICK j \in 1..n : j = i - f + 1 /\ f + j = i + 1
    <3>1. i - f + 1 \in 1..n
      BY <2>1
    <3> QED
      BY <3>1
  <2>3. data[j] = f + j /\ f + j <= q.input.popped
    BY <1>3, <2>2 DEF Carries
  <2> QED
    BY <1>4, <2>2, <2>3
<1>10. \A i \in Nat : Reached(c, i) => i < q.input.popped
  BY <1>7, <1>9 DEF Receiving
<1>11. \A i, v \in Nat : Stands(c, i, v) => v = i + 1
  <2>1. SUFFICES ASSUME NEW i \in Nat, NEW v \in Nat, Stands(c, i, v) PROVE v = i + 1
    OBVIOUS
  <2>2. Stands(b, i, v) \/ (Accepts(b, f, data, i) /\ data[i - f + 1] = v)
    BY <1>7, <2>1
  <2>3. Stands(b, i, v) => v = i + 1
    BY DEF Receiving
  <2> QED
    BY <1>9, <2>2, <2>3
<1>12. /\ b.next_index_to_write \in Nat /\ c.next_index_to_write \in Nat
       /\ b.output.closed \in BOOLEAN /\ c.output.closed \in BOOLEAN
       /\ c.eof_received \in BOOLEAN
  BY <1>1, <1>2, <1>7 DEF Sound, StreamType
<1>13. c.next_index_to_write <= w
  <2>1. CASE c.next_index_to_write = 0
    BY <1>4, <2>1
  <2>2. CASE c.next_index_to_write # 0
    <3>1. PICK i \in Nat : c.next_index_to_write = i + 1
      <4>1. PICK m \in Nat : m = c.next_index_to_write /\ m # 0
        BY <1>12, <2>2
      <4>2. m - 1 \in Nat /\ m = (m - 1) + 1
        BY <4>1
      <4> QED
        BY <4>1, <4>2
    <3>2. Reached(c, i)
      BY <3>1 DEF Reached
    <3> QED
      BY <1>4, <1>10, <3>1, <3>2
  <2> QED
    BY <2>1, <2>2
<1>14. /\ b.eof_received <=> r.state = "FIN_RECEIVED"
       /\ b.eof_received => q.fin_sent /\ b.eof_index = w
       /\ b.output.closed => b.eof_received /\ b.next_index_to_write = w
       /\ r.ins = ISN[p] /\ r.state \in {"SYN_RECEIVED", "FIN_RECEIVED"}
  BY DEF Receiving
<1>15. msg.FIN => q.fin_sent /\ Receiver!OriginalLast(f, data) = w
  <2>1. SUFFICES ASSUME msg.FIN PROVE q.fin_sent /\ Receiver!OriginalLast(f, data) = w
    OBVIOUS
  <2>2. q.fin_sent /\ f + n = w
    BY <1>3, <2>1 DEF Carries
  <2>3. U64 \in Nat \ {0} /\ w \in 0..(U64 - 1)
    BY <1>4
  <2>4. w % U64 = w
    BY <2>3, ModSmall
  <2> QED
    BY <1>3, <2>2, <2>4 DEF Receiver!OriginalLast
<1>16. c.eof_received => q.fin_sent /\ c.eof_index = w
  BY <1>7, <1>14, <1>15
<1>17. c.output.closed => c.eof_received /\ c.next_index_to_write = w
  <2>1. SUFFICES ASSUME c.output.closed
                 PROVE  c.eof_received /\ c.next_index_to_write = w
    OBVIOUS
  <2>2. CASE b.output.closed
    BY <1>4, <1>7, <1>12, <1>13, <1>14, <2>2
  <2>3. CASE ~b.output.closed
    BY <1>7, <1>16, <2>1, <2>3
  <2> QED
    BY <2>2, <2>3
<1>18. /\ t.reassembler = c /\ t.ins = ISN[p]
       /\ t.state \in {"SYN_RECEIVED", "FIN_RECEIVED"}
       /\ t.state = "FIN_RECEIVED" <=> r.state = "FIN_RECEIVED" \/ msg.FIN
       /\ t = [reassembler |-> c, state |-> t.state, ins |-> t.ins]
  BY <1>14
<1> HIDE DEF b, data
<1>19. Receiving(p, q, w, t)
  <2>1. Sound(c, RecvCapacity[Other(p)]) /\ Tight(c)
    BY <1>7 DEF capacity
  <2>2. c.eof_received <=> t.state = "FIN_RECEIVED"
    BY <1>7, <1>14, <1>18
  <2> QED
    BY <1>5, <1>8, <1>10, <1>11, <1>16, <1>17, <1>18, <2>1, <2>2 DEF Receiving
<1>20. /\ Awaited(r) = 1 + b.next_index_to_write + One(b.output.closed)
       /\ Awaited(t) = 1 + c.next_index_to_write + One(c.output.closed)
  BY <1>18, <1>19, ReceivingNumbers DEF b
<1>21. Awaited(r) <= Awaited(t)
  BY <1>7, <1>12, <1>20 DEF One
<1> QED
  BY <1>7, <1>18, <1>19, <1>21 DEF Advances, b

(* The first SYN fixes the zero point at the sender's.                     *)
LEMMA SynchronizedReceives ==
  ASSUME Laws, NEW p \in Peers, NEW q, NEW w, Running(p, q, w), NEW msg,
         msg.SYN \in BOOLEAN, msg.payload \in Seq(Nat),
         NEW k \in Nat, NEW f \in Nat, Carries(p, q, w, msg, k, f),
         NEW r, Receiving(p, q, w, r), r.state # "LISTEN" \/ msg.SYN,
         NEW y, y = Receiver!Synchronized(r, msg)
  PROVE  /\ Receiving(p, q, w, y) /\ y.state # "LISTEN"
         /\ y.reassembler = r.reassembler
         /\ Awaited(r) <= Awaited(y)
         /\ y.state = "FIN_RECEIVED" => r.state = "FIN_RECEIVED"
<1>1. CASE r.state # "LISTEN"
  <2>1. y = r
    BY <1>1 DEF Receiver!Synchronized
  <2>2. Awaited(r) \in Int
    BY ReceivingNumbers
  <2> QED
    BY <1>1, <2>1, <2>2
<1>2. CASE r.state = "LISTEN"
  <2>1. msg.seqno = ISN[p]
    <3>1. msg.seqno = Receiver!wrap(0, ISN[p])
      BY <1>2 DEF Carries
    <3>2. ISN[p] \in 0..(Mod - 1) /\ Mod \in Nat \ {0}
      BY ConnectionAssumption DEF Peers
    <3>3. ISN[p] % Mod = ISN[p] /\ ISN[p] + 0 = ISN[p]
      BY <3>2, ModSmall
    <3> QED
      BY <3>1, <3>3 DEF Receiver!wrap
  <2>2. r = [reassembler |-> r.reassembler, state |-> r.state, ins |-> r.ins]
    BY DEF Receiving
  <2>3. y = [reassembler |-> r.reassembler, state |-> "SYN_RECEIVED", ins |-> ISN[p]]
    <3>1. y = [r EXCEPT !.ins = ISN[p], !.state = "SYN_RECEIVED"]
      BY <1>2, <2>1 DEF Receiver!Synchronized
    <3> QED
      BY <2>2, <3>1
  <2>4. q.syn_sent
    BY CarriedNumbers
  <2>5. Receiving(p, q, w, y)
    BY <1>2, <2>3, <2>4 DEF Receiving
  <2>6. Awaited(r) = 0 /\ Awaited(y) \in Nat
    BY <1>2, <2>5, ReceivingNumbers DEF Awaited
  <2> QED
    BY <2>3, <2>5, <2>6
<1> QED
  BY <1>1, <1>2

(* receive() of a segment.                                                 *)
LEMMA ReceiverReceives ==
  ASSUME Laws, NEW p \in Peers, NEW q, NEW w, Running(p, q, w), NEW msg, Segment(p, q, w, msg),
         NEW r, Receiving(p, q, w, r), NEW t, t = Receiver!receive(r, msg)
  PROVE  Receiving(p, q, w, t) /\ Advances(r, t, msg)
<1>1. /\ msg.SYN \in BOOLEAN /\ msg.FIN \in BOOLEAN /\ msg.payload \in Seq(Nat)
      /\ ~msg.RST
  BY SegmentCarries
<1>2. PICK k \in Nat, f \in Nat : Carries(p, q, w, msg, k, f)
  BY SegmentCarries
<1>3. r.state # "CLOSED" /\ ~r.reassembler.output.error
  BY DEF Receiving
<1>4. CASE r.state = "LISTEN" /\ ~msg.SYN
  <2>1. t = r
    BY <1>1, <1>3, <1>4 DEF Receiver!receive, Receiver!Output
  <2>2. Awaited(r) \in Int /\ r.reassembler.next_index_to_write \in Int
    BY ReceivingNumbers
  <2> QED
    BY <2>1, <2>2 DEF Advances
<1>5. CASE r.state # "LISTEN" \/ msg.SYN
  <2>1. PICK y : y = Receiver!Synchronized(r, msg)
    OBVIOUS
  <2>2. /\ Receiving(p, q, w, y) /\ y.state # "LISTEN"
        /\ y.reassembler = r.reassembler
        /\ Awaited(r) <= Awaited(y)
        /\ y.state = "FIN_RECEIVED" => r.state = "FIN_RECEIVED"
    BY <1>1, <1>2, <1>5, <2>1, SynchronizedReceives
  <2>3. t = Receiver!Accept(y, msg)
    BY <1>1, <1>3, <1>5, <2>1 DEF Receiver!receive, Receiver!Output
  <2>4. BytesPushed(y.reassembler.output) \in 0..Half
    <3>1. /\ BytesPushed(y.reassembler.output) = y.reassembler.next_index_to_write
          /\ y.reassembler.next_index_to_write \in 0..q.input.popped
      BY <2>2, ReceivingNumbers
    <3>2. q.input.popped \in 0..Half /\ Half \in Nat
      BY ShortNumbers, HalfTwice
    <3> QED
      BY <3>1, <3>2
  <2>5. Receiver!FirstIndex(y, msg) = f
    <3>1. y.ins = ISN[p]
      BY <2>2 DEF Receiving
    <3> QED
      BY <1>1, <1>2, <2>4, <3>1, FirstIndexIs
  <2>6. PICK c : c = Receiver!Insert(y.reassembler, f, msg.payload, msg.FIN)
    OBVIOUS
  <2>7. Receiver!Insert(y.reassembler, f, msg.payload, msg.FIN) = c
    BY <2>6
  <2>8. y = [reassembler |-> y.reassembler, state |-> y.state, ins |-> y.ins]
    BY <2>2 DEF Receiving
  <2>9. t = [reassembler |-> c,
             state |-> IF msg.FIN THEN "FIN_RECEIVED" ELSE y.state,
             ins |-> y.ins]
    <3>1. t = [y EXCEPT !.reassembler = c,
                        !.state = IF msg.FIN THEN "FIN_RECEIVED" ELSE y.state]
      BY <2>3, <2>5, <2>7, Zenon DEF Receiver!Accept
    <3> QED
      BY <2>8, <3>1
  <2>10. Receiving(p, q, w, t) /\ Advances(y, t, msg)
    BY <1>1, <1>2, <2>2, <2>6, <2>9, InsertReceives
  <2>11. Awaited(r) \in Int /\ Awaited(y) \in Int /\ Awaited(t) \in Int
    BY <2>2, <2>10, ReceivingNumbers
  <2>12. Awaited(r) <= Awaited(t)
    BY <2>2, <2>10, <2>11 DEF Advances
  <2> QED
    BY <2>2, <2>10, <2>12 DEF Advances
<1> QED
  BY <1>4, <1>5

(* What receiver r of peer p's stream may have reported so far: nothing    *)
(* but room, or a number of the stream up to the one it waits for now.     *)
Reported(p, r, report) ==
  \E window \in Nat :
    \/ /\ window > 0
       /\ report = [ackno |-> NoAckno, window_size |-> window, RST |-> FALSE]
    \/ \E n \in 1..Awaited(r) :
         report = [ackno |-> Sender!wrap(n, ISN[p]), window_size |-> window, RST |-> FALSE]

(* What it reports now.                                                    *)
LEMMA SendReports ==
  ASSUME Laws, NEW p \in Peers, NEW q, NEW w, Running(p, q, w),
         NEW r, Receiving(p, q, w, r), NEW report, report = Receiver!send(r)
  PROVE  /\ Reported(p, r, report) /\ ~report.RST
         /\ r.state # "LISTEN" => report.ackno = Sender!wrap(Awaited(r), ISN[p])
<1> DEFINE output == r.reassembler.output
<1>1. /\ r.state # "CLOSED" /\ ~output.error
      /\ r.state # "LISTEN" => r.ins = ISN[p]
      /\ r.state = "LISTEN" => r.reassembler.next_index_to_write = 0
      /\ Sound(r.reassembler, RecvCapacity[Other(p)])
  BY DEF Receiving
<1>2. PICK capacity \in Nat : capacity = RecvCapacity[Other(p)] /\ capacity > 0
  BY OtherFacts, ConnectionAssumption DEF Peers
<1>3. PICK popped \in Nat, l \in Nat :
        /\ popped = output.popped /\ l = Len(output.queue)
        /\ r.reassembler.next_index_to_write = popped + l
  BY ReceivingNumbers
<1>4. l <= capacity /\ output.capacity = capacity
  BY <1>1, <1>2, <1>3 DEF Sound, StreamType, BytesBuffered
<1>5. Receiver!AvailableCapacity(output) = capacity - l
  BY <1>3, <1>4 DEF Receiver!AvailableCapacity
<1>6. MaxWindow \in Nat /\ MaxWindow > 0
  BY ConnectionAssumption
<1>7. PICK window \in Nat :
        /\ window = Receiver!Lesser(Receiver!AvailableCapacity(output), MaxWindow)
        /\ l = 0 => window > 0
  <2>1. PICK free \in Nat : free = capacity - l
    <3>1. capacity - l \in Nat
      BY <1>4
    <3> QED
      BY <3>1
  <2>2. (IF free <= MaxWindow THEN free ELSE MaxWindow) \in Nat
    BY <1>6
  <2>3. l = 0 => free > 0
    BY <1>2, <2>1
  <2>4. l = 0 => (IF free <= MaxWindow THEN free ELSE MaxWindow) > 0
    BY <1>6, <2>3
  <2> QED
    BY <1>5, <2>1, <2>2, <2>4 DEF Receiver!Lesser
<1>8. report = [ackno |-> IF r.state = "LISTEN" THEN NoAckno
                          ELSE Receiver!wrap(Receiver!NextAbsSeqno(r), r.ins),
                window_size |-> window, RST |-> FALSE]
  BY <1>1, <1>7, Zenon DEF Receiver!send, Receiver!Output
<1>9. CASE r.state = "LISTEN"
  <2>1. report = [ackno |-> NoAckno, window_size |-> window, RST |-> FALSE]
    BY <1>8, <1>9
  <2>2. l = 0
    BY <1>1, <1>3, <1>9
  <2>3. window > 0
    BY <1>7, <2>2
  <2>4. Reported(p, r, report)
    BY <2>1, <2>3, Zenon DEF Reported
  <2> QED
    BY <1>9, <2>1, <2>4
<1>10. CASE r.state # "LISTEN"
  <2>1. Awaited(r) = Receiver!NextAbsSeqno(r)
    BY <1>10 DEF Awaited
  <2>2. Receiver!wrap(Awaited(r), ISN[p]) = Sender!wrap(Awaited(r), ISN[p])
    BY SameWrap
  <2>3. report = [ackno |-> Sender!wrap(Awaited(r), ISN[p]), window_size |-> window,
                  RST |-> FALSE]
    BY <1>1, <1>8, <1>10, <2>1, <2>2
  <2>4. Awaited(r) \in 1..Awaited(r)
    <3>1. PICK n \in Nat : n = Awaited(r)
      BY ReceivingNumbers, RunningNumbers
    <3>2. Awaited(r) = 1 + r.reassembler.next_index_to_write + One(output.closed)
      BY <1>10, ReceivingNumbers
    <3>3. n >= 1
      BY <1>3, <3>1, <3>2 DEF One
    <3> QED
      BY <3>1, <3>3
  <2>5. Reported(p, r, report)
    BY <2>3, <2>4, Zenon DEF Reported
  <2> QED
    BY <1>10, <2>3, <2>5
<1> QED
  BY <1>9, <1>10

(* What has been reported stays reported.                                  *)
LEMMA ReportedRemains ==
  ASSUME NEW p, NEW r, NEW t, Awaited(r) \in Nat, Awaited(t) \in Nat,
         Awaited(r) <= Awaited(t), NEW report, Reported(p, r, report)
  PROVE  Reported(p, t, report)
<1>1. 1..Awaited(r) \subseteq 1..Awaited(t)
  OBVIOUS
<1> QED
  BY <1>1 DEF Reported

(* The sender of peer p hears what the other has reported, and pushes.     *)
LEMMA SenderHears ==
  ASSUME Laws, NEW p \in Peers, NEW q, NEW w, Running(p, q, w),
         NEW r, Receiving(p, q, w, r), NEW report, Reported(p, r, report),
         Oldest(q) <= Awaited(r),
         NEW pushed, pushed = Sender!push(Sender!receive(q, report))
  PROVE  /\ Speaks(p, pushed.s, w, pushed.sent)
         /\ pushed.s.syn_sent
         /\ Onward(pushed.s, q) /\ pushed.s.input.closed = q.input.closed
         /\ Oldest(pushed.s) <= Awaited(r)
         /\ q.fin_sent /\ DOMAIN q.unacked = {} => DOMAIN pushed.s.unacked = {}
         /\ q.fin_sent /\ report.ackno = Sender!wrap(w + 2, ISN[p]) =>
              DOMAIN pushed.s.unacked = {}
<1>1. PICK window \in Nat :
        \/ /\ window > 0
           /\ report = [ackno |-> NoAckno, window_size |-> window, RST |-> FALSE]
        \/ \E n \in 1..Awaited(r) :
             report = [ackno |-> Sender!wrap(n, ISN[p]), window_size |-> window, RST |-> FALSE]
  BY DEF Reported
<1>2. /\ q.next_abs_seqno \in 0..Half /\ w + 2 \in 0..Half /\ Half \in Nat
      /\ Awaited(r) \in 0..q.next_abs_seqno
      /\ q.fin_sent => q.next_abs_seqno = w + 2
  BY ShortNumbers, HalfTwice, ReceivingNumbers, RunningNumbers
<1>3. \A n \in 0..Half : Sender!wrap(n, ISN[p]) = Receiver!wrap(n, ISN[p])
  BY SameWrap
<1>4. CASE window > 0 /\ report = [ackno |-> NoAckno, window_size |-> window, RST |-> FALSE]
  <2>1. /\ Speaks(p, pushed.s, w, pushed.sent)
        /\ pushed.s.syn_sent /\ After(pushed.s, q)
    BY <1>4, SilenceRuns
  <2>2. Onward(pushed.s, q) /\ pushed.s.input.closed = q.input.closed /\ Oldest(pushed.s) = Oldest(q)
    BY <2>1 DEF After
  <2>3. ASSUME q.fin_sent, DOMAIN q.unacked = {}
        PROVE  DOMAIN pushed.s.unacked = {}
    <3>1. Running(p, pushed.s, w)
      BY <2>1 DEF Speaks
    <3>2. pushed.s.fin_sent
      BY <2>2, <2>3 DEF Onward
    <3>3. Oldest(q) = w + 2 /\ pushed.s.next_abs_seqno = w + 2
      BY <1>2, <2>3, <3>1, <3>2, RunningNumbers
    <3> QED
      BY <2>2, <3>1, <3>3, RunningNumbers
  <2>4. report.ackno # Sender!wrap(w + 2, ISN[p])
    <3>1. report.ackno = NoAckno
      BY <1>4
    <3>2. Receiver!wrap(w + 2, ISN[p]) \in 0..(Mod - 1)
      BY <1>2, Unwraps
    <3> QED
      BY <1>2, <1>3, <3>1, <3>2, ConnectionAssumption
  <2> QED
    BY <2>1, <2>2, <2>3, <2>4
<1>5. CASE \E n \in 1..Awaited(r) :
             report = [ackno |-> Sender!wrap(n, ISN[p]), window_size |-> window, RST |-> FALSE]
  <2>1. PICK n \in 1..Awaited(r) :
             report = [ackno |-> Sender!wrap(n, ISN[p]), window_size |-> window, RST |-> FALSE]
    BY <1>5
  <2>2. n \in 1..q.next_abs_seqno /\ q.next_abs_seqno <= Half /\ n \in 0..Half /\ n <= Awaited(r)
    BY <1>2
  <2>3. /\ Speaks(p, pushed.s, w, pushed.sent)
        /\ Onward(pushed.s, q) /\ pushed.s.input.closed = q.input.closed
        /\ Oldest(pushed.s) = Oldest(q) \/ Oldest(pushed.s) <= n
        /\ q.fin_sent /\ (n = q.next_abs_seqno \/ DOMAIN q.unacked = {}) =>
             DOMAIN pushed.s.unacked = {}
    BY <2>1, <2>2, ReportRuns
  <2>4. Oldest(pushed.s) <= Awaited(r)
    <3>1. Running(p, pushed.s, w)
      BY <2>3 DEF Speaks
    <3>2. PICK old \in Nat, a \in Nat : old = Oldest(pushed.s) /\ a = Awaited(r)
      BY <1>2, <3>1, RunningNumbers
    <3>3. old = Oldest(q) \/ old <= n
      BY <2>3, <3>2
    <3> QED
      BY <2>2, <3>2, <3>3
  <2>5. ASSUME q.fin_sent, report.ackno = Sender!wrap(w + 2, ISN[p])
        PROVE  DOMAIN pushed.s.unacked = {}
    <3>1. Sender!wrap(n, ISN[p]) = Sender!wrap(w + 2, ISN[p])
      BY <2>1, <2>5
    <3>2. Receiver!wrap(n, ISN[p]) = Receiver!wrap(w + 2, ISN[p])
      BY <1>2, <1>3, <2>2, <3>1
    <3>3. 0 \in 0..Half
      BY <1>2
    <3>4. n = w + 2
      BY <1>2, <2>2, <3>2, <3>3, Unwraps
    <3> QED
      BY <1>2, <2>3, <2>5, <3>4
  <2>6. pushed.s.syn_sent
    <3>1. q.syn_sent
      BY <2>2, RunningNumbers
    <3> QED
      BY <2>3, <3>1 DEF Onward
  <2> QED
    BY <2>3, <2>4, <2>5, <2>6
<1> QED
  BY <1>1, <1>4, <1>5

-----------------------------------------------------------------------------
(* A peer, by its fields.                                                  *)
IsPeer(x) ==
  /\ x = [sender |-> x.sender, receiver |-> x.receiver, need_send |-> x.need_send,
          linger |-> x.linger, since_receipt |-> x.since_receipt]
  /\ x.need_send \in BOOLEAN /\ x.linger \in BOOLEAN /\ x.since_receipt \in Nat

(* The messages `sent' are segments of p, whose peer is y and which has    *)
(* written w bytes, with what its receiver says now.                       *)
Sends(p, y, w, sent) ==
  \A i \in DOMAIN sent :
    /\ sent[i] = [sender |-> sent[i].sender, receiver |-> Receiver!send(y.receiver)]
    /\ Segment(p, y.sender, w, sent[i].sender)

(* It is a sequence of something.                                          *)
IsSequence(sent) == \E S : sent \in Seq(S)

(* After a step of p's, its peer has sender t and receiver r and lingers   *)
(* or not, and what the step sends is all that.                            *)
Stepped(p, step, t, r, linger, w) ==
  /\ IsPeer(step.peer)
  /\ step.peer.sender = t /\ step.peer.receiver = r /\ step.peer.linger = linger
  /\ Sends(p, step.peer, w, step.sent) /\ IsSequence(step.sent)

(* What a sender's messages are.                                           *)
LEMMA SpeaksFacts ==
  ASSUME NEW p \in Peers, NEW t, NEW w, NEW sent, Speaks(p, t, w, sent)
  PROVE  /\ Running(p, t, w)
         /\ Len(sent) \in Nat /\ DOMAIN sent = 1..Len(sent)
         /\ \A i \in DOMAIN sent : Segment(p, t, w, sent[i])
<1>1. sent \in Seq(Messages(p))
  BY DEF Speaks
<1>2. Len(sent) \in Nat /\ DOMAIN sent = 1..Len(sent)
  BY <1>1
<1> QED
  BY <1>2 DEF Speaks

(* Each message leaves with what the receiver has to say.                  *)
LEMMA TransmitFacts ==
  ASSUME NEW p \in Peers, NEW x, IsPeer(x), NEW w, NEW messages,
         Len(messages) \in Nat, DOMAIN messages = 1..Len(messages),
         \A i \in DOMAIN messages : Segment(p, x.sender, w, messages[i]),
         NEW step, step = Transmit(x, messages)
  PROVE  Stepped(p, step, x.sender, x.receiver, x.linger, w)
<1> DEFINE y == [x EXCEPT !.need_send = @ /\ messages = << >>]
           said == [i \in DOMAIN messages |->
                      [sender |-> messages[i], receiver |-> Receiver!send(x.receiver)]]
<1>1. step.peer = y /\ step.sent = said
  BY DEF Transmit
<1>2. PICK need \in BOOLEAN : need = (x.need_send /\ messages = << >>)
  OBVIOUS
<1>3. y = [sender |-> x.sender, receiver |-> x.receiver, need_send |-> need,
           linger |-> x.linger, since_receipt |-> x.since_receipt]
  <2>1. y = [x EXCEPT !.need_send = need]
    BY <1>2
  <2> QED
    BY <2>1 DEF IsPeer
<1> HIDE DEF y
<1>4. IsPeer(y) /\ y.sender = x.sender /\ y.receiver = x.receiver /\ y.linger = x.linger
  BY <1>3 DEF IsPeer
<1>5. PICK report : report = Receiver!send(x.receiver)
  OBVIOUS
<1>6. PICK n \in Nat : DOMAIN messages = 1..n
  OBVIOUS
<1>7. said = [i \in 1..n |-> [sender |-> messages[i], receiver |-> report]]
  BY <1>5, <1>6, Zenon
<1>8. ASSUME NEW i \in DOMAIN said
      PROVE  /\ said[i] = [sender |-> said[i].sender, receiver |-> Receiver!send(y.receiver)]
             /\ Segment(p, y.sender, w, said[i].sender)
  <2>1. i \in DOMAIN messages
    BY <1>6, <1>7, <1>8
  <2>2. said[i] = [sender |-> messages[i], receiver |-> report]
    BY <1>6, <1>7, <2>1, Zenon
  <2>3. said[i].sender = messages[i] /\ Segment(p, x.sender, w, messages[i])
    BY <2>1, <2>2
  <2>4. Receiver!send(y.receiver) = report
    BY <1>4, <1>5
  <2>5. Segment(p, y.sender, w, said[i].sender)
    BY <1>4, <2>3
  <2>6. said[i] = [sender |-> said[i].sender, receiver |-> report]
    BY <2>2, <2>3
  <2> QED
    BY <2>4, <2>5, <2>6
<1>9. IsSequence(said)
  <2> DEFINE S == {said[i] : i \in 1..n}
             e(i) == [sender |-> messages[i], receiver |-> report]
  <2>1. said = [i \in 1..n |-> e(i)]
    BY <1>7, Zenon
  <2>2. \A i \in 1..n : e(i) \in S
    BY <2>1, Zenon
  <2> HIDE DEF S, e
  <2>3. [i \in 1..n |-> e(i)] \in Seq(S)
    BY <2>2, IsASeq
  <2> QED
    BY <2>1, <2>3, Zenon DEF IsSequence
<1> HIDE DEF said
<1>10. Sends(p, y, w, said)
  BY <1>8 DEF Sends
<1> QED
  BY <1>1, <1>4, <1>9, <1>10 DEF Stepped

(* A peer's push().                                                        *)
LEMMA PushingFacts ==
  ASSUME NEW p \in Peers, NEW x, IsPeer(x), NEW w, NEW pushed,
         pushed = Sender!push(x.sender), Speaks(p, pushed.s, w, pushed.sent),
         NEW step, step = push(x)
  PROVE  Stepped(p, step, pushed.s, x.receiver, x.linger, w)
<1> DEFINE y == [x EXCEPT !.sender = pushed.s]
<1>1. y = [sender |-> pushed.s, receiver |-> x.receiver, need_send |-> x.need_send,
           linger |-> x.linger, since_receipt |-> x.since_receipt]
  BY DEF IsPeer
<1>2. step = Transmit(y, pushed.sent)
  BY DEF push, PeerPush
<1> HIDE DEF y
<1>3. IsPeer(y) /\ y.sender = pushed.s /\ y.receiver = x.receiver /\ y.linger = x.linger
  BY <1>1 DEF IsPeer
<1>4. /\ Len(pushed.sent) \in Nat /\ DOMAIN pushed.sent = 1..Len(pushed.sent)
      /\ \A i \in DOMAIN pushed.sent : Segment(p, y.sender, w, pushed.sent[i])
  BY <1>3, SpeaksFacts
<1>5. Stepped(p, step, y.sender, y.receiver, y.linger, w)
  BY <1>2, <1>3, <1>4, TransmitFacts
<1> QED
  BY <1>3, <1>5

(* A peer's tick().                                                        *)
LEMMA TickFacts ==
  ASSUME NEW p \in Peers, NEW x, IsPeer(x), NEW w, NEW elapsed \in Nat, NEW ticked,
         ticked = Sender!tick(x.sender, elapsed), Speaks(p, ticked.s, w, ticked.sent),
         NEW step, step = tick(x, elapsed)
  PROVE  Stepped(p, step, ticked.s, x.receiver, x.linger, w)
<1>1. PICK since \in Nat : since = Lesser(x.since_receipt + elapsed, LingerTime)
  BY ConnectionAssumption DEF Lesser, IsPeer
<1> DEFINE y == [x EXCEPT !.sender = ticked.s,
                          !.since_receipt = Lesser(@ + elapsed, LingerTime)]
<1>2. y = [sender |-> ticked.s, receiver |-> x.receiver, need_send |-> x.need_send,
           linger |-> x.linger, since_receipt |-> since]
  <2>1. PICK a : a = [x EXCEPT !.sender = ticked.s]
    OBVIOUS
  <2>2. a = [sender |-> ticked.s, receiver |-> x.receiver, need_send |-> x.need_send,
             linger |-> x.linger, since_receipt |-> x.since_receipt]
    BY <2>1 DEF IsPeer
  <2>3. y = [a EXCEPT !.since_receipt = Lesser(@ + elapsed, LingerTime)]
    BY <2>1
  <2>4. y = [a EXCEPT !.since_receipt = since]
    BY <1>1, <2>2, <2>3
  <2> HIDE DEF y
  <2> QED
    BY <2>2, <2>4
<1>3. step = Transmit(y, ticked.sent)
  BY DEF tick, PeerTick
<1> HIDE DEF y
<1>4. IsPeer(y) /\ y.sender = ticked.s /\ y.receiver = x.receiver /\ y.linger = x.linger
  BY <1>2 DEF IsPeer
<1>5. /\ Len(ticked.sent) \in Nat /\ DOMAIN ticked.sent = 1..Len(ticked.sent)
      /\ \A i \in DOMAIN ticked.sent : Segment(p, y.sender, w, ticked.sent[i])
  BY <1>4, SpeaksFacts
<1>6. Stepped(p, step, y.sender, y.receiver, y.linger, w)
  BY <1>3, <1>4, <1>5, TransmitFacts
<1> QED
  BY <1>4, <1>6

(* What push() did not answer is answered.                                 *)
LEMMA ReplyFacts ==
  ASSUME Laws, NEW p \in Peers, NEW pushed, NEW t, NEW r, NEW linger, NEW w,
         Stepped(p, pushed, t, r, linger, w), Running(p, t, w), t.syn_sent,
         NEW step, step = Reply(pushed)
  PROVE  Stepped(p, step, t, r, linger, w)
<1>1. CASE ~pushed.peer.need_send
  BY <1>1 DEF Reply
<1>2. CASE pushed.peer.need_send
  <2>1. PICK x : x = pushed.peer
    OBVIOUS
  <2>2. IsPeer(x) /\ x.sender = t /\ x.receiver = r /\ x.linger = linger
    BY <2>1 DEF Stepped
  <2>3. PICK message, messages :
          message = Sender!make_empty_message(x.sender) /\ messages = << message >>
    OBVIOUS
  <2>4. PICK empty : empty = Transmit(x, messages)
    OBVIOUS
  <2>5. step.peer = empty.peer /\ step.sent = pushed.sent \o empty.sent
    BY <1>2, <2>1, <2>3, <2>4, Zenon DEF Reply
  <2>6. Len(messages) = 1 /\ DOMAIN messages = 1..1 /\ messages[1] = message
    BY <2>3
  <2>7. Segment(p, x.sender, w, message)
    BY <2>2, <2>3, EmptyIsSegment
  <2>8. /\ Len(messages) \in Nat /\ DOMAIN messages = 1..Len(messages)
        /\ \A i \in DOMAIN messages : Segment(p, x.sender, w, messages[i])
    BY <2>6, <2>7
  <2>9. Stepped(p, empty, x.sender, x.receiver, x.linger, w)
    BY <2>2, <2>4, <2>8, TransmitFacts
  <2>10. PICK U, V : pushed.sent \in Seq(U) /\ empty.sent \in Seq(V)
    BY <2>9 DEF Stepped, IsSequence
  <2>11. PICK S : pushed.sent \in Seq(S) /\ empty.sent \in Seq(S)
    <3>1. Seq(U) \subseteq Seq(U \cup V) /\ Seq(V) \subseteq Seq(U \cup V)
      BY SeqMonotonic
    <3> QED
      BY <2>10, <3>1
  <2>12. PICK a \in Seq(S), b \in Seq(S) : a = pushed.sent /\ b = empty.sent
    BY <2>11
  <2>13. PICK both \in Seq(S) : both = a \o b
    BY ConcatProperties
  <2>14. ASSUME NEW i \in DOMAIN both
         PROVE  (\E j \in DOMAIN a : both[i] = a[j]) \/ (\E j \in DOMAIN b : both[i] = b[j])
    <3>1. PICK m \in Nat, n \in Nat :
            m = Len(a) /\ n = Len(b) /\ DOMAIN a = 1..m /\ DOMAIN b = 1..n
      BY LenProperties
    <3>2. /\ Len(both) = m + n
          /\ \A k \in 1..(m + n) : both[k] = IF k <= m THEN a[k] ELSE b[k - m]
      BY <2>13, <3>1, ConcatProperties
    <3>3. DOMAIN both = 1..(m + n)
      BY <3>2, LenProperties
    <3>4. CASE i <= m
      BY <3>1, <3>2, <3>3, <3>4
    <3>5. CASE i > m
      <4>1. i - m \in 1..n /\ both[i] = b[i - m]
        BY <3>2, <3>3, <3>5
      <4> QED
        BY <3>1, <4>1
    <3> QED
      BY <3>3, <3>4, <3>5
  <2>15. PICK report : report = Receiver!send(r)
    OBVIOUS
  <2>16. ASSUME NEW e, e \in {a[j] : j \in DOMAIN a} \cup {b[j] : j \in DOMAIN b}
         PROVE  /\ e = [sender |-> e.sender, receiver |-> report]
                /\ Segment(p, t, w, e.sender)
    <3>1. /\ pushed.peer.receiver = r /\ pushed.peer.sender = t
          /\ empty.peer.receiver = r /\ empty.peer.sender = t
      BY <2>2, <2>9 DEF Stepped
    <3>2. CASE e \in {a[j] : j \in DOMAIN a}
      BY <2>12, <2>15, <3>1, <3>2 DEF Stepped, Sends
    <3>3. CASE e \in {b[j] : j \in DOMAIN b}
      BY <2>9, <2>12, <2>15, <3>1, <3>3 DEF Stepped, Sends
    <3> QED
      BY <2>16, <3>2, <3>3
  <2>17. \A i \in DOMAIN both :
           /\ both[i] = [sender |-> both[i].sender, receiver |-> report]
           /\ Segment(p, t, w, both[i].sender)
    BY <2>14, <2>16
  <2>18. /\ IsPeer(step.peer) /\ step.peer.sender = t /\ step.peer.receiver = r
         /\ step.peer.linger = linger
    BY <2>2, <2>5, <2>9 DEF Stepped
  <2>19. step.sent = both
    BY <2>5, <2>12, <2>13
  <2>20. Sends(p, step.peer, w, step.sent)
    BY <2>15, <2>17, <2>18, <2>19 DEF Sends
  <2>21. IsSequence(step.sent)
    BY <2>13, <2>19 DEF IsSequence
  <2> QED
    BY <2>18, <2>20, <2>21 DEF Stepped
<1> QED
  BY <1>1, <1>2

(* A peer's receive().                                                     *)
LEMMA ReceiveFacts ==
  ASSUME Laws, NEW p \in Peers, NEW x, IsPeer(x), active(x), NEW msg, NEW w,
         NEW r, r = Receiver!receive(x.receiver, msg.sender),
         NEW pushed, pushed = Sender!push(Sender!receive(x.sender, msg.receiver)),
         Speaks(p, pushed.s, w, pushed.sent), pushed.s.syn_sent,
         NEW linger,
         linger = (x.linger /\ ~(r.reassembler.output.closed /\ ~IsFinished(pushed.s.input))),
         NEW step, step = receive(x, msg)
  PROVE  Stepped(p, step, pushed.s, r, linger, w)
<1>1. PICK t : t = Sender!receive(x.sender, msg.receiver)
  OBVIOUS
<1>2. PICK heard : heard = [x EXCEPT
                  !.since_receipt = 0,
                  !.need_send = @ \/ MustReply(x, msg),
                  !.receiver = Receiver!receive(@, msg.sender),
                  !.sender = Sender!receive(@, msg.receiver)]
  OBVIOUS
<1>3. PICK need \in BOOLEAN : need = (x.need_send \/ MustReply(x, msg))
  OBVIOUS
<1>4. heard = [sender |-> t, receiver |-> r, need_send |-> need,
               linger |-> x.linger, since_receipt |-> 0]
  <2>1. PICK a : a = [x EXCEPT !.since_receipt = 0]
    OBVIOUS
  <2>2. a = [sender |-> x.sender, receiver |-> x.receiver, need_send |-> x.need_send,
             linger |-> x.linger, since_receipt |-> 0]
    BY <2>1 DEF IsPeer
  <2>3. PICK b : b = [a EXCEPT !.need_send = @ \/ MustReply(x, msg)]
    OBVIOUS
  <2>4. b = [sender |-> x.sender, receiver |-> x.receiver, need_send |-> need,
             linger |-> x.linger, since_receipt |-> 0]
    BY <1>3, <2>2, <2>3
  <2>5. PICK c : c = [b EXCEPT !.receiver = Receiver!receive(@, msg.sender)]
    OBVIOUS
  <2>6. c = [sender |-> x.sender, receiver |-> r, need_send |-> need,
             linger |-> x.linger, since_receipt |-> 0]
    BY <2>4, <2>5
  <2>7. heard = [c EXCEPT !.sender = Sender!receive(@, msg.receiver)]
    BY <1>2, <2>1, <2>3, <2>5
  <2> QED
    BY <1>1, <2>6, <2>7
<1>5. /\ IsPeer(heard) /\ heard.sender = t /\ heard.receiver = r
      /\ heard.linger = x.linger /\ x.linger \in BOOLEAN
  BY <1>3, <1>4 DEF IsPeer
<1>6. PICK answered : answered = push(heard)
  OBVIOUS
<1>7. Stepped(p, answered, pushed.s, r, x.linger, w)
  <2>1. pushed = Sender!push(heard.sender)
    BY <1>1, <1>5
  <2>2. Stepped(p, answered, pushed.s, heard.receiver, heard.linger, w)
    BY <1>5, <1>6, <2>1, PushingFacts
  <2> QED
    BY <1>5, <2>2
<1>8. PICK replied : replied = Reply(answered)
  OBVIOUS
<1>9. Stepped(p, replied, pushed.s, r, x.linger, w)
  BY <1>7, <1>8, SpeaksFacts, ReplyFacts
<1>10. PICK y : y = replied.peer
  OBVIOUS
<1>11. step = [replied EXCEPT !.peer = SettleLinger(@)]
  BY <1>2, <1>6, <1>8, Zenon DEF receive
<1>12. replied = [peer |-> y, sent |-> replied.sent]
  <2>1. \E a, b : replied = [peer |-> a, sent |-> b]
    <3>1. \E a, b : answered = [peer |-> a, sent |-> b]
      BY <1>6 DEF push, PeerPush, Transmit
    <3> QED
      BY <1>8, <3>1 DEF Reply, Transmit
  <2> QED
    BY <1>10, <2>1
<1>13. step.peer = SettleLinger(y) /\ step.sent = replied.sent
  BY <1>11, <1>12
<1>14. IsPeer(y) /\ y.sender = pushed.s /\ y.receiver = r /\ y.linger = x.linger
       /\ Sends(p, y, w, replied.sent) /\ IsSequence(replied.sent)
  BY <1>9, <1>10 DEF Stepped
<1>15. SettleLinger(y) = [sender |-> y.sender, receiver |-> y.receiver,
                          need_send |-> y.need_send, linger |-> linger,
                          since_receipt |-> y.since_receipt]
  <2>1. (inbound(y).closed /\ ~IsFinished(outbound(y))) =
          (r.reassembler.output.closed /\ ~IsFinished(pushed.s.input))
    BY <1>14 DEF inbound, outbound
  <2>2. SettleLinger(y) = [y EXCEPT !.linger = linger]
    BY <1>14, <2>1 DEF SettleLinger, IsPeer
  <2> QED
    BY <1>14, <2>2 DEF IsPeer
<1>16. linger \in BOOLEAN
  OBVIOUS
<1>17. /\ IsPeer(step.peer) /\ step.peer.sender = pushed.s
       /\ step.peer.receiver = r /\ step.peer.linger = linger
  BY <1>13, <1>14, <1>15, <1>16 DEF IsPeer
<1>18. Sends(p, step.peer, w, step.sent)
  BY <1>13, <1>14, <1>17 DEF Sends
<1> QED
  BY <1>13, <1>14, <1>17, <1>18 DEF Stepped

(* Message m is on its way from p, whose peer is x and which has written w *)
(* bytes.                                                                  *)
Says(p, x, w, m) ==
  /\ m = [sender |-> m.sender, receiver |-> m.receiver]
  /\ Segment(p, x.sender, w, m.sender)
  /\ Reported(Other(p), x.receiver, m.receiver)

(* The stream of p, whose peer is x and which has written w bytes: the     *)
(* other's peer is y, its application has got `got', and ms are on their   *)
(* way to it.  What y waits for has not been forgotten by x.               *)
OneWay(p, x, y, w, got, ms) ==
  /\ Running(p, x.sender, w)
  /\ Receiving(p, x.sender, w, y.receiver)
  /\ Oldest(x.sender) <= Awaited(y.receiver)
  /\ got = [i \in 1..y.receiver.reassembler.output.popped |-> i]
  /\ \A m \in ms : Says(p, x, w, m)

(* Once p, whose peer is x, need not linger: it has all that the other,    *)
(* whose peer is y, has written, v bytes; whatever tells the other of its  *)
(* end tells it that too; and once the other knows, it waits for nothing.  *)
Parting(p, x, y, v, ms) ==
  ~x.linger =>
    /\ x.receiver.reassembler.output.closed
    /\ \A m \in ms :
         m.sender.FIN => m.receiver.ackno = Sender!wrap(v + 2, ISN[Other(p)])
    /\ y.receiver.state = "FIN_RECEIVED" => DOMAIN y.sender.unacked = {}

(* The two peers and the network between them.                             *)
Consistent(peers, nets, wrote, got) ==
  /\ peers = [p \in Peers |-> peers[p]] /\ nets = [p \in Peers |-> nets[p]]
  /\ wrote = [p \in Peers |-> wrote[p]] /\ got = [p \in Peers |-> got[p]]
  /\ \A p \in Peers :
       /\ IsPeer(peers[p])
       /\ OneWay(p, peers[p], peers[Other(p)], wrote[p], got[Other(p)], nets[Other(p)])
       /\ Parting(p, peers[p], peers[Other(p)], wrote[Other(p)], nets[Other(p)])

(* The inductive invariant.                                                *)
IInv == Consistent(peer, net, written, received)

(* A receiver goes on receiving while its sender goes on.                  *)
LEMMA ReceivingRemains ==
  ASSUME Laws, NEW p \in Peers, NEW q, NEW w, Running(p, q, w), NEW t, NEW v, Running(p, t, v),
         Onward(t, q), q.fin_sent => v = w, NEW r, Receiving(p, q, w, r)
  PROVE  Receiving(p, t, v, r)
<1>1. q.input.popped \in Nat /\ t.input.popped \in Nat /\ q.input.popped <= t.input.popped
  BY RunningNumbers DEF Onward
<1>2. \A i \in Nat : Reached(r.reassembler, i) => i < t.input.popped
  <2>1. SUFFICES ASSUME NEW i \in Nat, Reached(r.reassembler, i)
                 PROVE  i < t.input.popped
    OBVIOUS
  <2>2. i < q.input.popped
    BY <2>1 DEF Receiving
  <2> QED
    BY <1>1, <2>2
<1>3. (q.syn_sent => t.syn_sent) /\ (q.fin_sent => t.fin_sent)
  BY DEF Onward
<1> QED
  BY <1>2, <1>3 DEF Receiving

(* What p has said it may still say when it has gone on.                   *)
LEMMA SaysRemains ==
  ASSUME Laws, NEW p \in Peers, NEW x, NEW w, Running(p, x.sender, w),
         NEW z, NEW v, Running(p, z.sender, v), Onward(z.sender, x.sender),
         x.sender.fin_sent => v = w,
         Awaited(x.receiver) \in Nat, Awaited(z.receiver) \in Nat,
         Awaited(x.receiver) <= Awaited(z.receiver),
         NEW m, Says(p, x, w, m)
  PROVE  Says(p, z, v, m)
<1>1. Segment(p, z.sender, v, m.sender)
  BY SegmentRemains DEF Says
<1>2. Reported(Other(p), z.receiver, m.receiver)
  BY ReportedRemains DEF Says
<1> QED
  BY <1>1, <1>2 DEF Says

(* What a step of p's sends is said: no segment has the RST flag.          *)
LEMMA SendsSays ==
  ASSUME Laws, NEW p \in Peers, NEW step, NEW t, NEW r, NEW linger, NEW w,
         Stepped(p, step, t, r, linger, w), Running(p, t, w),
         NEW q, NEW v, Running(Other(p), q, v), Receiving(Other(p), q, v, r),
         NEW m \in { OnWire(step.sent[i]) : i \in DOMAIN step.sent }
  PROVE  Says(p, step.peer, w, m) /\ m.receiver = Receiver!send(r)
<1>1. PICK i \in DOMAIN step.sent : m = OnWire(step.sent[i])
  OBVIOUS
<1>2. PICK s, a, report : s = step.sent[i] /\ a = s.sender /\ report = Receiver!send(r)
  OBVIOUS
<1>3. /\ s = [sender |-> a, receiver |-> report]
      /\ step.peer.sender = t /\ step.peer.receiver = r
      /\ Segment(p, t, w, a)
  BY <1>2 DEF Stepped, Sends
<1>4. Other(p) \in Peers
  BY OtherFacts
<1>5. Reported(Other(p), r, report) /\ ~report.RST
  BY <1>2, <1>4, SendReports
<1>6. report = [ackno |-> report.ackno, window_size |-> report.window_size, RST |-> FALSE]
  BY <1>5 DEF Reported
<1>7. a = [seqno |-> a.seqno, SYN |-> a.SYN, payload |-> a.payload,
           FIN |-> a.FIN, RST |-> FALSE]
  BY <1>3, SegmentCarries
<1>8. m = s
  <2>1. (s.sender.RST \/ s.receiver.RST) = FALSE
    BY <1>3, <1>6, <1>7
  <2>2. OnWire(s) = [sender |-> [s.sender EXCEPT !.RST = FALSE],
                     receiver |-> [s.receiver EXCEPT !.RST = FALSE]]
    BY <2>1, Zenon DEF OnWire
  <2>3. [a EXCEPT !.RST = FALSE] = a
    BY <1>7
  <2>4. [report EXCEPT !.RST = FALSE] = report
    BY <1>6
  <2>5. s.sender = a /\ s.receiver = report
    BY <1>3
  <2>6. OnWire(s) = [sender |-> a, receiver |-> report]
    BY <2>2, <2>3, <2>4, <2>5
  <2> QED
    BY <1>1, <1>2, <1>3, <2>6
<1> QED
  BY <1>2, <1>3, <1>5, <1>8 DEF Says

(* A step of p's, after which its sender is t, its receiver r, and it has  *)
(* written v bytes.  It needs all this to keep the connection consistent.  *)
Allowed(p, peers, wrote, t, r, linger, v) ==
  LET x == peers[p] o == Other(p) y == peers[o] IN
  /\ Running(p, t, v) /\ Onward(t, x.sender)
  /\ x.sender.fin_sent => v = wrote[p]
  /\ Receiving(o, y.sender, wrote[o], r)
  /\ Awaited(x.receiver) <= Awaited(r)
  /\ r.reassembler.output.popped = x.receiver.reassembler.output.popped
  /\ Oldest(t) <= Awaited(y.receiver)
  /\ ~linger => r.reassembler.output.closed /\ (~x.linger \/ ~t.fin_sent)
  /\ ~y.linger /\ r.state = "FIN_RECEIVED" => DOMAIN t.unacked = {}

(* And this, of its peer z and of the messages that are then on their way. *)
Act(p, peers, nets, wrote, z, v, more) ==
  /\ IsPeer(z)
  /\ Allowed(p, peers, wrote, z.sender, z.receiver, z.linger, v)
  /\ more = [q \in Peers |-> more[q]] /\ more[p] \subseteq nets[p]
  /\ \A m \in more[Other(p)] :
       \/ m \in nets[Other(p)]
       \/ Says(p, z, v, m) /\ m.receiver = Receiver!send(z.receiver)

(* Then it does.                                                           *)
LEMMA ActKeeps ==
  ASSUME Laws, NEW peers, NEW nets, NEW wrote, NEW got, Consistent(peers, nets, wrote, got),
         NEW p \in Peers, NEW z, NEW v, NEW more, Act(p, peers, nets, wrote, z, v, more)
  PROVE  Consistent([peers EXCEPT ![p] = z], more, [wrote EXCEPT ![p] = v], got)
<1>1. PICK o \in Peers : o = Other(p) /\ o # p /\ Other(o) = p /\ \A q \in Peers : q = p \/ q = o
  BY OtherFacts
<1>2. PICK x, y, w, u : x = peers[p] /\ y = peers[o] /\ w = wrote[p] /\ u = wrote[o]
  OBVIOUS
<1>3. /\ OneWay(p, x, y, w, got[o], nets[o]) /\ OneWay(o, y, x, u, got[p], nets[p])
      /\ Parting(p, x, y, u, nets[o]) /\ Parting(o, y, x, w, nets[p])
      /\ IsPeer(x) /\ IsPeer(y)
  BY <1>1, <1>2 DEF Consistent
<1>4. /\ IsPeer(z)
      /\ Running(p, z.sender, v) /\ Onward(z.sender, x.sender)
      /\ x.sender.fin_sent => v = w
      /\ Receiving(o, y.sender, u, z.receiver)
      /\ Awaited(x.receiver) <= Awaited(z.receiver)
      /\ z.receiver.reassembler.output.popped = x.receiver.reassembler.output.popped
      /\ Oldest(z.sender) <= Awaited(y.receiver)
      /\ more = [q \in Peers |-> more[q]] /\ more[p] \subseteq nets[p]
      /\ \A m \in more[o] :
           m \in nets[o] \/ (Says(p, z, v, m) /\ m.receiver = Receiver!send(z.receiver))
      /\ ~z.linger =>
           /\ z.receiver.reassembler.output.closed
           /\ ~x.linger \/ ~z.sender.fin_sent
      /\ ~y.linger /\ z.receiver.state = "FIN_RECEIVED" => DOMAIN z.sender.unacked = {}
  BY <1>1, <1>2 DEF Act, Allowed
<1>5. /\ Running(p, x.sender, w) /\ Receiving(p, x.sender, w, y.receiver)
      /\ Oldest(x.sender) <= Awaited(y.receiver)
      /\ got[o] = [i \in 1..y.receiver.reassembler.output.popped |-> i]
      /\ \A m \in nets[o] : Says(p, x, w, m)
  BY <1>3 DEF OneWay
<1>6. /\ Running(o, y.sender, u) /\ Receiving(o, y.sender, u, x.receiver)
      /\ Oldest(y.sender) <= Awaited(x.receiver)
      /\ got[p] = [i \in 1..x.receiver.reassembler.output.popped |-> i]
      /\ \A m \in nets[p] : Says(o, y, u, m)
  BY <1>3 DEF OneWay
<1>7. /\ Awaited(x.receiver) \in Nat /\ Awaited(z.receiver) \in Nat
      /\ Oldest(y.sender) \in Nat
  <2>1. /\ Awaited(x.receiver) \in 0..y.sender.next_abs_seqno
        /\ Awaited(z.receiver) \in 0..y.sender.next_abs_seqno
    BY <1>4, <1>6, ReceivingNumbers
  <2>2. y.sender.next_abs_seqno \in Nat /\ Oldest(y.sender) \in 0..y.sender.next_abs_seqno
    BY <1>6, RunningNumbers
  <2> QED
    BY <2>1, <2>2
<1>8. \A m \in more[o] : Says(p, z, v, m)
  BY <1>4, <1>5, <1>7, SaysRemains
<1>9. OneWay(p, z, y, v, got[o], more[o])
  <2>1. Receiving(p, z.sender, v, y.receiver)
    BY <1>4, <1>5, ReceivingRemains
  <2> QED
    BY <1>4, <1>5, <1>8, <2>1 DEF OneWay
<1>10. OneWay(o, y, z, u, got[p], more[p])
  <2>1. Oldest(y.sender) <= Awaited(z.receiver)
    BY <1>4, <1>6, <1>7
  <2>2. \A m \in more[p] : Says(o, y, u, m)
    BY <1>4, <1>6
  <2> QED
    BY <1>4, <1>6, <2>1, <2>2 DEF OneWay
<1>11. Parting(p, z, y, u, more[o])
  <2>1. SUFFICES ASSUME ~z.linger
                 PROVE  /\ z.receiver.reassembler.output.closed
                        /\ \A m \in more[o] : m.sender.FIN =>
                             m.receiver.ackno = Sender!wrap(u + 2, ISN[Other(p)])
                        /\ y.receiver.state = "FIN_RECEIVED" => DOMAIN y.sender.unacked = {}
    BY DEF Parting
  <2>2. z.receiver.reassembler.output.closed /\ (~x.linger \/ ~z.sender.fin_sent)
    BY <1>4, <2>1
  <2>3. Receiver!send(z.receiver).ackno = Sender!wrap(u + 2, ISN[o])
    <3>1. z.receiver.state = "FIN_RECEIVED" /\ Awaited(z.receiver) = u + 2
      BY <1>4, <1>6, <2>2, ReceivingNumbers
    <3> QED
      BY <1>4, <1>6, <3>1, SendReports
  <2>4. CASE ~x.linger
    BY <1>1, <1>3, <1>4, <2>2, <2>3, <2>4 DEF Parting
  <2>5. CASE x.linger
    <3>1. ~z.sender.fin_sent
      BY <2>2, <2>5
    <3>2. \A m \in more[o] : ~m.sender.FIN
      <4>1. SUFFICES ASSUME NEW m \in more[o] PROVE ~m.sender.FIN
        OBVIOUS
      <4>2. Segment(p, z.sender, v, m.sender)
        BY <1>8, <4>1 DEF Says
      <4>3. PICK k \in Nat, f \in Nat : Carries(p, z.sender, v, m.sender, k, f)
        BY <1>4, <4>2, SegmentCarries
      <4> QED
        BY <3>1, <4>3 DEF Carries
    <3>3. y.receiver.state # "FIN_RECEIVED"
      <4>1. ~x.sender.fin_sent
        BY <1>4, <3>1 DEF Onward
      <4> QED
        BY <1>5, <4>1 DEF Receiving
    <3> QED
      BY <2>2, <3>2, <3>3
  <2> QED
    BY <2>4, <2>5
<1>12. Parting(o, y, z, v, more[p])
  <2>1. SUFFICES ASSUME ~y.linger
                 PROVE  /\ y.receiver.reassembler.output.closed
                        /\ \A m \in more[p] : m.sender.FIN =>
                             m.receiver.ackno = Sender!wrap(v + 2, ISN[Other(o)])
                        /\ z.receiver.state = "FIN_RECEIVED" => DOMAIN z.sender.unacked = {}
    BY DEF Parting
  <2>2. /\ y.receiver.reassembler.output.closed
        /\ \A m \in nets[p] : m.sender.FIN =>
             m.receiver.ackno = Sender!wrap(w + 2, ISN[Other(o)])
    BY <1>3, <2>1 DEF Parting
  <2>3. v = w
    <3>1. x.sender.fin_sent
      BY <1>5, <2>2, ReceivingNumbers
    <3> QED
      BY <1>4, <3>1
  <2> QED
    BY <1>4, <2>1, <2>2, <2>3
<1>13. PICK peers2, wrote2 :
         peers2 = [peers EXCEPT ![p] = z] /\ wrote2 = [wrote EXCEPT ![p] = v]
  OBVIOUS
<1>14. /\ peers = [q \in Peers |-> peers[q]] /\ wrote = [q \in Peers |-> wrote[q]]
       /\ got = [q \in Peers |-> got[q]]
  BY DEF Consistent
<1>15. /\ peers2 = [q \in Peers |-> peers2[q]] /\ wrote2 = [q \in Peers |-> wrote2[q]]
       /\ peers2[p] = z /\ peers2[o] = y /\ wrote2[p] = v /\ wrote2[o] = u
  <2>1. DOMAIN peers = Peers /\ DOMAIN wrote = Peers
    BY <1>14
  <2> QED
    BY <1>1, <1>2, <1>13, <2>1
<1>16. ASSUME NEW q \in Peers
       PROVE  /\ IsPeer(peers2[q])
              /\ OneWay(q, peers2[q], peers2[Other(q)], wrote2[q], got[Other(q)], more[Other(q)])
              /\ Parting(q, peers2[q], peers2[Other(q)], wrote2[Other(q)], more[Other(q)])
  <2>1. CASE q = p
    BY <1>1, <1>4, <1>9, <1>11, <1>15, <2>1
  <2>2. CASE q = o
    BY <1>1, <1>3, <1>10, <1>12, <1>15, <2>2
  <2> QED
    BY <1>1, <2>1, <2>2
<1>17. Consistent(peers2, more, wrote2, got)
  <2>1. more = [q \in Peers |-> more[q]]
    BY <1>4
  <2> QED
    BY <1>14, <1>15, <1>16, <2>1, Zenon DEF Consistent
<1> QED
  BY <1>13, <1>17

(* It is allowed when its receiver stays and its sender forgets nothing.   *)
LEMMA QuietAllowed ==
  ASSUME Laws, NEW peers, NEW nets, NEW wrote, NEW got, Consistent(peers, nets, wrote, got),
         NEW p \in Peers, NEW x, x = peers[p], NEW t, NEW v,
         Running(p, t, v), Onward(t, x.sender), x.sender.fin_sent => v = wrote[p],
         Oldest(t) = Oldest(x.sender)
  PROVE  Allowed(p, peers, wrote, t, x.receiver, x.linger, v)
<1>1. PICK o \in Peers : o = Other(p) /\ Other(o) = p
  BY OtherFacts
<1>2. PICK y, w, u : y = peers[o] /\ w = wrote[p] /\ u = wrote[o]
  OBVIOUS
<1>3. /\ OneWay(p, x, y, w, got[o], nets[o]) /\ OneWay(o, y, x, u, got[p], nets[p])
      /\ Parting(p, x, y, u, nets[o]) /\ Parting(o, y, x, w, nets[p])
  BY <1>1, <1>2 DEF Consistent
<1>4. /\ Running(p, x.sender, w) /\ Receiving(p, x.sender, w, y.receiver)
      /\ Oldest(x.sender) <= Awaited(y.receiver)
      /\ Running(o, y.sender, u) /\ Receiving(o, y.sender, u, x.receiver)
  BY <1>3 DEF OneWay
<1>5. Awaited(x.receiver) <= Awaited(x.receiver)
  <2>1. Awaited(x.receiver) \in Int
    BY <1>4, ReceivingNumbers
  <2> QED
    BY <2>1
<1>6. ~x.linger => x.receiver.reassembler.output.closed
  BY <1>3 DEF Parting
<1>7. ASSUME ~y.linger, x.receiver.state = "FIN_RECEIVED"
      PROVE  DOMAIN t.unacked = {}
  <2>1. y.receiver.reassembler.output.closed /\ DOMAIN x.sender.unacked = {}
    BY <1>3, <1>7 DEF Parting
  <2>2. x.sender.fin_sent
    BY <1>4, <2>1, ReceivingNumbers
  <2>3. v = w /\ t.fin_sent
    BY <1>2, <2>2 DEF Onward
  <2>4. Oldest(x.sender) = w + 2
    BY <1>4, <2>1, <2>2, RunningNumbers
  <2>5. t.next_abs_seqno = w + 2
    BY <2>3, RunningNumbers
  <2> QED
    BY <2>4, <2>5, RunningNumbers
<1> QED
  BY <1>1, <1>2, <1>4, <1>5, <1>6, <1>7 DEF Allowed

(* And when it hears what is on its way to it.                             *)
LEMMA HearingAllowed ==
  ASSUME Laws, NEW peers, NEW nets, NEW wrote, NEW got, Consistent(peers, nets, wrote, got),
         NEW p \in Peers, NEW x, x = peers[p], NEW msg \in nets[p],
         NEW r, r = Receiver!receive(x.receiver, msg.sender),
         NEW pushed, pushed = Sender!push(Sender!receive(x.sender, msg.receiver)),
         NEW linger,
         linger = (x.linger /\ ~(r.reassembler.output.closed /\ ~IsFinished(pushed.s.input)))
  PROVE  /\ Allowed(p, peers, wrote, pushed.s, r, linger, wrote[p])
         /\ Speaks(p, pushed.s, wrote[p], pushed.sent) /\ pushed.s.syn_sent
         /\ pushed.s.input.closed = x.sender.input.closed
         /\ x.receiver.reassembler.output.closed => r.reassembler.output.closed
<1>1. PICK o \in Peers : o = Other(p) /\ Other(o) = p
  BY OtherFacts
<1>2. PICK y, w, u : y = peers[o] /\ w = wrote[p] /\ u = wrote[o]
  OBVIOUS
<1>3. /\ OneWay(p, x, y, w, got[o], nets[o]) /\ OneWay(o, y, x, u, got[p], nets[p])
      /\ Parting(p, x, y, u, nets[o]) /\ Parting(o, y, x, w, nets[p])
  BY <1>1, <1>2 DEF Consistent
<1>4. /\ Running(p, x.sender, w) /\ Receiving(p, x.sender, w, y.receiver)
      /\ Oldest(x.sender) <= Awaited(y.receiver)
      /\ Running(o, y.sender, u) /\ Receiving(o, y.sender, u, x.receiver)
      /\ Says(o, y, u, msg)
  BY <1>3 DEF OneWay
<1>5. /\ Segment(o, y.sender, u, msg.sender)
      /\ Reported(p, y.receiver, msg.receiver)
  BY <1>1, <1>4 DEF Says
<1>6. Receiving(o, y.sender, u, r) /\ Advances(x.receiver, r, msg.sender)
  BY <1>4, <1>5, ReceiverReceives
<1>7. /\ Speaks(p, pushed.s, w, pushed.sent)
      /\ pushed.s.syn_sent
      /\ Onward(pushed.s, x.sender) /\ pushed.s.input.closed = x.sender.input.closed
      /\ Oldest(pushed.s) <= Awaited(y.receiver)
      /\ x.sender.fin_sent /\ DOMAIN x.sender.unacked = {} => DOMAIN pushed.s.unacked = {}
      /\ x.sender.fin_sent /\ msg.receiver.ackno = Sender!wrap(w + 2, ISN[p]) =>
           DOMAIN pushed.s.unacked = {}
  BY <1>4, <1>5, SenderHears
<1>8. Running(p, pushed.s, w)
  BY <1>7, SpeaksFacts
<1>9. /\ Awaited(x.receiver) <= Awaited(r)
      /\ r.reassembler.output.popped = x.receiver.reassembler.output.popped
      /\ x.receiver.reassembler.output.closed => r.reassembler.output.closed
      /\ r.state = "FIN_RECEIVED" => x.receiver.state = "FIN_RECEIVED" \/ msg.sender.FIN
  BY <1>6 DEF Advances
<1>10. ASSUME ~linger
       PROVE  r.reassembler.output.closed /\ (~x.linger \/ ~pushed.s.fin_sent)
  <2>1. CASE ~x.linger
    BY <1>3, <1>9, <2>1 DEF Parting
  <2>2. CASE x.linger
    <3>1. r.reassembler.output.closed /\ ~IsFinished(pushed.s.input)
      BY <1>10, <2>2
    <3>2. pushed.s.fin_sent => IsFinished(pushed.s.input)
      BY <1>8, RunningNumbers
    <3> QED
      BY <3>1, <3>2
  <2> QED
    BY <2>1, <2>2
<1>11. ASSUME ~y.linger, r.state = "FIN_RECEIVED"
       PROVE  DOMAIN pushed.s.unacked = {}
  <2>1. /\ y.receiver.reassembler.output.closed
        /\ msg.sender.FIN => msg.receiver.ackno = Sender!wrap(w + 2, ISN[p])
        /\ x.receiver.state = "FIN_RECEIVED" => DOMAIN x.sender.unacked = {}
    BY <1>1, <1>3, <1>11 DEF Parting
  <2>2. x.sender.fin_sent
    BY <1>4, <2>1, ReceivingNumbers
  <2> QED
    BY <1>7, <1>9, <1>11, <2>1, <2>2
<1> QED
  BY <1>1, <1>2, <1>6, <1>7, <1>8, <1>9, <1>10, <1>11, Zenon DEF Allowed

(* Peer p's sender has become t, its receiver r, and the other waits.      *)
Moved(p, t, r) ==
  /\ peer'[p].sender = t /\ peer'[p].receiver = r
  /\ peer'[Other(p)] = peer[Other(p)]

(* The ends of the streams at a peer that was x and is z are as they were. *)
Kept(x, z) ==
  /\ z.sender.input.closed = x.sender.input.closed
  /\ z.receiver.reassembler.next_index_to_write = x.receiver.reassembler.next_index_to_write
  /\ z.receiver.reassembler.output.closed = x.receiver.reassembler.output.closed

(* So they are where only a sender moves, and does not close its stream.   *)
LEMMA MovedKept ==
  ASSUME NEW p \in Peers, NEW t, NEW r, Moved(p, t, r),
         r = peer[p].receiver, t.input.closed = peer[p].sender.input.closed
  PROVE  \A q \in Peers : Kept(peer[q], peer'[q])
<1>1. Kept(peer[p], peer'[p])
  BY DEF Moved, Kept
<1>2. Kept(peer[Other(p)], peer'[Other(p)])
  BY DEF Moved, Kept
<1>3. \A q \in Peers : q = p \/ q = Other(p)
  BY DEF Peers, Other
<1> QED
  BY <1>1, <1>2, <1>3

(* What a step of p's sends, less what is lost, joins what is on its way.  *)
LEMMA EmitKeeps ==
  ASSUME Laws, IInv, NEW p \in Peers, NEW step, NEW rest, Emit(p, step, rest),
         rest = [q \in Peers |-> rest[q]], rest[p] \subseteq net[p],
         rest[Other(p)] \subseteq net[Other(p)],
         NEW t, NEW r, NEW linger, NEW v, Stepped(p, step, t, r, linger, v),
         Allowed(p, peer, written, t, r, linger, v),
         written' = [written EXCEPT ![p] = v], received' = received
  PROVE  IInv' /\ Moved(p, t, r)
<1>1. PICK o \in Peers : o = Other(p) /\ o # p /\ Other(o) = p
  BY OtherFacts
<1>2. PICK segments : segments = { OnWire(step.sent[i]) : i \in DOMAIN step.sent }
  OBVIOUS
<1>3. PICK new \in SUBSET segments :
        peer' = [peer EXCEPT ![p] = step.peer] /\ net' = [rest EXCEPT ![o] = @ \cup new]
  BY <1>1, <1>2 DEF Emit
<1>4. /\ Running(p, t, v) /\ Running(o, peer[o].sender, written[o])
      /\ Receiving(o, peer[o].sender, written[o], r)
  BY <1>1 DEF IInv, Consistent, OneWay, Allowed
<1>5. /\ step.peer.sender = t /\ step.peer.receiver = r /\ step.peer.linger = linger
      /\ IsPeer(step.peer)
  BY DEF Stepped
<1>6. \A m \in new : Says(p, step.peer, v, m) /\ m.receiver = Receiver!send(r)
  BY <1>1, <1>2, <1>4, SendsSays
<1>7. PICK more : more = net'
  OBVIOUS
<1>8. /\ more = [q \in Peers |-> more[q]]
      /\ more[p] = rest[p] /\ more[o] = rest[o] \cup new
  <2>1. PICK f, e : f = rest /\ e = rest[o] \cup new
    OBVIOUS
  <2>2. DOMAIN f = Peers /\ more = [f EXCEPT ![o] = e]
    BY <1>3, <1>7, <2>1
  <2> QED
    BY <1>1, <2>1, <2>2
<1>9. Act(p, peer, net, written, step.peer, v, more)
  BY <1>1, <1>5, <1>6, <1>8 DEF Act
<1>10. Consistent([peer EXCEPT ![p] = step.peer], more, [written EXCEPT ![p] = v], received)
  BY <1>9, ActKeeps DEF IInv
<1>11. Moved(p, t, r)
  <2>1. peer = [q \in Peers |-> peer[q]]
    BY DEF IInv, Consistent
  <2> QED
    BY <1>1, <1>3, <1>5, <2>1 DEF Moved
<1> QED
  BY <1>3, <1>7, <1>10, <1>11 DEF IInv

(* Nothing depends on what is lost.                                        *)
LEMMA FewerKeeps ==
  ASSUME NEW peers, NEW nets, NEW wrote, NEW got, Consistent(peers, nets, wrote, got),
         NEW fewer, fewer = [p \in Peers |-> fewer[p]],
         \A p \in Peers : fewer[p] \subseteq nets[p]
  PROVE  Consistent(peers, fewer, wrote, got)
<1>1. ASSUME NEW p \in Peers
      PROVE  /\ OneWay(p, peers[p], peers[Other(p)], wrote[p], got[Other(p)], fewer[Other(p)])
             /\ Parting(p, peers[p], peers[Other(p)], wrote[Other(p)], fewer[Other(p)])
  <2>1. /\ OneWay(p, peers[p], peers[Other(p)], wrote[p], got[Other(p)], nets[Other(p)])
        /\ Parting(p, peers[p], peers[Other(p)], wrote[Other(p)], nets[Other(p)])
    BY DEF Consistent
  <2>2. fewer[Other(p)] \subseteq nets[Other(p)]
    BY OtherFacts
  <2>3. OneWay(p, peers[p], peers[Other(p)], wrote[p], got[Other(p)], fewer[Other(p)])
    BY <2>1, <2>2 DEF OneWay
  <2>4. Parting(p, peers[p], peers[Other(p)], wrote[Other(p)], fewer[Other(p)])
    BY <2>1, <2>2 DEF Parting
  <2> QED
    BY <2>3, <2>4
<1> QED
  BY <1>1 DEF Consistent

(* What the invariant says of the state, as the handlers need it.          *)
LEMMA InvFacts ==
  ASSUME Laws, IInv, NEW p \in Peers
  PROVE  /\ IsPeer(peer[p]) /\ Running(p, peer[p].sender, written[p])
         /\ Running(Other(p), peer[Other(p)].sender, written[Other(p)])
         /\ Receiving(Other(p), peer[Other(p)].sender, written[Other(p)], peer[p].receiver)
         /\ written[p] \in Nat
         /\ net = [q \in Peers |-> net[q]] /\ written = [written EXCEPT ![p] = @]
         /\ peer = [peer EXCEPT ![p] = @]
<1>1. PICK o \in Peers : o = Other(p) /\ Other(o) = p
  BY OtherFacts
<1>2. /\ IsPeer(peer[p]) /\ Running(p, peer[p].sender, written[p])
      /\ Running(o, peer[o].sender, written[o])
      /\ Receiving(o, peer[o].sender, written[o], peer[p].receiver)
      /\ net = [q \in Peers |-> net[q]] /\ written = [q \in Peers |-> written[q]]
      /\ peer = [q \in Peers |-> peer[q]]
  BY <1>1 DEF IInv, Consistent, OneWay
<1>3. written[p] \in Nat
  <2>1. written[p] \in 0..ToWrite[p] /\ ToWrite[p] \in Nat
    BY <1>2, RunningNumbers, ConnectionAssumption DEF Peers
  <2> QED
    BY <2>1
<1> QED
  BY <1>1, <1>2, <1>3

(* A running sender's timeout is a number.                                 *)
LEMMA RunningTimeout ==
  ASSUME NEW p \in Peers, NEW q, NEW w, Running(p, q, w)
  PROVE  q.RTO \in Nat
  BY DEF Running, Senders

(* connect().                                                              *)
LEMMA ConnectKeeps ==
  ASSUME Laws, IInv, Connect
  PROVE  IInv' /\ \A q \in Peers : Kept(peer[q], peer'[q])
<1>1. PICK p, x, w : p = Client /\ p \in Peers /\ x = peer[p] /\ w = written[p]
  BY DEF Peers
<1>2. PICK step, pushed : step = push(x) /\ pushed = Sender!push(x.sender)
  OBVIOUS
<1>3. /\ Emit(p, step, net) /\ written' = written /\ received' = received
  BY <1>1, <1>2 DEF Connect
<1>4. /\ IsPeer(x) /\ Running(p, x.sender, w)
      /\ net = [q \in Peers |-> net[q]] /\ written = [written EXCEPT ![p] = w]
  BY <1>1, InvFacts
<1>5. Speaks(p, pushed.s, w, pushed.sent) /\ After(pushed.s, x.sender)
  BY <1>1, <1>2, <1>4, PushRuns
<1>6. Stepped(p, step, pushed.s, x.receiver, x.linger, w)
  BY <1>1, <1>2, <1>4, <1>5, PushingFacts
<1>7. Running(p, pushed.s, w)
  BY <1>1, <1>5, SpeaksFacts
<1>8. Allowed(p, peer, written, pushed.s, x.receiver, x.linger, w)
  BY <1>1, <1>5, <1>7, QuietAllowed DEF IInv, After
<1>9. IInv' /\ Moved(p, pushed.s, x.receiver)
  BY <1>1, <1>3, <1>4, <1>6, <1>8, EmitKeeps
<1> QED
  BY <1>1, <1>5, <1>9, MovedKept DEF After

(* The application's bytes are pushed.                                     *)
LEMMA WriteKeeps ==
  ASSUME Laws, IInv, NEW p \in Peers, NEW n \in 1..SendCapacity[p], Write(p, n)
  PROVE  IInv' /\ \A q \in Peers : Kept(peer[q], peer'[q])
<1>1. PICK x, w : x = peer[p] /\ w = written[p]
  OBVIOUS
<1>2. n \in Nat
  BY ConnectionAssumption DEF Peers
<1>3. PICK bytes : bytes = [i \in 1..n |-> w + i]
  OBVIOUS
<1>4. PICK t : t = [x.sender EXCEPT !.input = Push(x.sender.input, bytes)]
  OBVIOUS
<1>5. PICK z : z = [x EXCEPT !.sender.input = Push(@, bytes)]
  OBVIOUS
<1>6. PICK step, pushed : step = push(z) /\ pushed = Sender!push(t)
  OBVIOUS
<1>7. /\ Emit(p, step, net) /\ written' = [written EXCEPT ![p] = w + n]
      /\ received' = received
      /\ ~x.sender.input.closed /\ n <= AvailableCapacity(x.sender.input)
      /\ w + n <= ToWrite[p]
  BY <1>1, <1>3, <1>5, <1>6 DEF Write, MayPush, outbound
<1>8. /\ IsPeer(x) /\ Running(p, x.sender, w) /\ net = [q \in Peers |-> net[q]]
  BY <1>1, InvFacts
<1>9. z = [x EXCEPT !.sender = t]
  BY <1>4, <1>5
<1>10. z = [sender |-> t, receiver |-> x.receiver, need_send |-> x.need_send,
            linger |-> x.linger, since_receipt |-> x.since_receipt]
  BY <1>8, <1>9 DEF IsPeer
<1>11. IsPeer(z) /\ z.sender = t /\ z.receiver = x.receiver /\ z.linger = x.linger
  BY <1>8, <1>10 DEF IsPeer
<1>12. Speaks(p, pushed.s, w + n, pushed.sent) /\ After(pushed.s, x.sender)
  <2>1. pushed = Sender!push([x.sender EXCEPT
                                !.input = Push(x.sender.input, [i \in 1..n |-> w + i])])
    BY <1>3, <1>4, <1>6
  <2> QED
    BY <1>2, <1>7, <1>8, <2>1, WriteRuns
<1>13. Stepped(p, step, pushed.s, x.receiver, x.linger, w + n)
  <2>1. pushed = Sender!push(z.sender)
    BY <1>6, <1>11
  <2>2. Stepped(p, step, pushed.s, z.receiver, z.linger, w + n)
    BY <1>6, <1>11, <1>12, <2>1, PushingFacts
  <2> QED
    BY <1>11, <2>2
<1>14. Running(p, pushed.s, w + n)
  BY <1>12, SpeaksFacts
<1>15. ~x.sender.fin_sent
  BY <1>7, <1>8, RunningNumbers DEF IsFinished
<1>16. Allowed(p, peer, written, pushed.s, x.receiver, x.linger, w + n)
  BY <1>1, <1>12, <1>14, <1>15, QuietAllowed DEF IInv, After
<1>17. IInv' /\ Moved(p, pushed.s, x.receiver)
  BY <1>7, <1>8, <1>13, <1>16, EmitKeeps
<1> QED
  BY <1>1, <1>12, <1>17, MovedKept DEF After

(* The application shuts its side down.                                    *)
LEMMA ShutdownKeeps ==
  ASSUME Laws, IInv, NEW p \in Peers, Shutdown(p)
  PROVE  /\ IInv' /\ peer'[p].sender.input.closed
         /\ peer'[p].receiver = peer[p].receiver /\ peer'[Other(p)] = peer[Other(p)]
<1>1. PICK x, w : x = peer[p] /\ w = written[p]
  OBVIOUS
<1>4. PICK t : t = [x.sender EXCEPT !.input = Close(x.sender.input)]
  OBVIOUS
<1>5. PICK z : z = [x EXCEPT !.sender.input = Close(@)]
  OBVIOUS
<1>6. PICK step, pushed : step = push(z) /\ pushed = Sender!push(t)
  OBVIOUS
<1>7. Emit(p, step, net) /\ written' = written /\ received' = received
  BY <1>1, <1>5, <1>6 DEF Shutdown
<1>8. /\ IsPeer(x) /\ Running(p, x.sender, w) /\ net = [q \in Peers |-> net[q]]
      /\ written = [written EXCEPT ![p] = w]
  BY <1>1, InvFacts
<1>9. z = [x EXCEPT !.sender = t]
  BY <1>4, <1>5
<1>10. z = [sender |-> t, receiver |-> x.receiver, need_send |-> x.need_send,
            linger |-> x.linger, since_receipt |-> x.since_receipt]
  BY <1>8, <1>9 DEF IsPeer
<1>11. IsPeer(z) /\ z.sender = t /\ z.receiver = x.receiver /\ z.linger = x.linger
  BY <1>8, <1>10 DEF IsPeer
<1>12. /\ Speaks(p, pushed.s, w, pushed.sent)
       /\ Onward(pushed.s, x.sender) /\ pushed.s.input.closed
       /\ Oldest(pushed.s) = Oldest(x.sender)
  BY <1>4, <1>6, <1>8, ShutdownRuns
<1>13. Stepped(p, step, pushed.s, x.receiver, x.linger, w)
  <2>1. pushed = Sender!push(z.sender)
    BY <1>6, <1>11
  <2>2. Stepped(p, step, pushed.s, z.receiver, z.linger, w)
    BY <1>6, <1>11, <1>12, <2>1, PushingFacts
  <2> QED
    BY <1>11, <2>2
<1>14. Running(p, pushed.s, w)
  BY <1>12, SpeaksFacts
<1>15. Allowed(p, peer, written, pushed.s, x.receiver, x.linger, w)
  BY <1>1, <1>12, <1>14, QuietAllowed DEF IInv
<1>16. IInv' /\ Moved(p, pushed.s, x.receiver)
  BY <1>7, <1>8, <1>13, <1>15, EmitKeeps
<1> QED
  BY <1>1, <1>12, <1>16 DEF Moved

(* A segment is delivered.                                                 *)
LEMMA DeliverKeeps ==
  ASSUME Laws, IInv, NEW p \in Peers, NEW msg \in net[p], Deliver(p, msg)
  PROVE  /\ IInv' /\ peer'[Other(p)] = peer[Other(p)]
         /\ peer'[p].sender.input.closed = peer[p].sender.input.closed
         /\ Awaited(peer[p].receiver) <= Awaited(peer'[p].receiver)
         /\ peer[p].receiver.reassembler.output.closed =>
              peer'[p].receiver.reassembler.output.closed
<1>1. PICK x, w, rest :
        /\ x = peer[p] /\ w = written[p]
        /\ rest = IF Chaotic THEN net ELSE [net EXCEPT ![p] = @ \ {msg}]
  OBVIOUS
<1>2. PICK step, r, pushed :
        /\ step = receive(x, msg)
        /\ r = Receiver!receive(x.receiver, msg.sender)
        /\ pushed = Sender!push(Sender!receive(x.sender, msg.receiver))
  OBVIOUS
<1>3. PICK linger :
        linger = (x.linger /\ ~(r.reassembler.output.closed /\ ~IsFinished(pushed.s.input)))
  OBVIOUS
<1>4. /\ active(x) /\ Emit(p, step, rest) /\ written' = written /\ received' = received
  BY <1>1, <1>2 DEF Deliver
<1>5. /\ IsPeer(x) /\ net = [q \in Peers |-> net[q]]
      /\ written = [written EXCEPT ![p] = w]
  BY <1>1, InvFacts
<1>6. /\ Allowed(p, peer, written, pushed.s, r, linger, w)
      /\ Speaks(p, pushed.s, w, pushed.sent) /\ pushed.s.syn_sent
      /\ pushed.s.input.closed = x.sender.input.closed
      /\ x.receiver.reassembler.output.closed => r.reassembler.output.closed
  BY <1>1, <1>2, <1>3, HearingAllowed DEF IInv
<1>7. Stepped(p, step, pushed.s, r, linger, w)
  BY <1>2, <1>3, <1>4, <1>5, <1>6, ReceiveFacts
<1>8. /\ rest = [q \in Peers |-> rest[q]] /\ rest[p] \subseteq net[p]
      /\ rest[Other(p)] \subseteq net[Other(p)]
  <2>1. Other(p) \in Peers /\ Other(p) # p
    BY OtherFacts
  <2>2. CASE Chaotic
    BY <1>1, <1>5, <2>2
  <2>3. CASE ~Chaotic
    <3>1. PICK left : left = net[p] \ {msg}
      OBVIOUS
    <3>2. rest = [net EXCEPT ![p] = left]
      BY <1>1, <2>3, <3>1
    <3> QED
      BY <1>5, <2>1, <3>1, <3>2
  <2> QED
    BY <2>2, <2>3
<1>9. IInv' /\ Moved(p, pushed.s, r)
  BY <1>4, <1>5, <1>6, <1>7, <1>8, EmitKeeps
<1>10. Awaited(x.receiver) <= Awaited(r)
  BY <1>1, <1>6 DEF Allowed
<1> QED
  BY <1>1, <1>6, <1>9, <1>10 DEF Moved

(* A segment is not.                                                       *)
LEMMA LossKeeps ==
  ASSUME Laws, IInv, NEW p \in Peers, NEW msg,
         net' = [net EXCEPT ![p] = @ \ {msg}],
         peer' = peer, written' = written, received' = received
  PROVE  IInv'
<1>1. PICK fewer, left : fewer = net' /\ left = net[p] \ {msg}
  OBVIOUS
<1>2. net = [q \in Peers |-> net[q]] /\ fewer = [net EXCEPT ![p] = left]
  BY <1>1, InvFacts
<1>3. fewer = [q \in Peers |-> fewer[q]] /\ \A q \in Peers : fewer[q] \subseteq net[q]
  BY <1>1, <1>2
<1>4. Consistent(peer, fewer, written, received)
  BY <1>3, FewerKeeps DEF IInv
<1> QED
  BY <1>1, <1>4 DEF IInv

(* p's clock jumps to its timeout.                                         *)
LEMMA TimeoutKeeps ==
  ASSUME Laws, IInv, NEW p \in Peers, Timeout(p)
  PROVE  IInv' /\ \A q \in Peers : Kept(peer[q], peer'[q])
<1>1. PICK x, w, elapsed : x = peer[p] /\ w = written[p] /\ elapsed = x.sender.RTO
  OBVIOUS
<1>2. PICK step, ticked : step = tick(x, elapsed) /\ ticked = Sender!tick(x.sender, elapsed)
  OBVIOUS
<1>3. /\ Emit(p, step, net) /\ written' = written /\ received' = received
      /\ x.sender.consecutive_retransmissions < MaxRetx[p]
  BY <1>1, <1>2 DEF Timeout, TickBound, snd
<1>4. /\ IsPeer(x) /\ Running(p, x.sender, w) /\ elapsed \in Nat
      /\ net = [q \in Peers |-> net[q]] /\ written = [written EXCEPT ![p] = w]
  BY <1>1, InvFacts, RunningTimeout
<1>5. Speaks(p, ticked.s, w, ticked.sent) /\ After(ticked.s, x.sender)
  BY <1>2, <1>3, <1>4, TickRuns
<1>6. Stepped(p, step, ticked.s, x.receiver, x.linger, w)
  BY <1>2, <1>4, <1>5, TickFacts
<1>7. Running(p, ticked.s, w)
  BY <1>5, SpeaksFacts
<1>8. Allowed(p, peer, written, ticked.s, x.receiver, x.linger, w)
  BY <1>1, <1>5, <1>7, QuietAllowed DEF IInv, After
<1>9. IInv' /\ Moved(p, ticked.s, x.receiver)
  BY <1>3, <1>4, <1>6, <1>8, EmitKeeps
<1> QED
  BY <1>1, <1>5, <1>9, MovedKept DEF After

(* Receiver z, of which the application has read n bytes, was receiver r.  *)
HasRead(p, q, w, r, n, z) ==
  /\ Receiving(p, q, w, z)
  /\ Awaited(z) = Awaited(r)
  /\ z.state = r.state /\ z.reassembler.output.closed = r.reassembler.output.closed
  /\ z.reassembler.next_index_to_write = r.reassembler.next_index_to_write
  /\ z.reassembler.output.popped = r.reassembler.output.popped + n
  /\ n <= Len(r.reassembler.output.queue)

(* It still receives.                                                      *)
LEMMA ReadReceives ==
  ASSUME Laws, NEW p \in Peers, NEW q, NEW w, Running(p, q, w), NEW r, Receiving(p, q, w, r),
         NEW n \in Nat, n <= PeekLength(r.reassembler.output),
         NEW z, z = [r EXCEPT !.reassembler.output = Pop(@, n)]
  PROVE  HasRead(p, q, w, r, n, z)
<1>1. PICK b : b = r.reassembler
  OBVIOUS
<1>2. PICK a : a = Pop(b.output, n)
  OBVIOUS
<1>3. PICK c : c = [b EXCEPT !.output = a]
  OBVIOUS
<1>4. /\ r = [reassembler |-> b, state |-> r.state, ins |-> r.ins]
      /\ Sound(b, RecvCapacity[Other(p)]) /\ Tight(b)
  BY <1>1 DEF Receiving
<1>5. z = [r EXCEPT !.reassembler = c]
  BY <1>1, <1>2, <1>3
<1>6. z = [reassembler |-> c, state |-> r.state, ins |-> r.ins]
  BY <1>4, <1>5
<1>7. RecvCapacity[Other(p)] \in Nat
  BY OtherFacts, ConnectionAssumption DEF Peers
<1>8. n <= BytesBuffered(b.output) /\ n <= Len(b.output.queue)
  <2>1. Len(b.output.queue) \in Nat
    BY <1>1, ReceivingNumbers, LenProperties
  <2>2. PICK m \in Nat : m = Len(b.output.queue)
    BY <2>1
  <2>3. b.output.capacity \in Nat \ {0} /\ b.output.popped \in Nat
    BY <1>4, OtherFacts, ConnectionAssumption DEF Peers, Sound, StreamType
  <2>4. b.output.popped % b.output.capacity \in Int
    BY <2>3
  <2>5. PICK k \in Int : k = b.output.capacity - (b.output.popped % b.output.capacity)
    BY <2>3, <2>4
  <2>6. n <= IF k <= m THEN k ELSE m
    BY <1>1, <2>2, <2>5 DEF PeekLength, BytesBuffered, Lesser
  <2>7. n <= Len(b.output.queue)
    BY <2>2, <2>6
  <2> QED
    BY <2>7 DEF BytesBuffered
<1>9. c = [b EXCEPT !.output = Pop(@, n)]
  BY <1>2, <1>3
<1>10. Shifted(c, b, RecvCapacity[Other(p)])
  BY <1>4, <1>7, <1>8, <1>9, ReadShifts
<1>11. /\ Sound(c, RecvCapacity[Other(p)]) /\ Tight(c)
       /\ c.next_index_to_write = b.next_index_to_write
       /\ c.eof_received = b.eof_received /\ c.eof_index = b.eof_index
       /\ c.output.closed = b.output.closed
       /\ \A i \in Nat : Reached(c, i) <=> Reached(b, i)
       /\ \A i \in Nat, v \in Nat : Stands(c, i, v) => Stands(b, i, v)
  BY <1>10 DEF Shifted
<1>12. b.output \in StreamType(RecvCapacity[Other(p)], Nat)
  BY <1>4 DEF Sound
<1>13. c.output = a
  BY <1>3, <1>4 DEF Sound
<1>14. /\ a.popped = b.output.popped + n /\ a.error = b.output.error
  <2>1. PICK old, left : old = b.output /\ left = SubSeq(old.queue, n + 1, Len(old.queue))
    OBVIOUS
  <2>2. old = [capacity |-> old.capacity, queue |-> old.queue, popped |-> old.popped,
               closed |-> old.closed, error |-> old.error]
    BY <1>12, <2>1 DEF StreamType
  <2>3. a = [old EXCEPT !.queue = left, !.popped = @ + n]
    BY <1>2, <2>1 DEF Pop
  <2> QED
    BY <2>1, <2>2, <2>3
<1>15. Receiving(p, q, w, z)
  BY <1>1, <1>6, <1>11, <1>13, <1>14 DEF Receiving
<1>16. Awaited(z) = Awaited(r)
  <2>1. PICK k, l : k = Awaited(z) /\ l = Awaited(r)
    OBVIOUS
  <2>2. c.next_index_to_write = b.next_index_to_write /\ c.output.closed = b.output.closed
        /\ z.reassembler = c /\ z.state = r.state
    BY <1>6, <1>11
  <2>3. CASE r.state = "LISTEN"
    BY <2>2, <2>3 DEF Awaited
  <2>4. CASE r.state # "LISTEN"
    <3>1. PICK m : m = 1 + b.next_index_to_write + One(b.output.closed)
      OBVIOUS
    <3>2. Awaited(r) = m
      BY <1>1, <2>4, <3>1, ReceivingNumbers
    <3>3. Awaited(z) = 1 + c.next_index_to_write + One(c.output.closed)
      <4>1. PICK y : y = z
        OBVIOUS
      <4>2. Receiving(p, q, w, y) /\ y.state # "LISTEN" /\ y.reassembler = c
        BY <1>15, <2>2, <2>4, <4>1
      <4>3. Awaited(y) = 1 + y.reassembler.next_index_to_write
                           + One(y.reassembler.output.closed)
        BY <4>2, ReceivingNumbers
      <4> QED
        BY <4>1, <4>2, <4>3
    <3> QED
      BY <2>2, <3>1, <3>2, <3>3
  <2> QED
    BY <2>3, <2>4
<1> QED
  BY <1>1, <1>6, <1>8, <1>11, <1>13, <1>14, <1>15, <1>16 DEF HasRead

(* n more bytes of a stream follow the m first ones.                       *)
LEMMA MoreBytes ==
  ASSUME NEW m \in Nat, NEW n \in Nat, NEW queue \in Seq(Nat), n <= Len(queue),
         \A i \in 1..Len(queue) : queue[i] = m + i,
         NEW got, got = [i \in 1..m |-> i]
  PROVE  got \o SubSeq(queue, 1, n) = [i \in 1..(m + n) |-> i]
<1>1. PICK part : part = SubSeq(queue, 1, n)
  OBVIOUS
<1>2. got \in Seq(Nat) /\ Len(got) = m /\ \A i \in 1..m : got[i] = i
  <2>1. got \in [1..m -> Nat]
    OBVIOUS
  <2>2. got \in Seq(Nat) /\ Len(got) = m
    BY <2>1, SeqDef, LenProperties
  <2> QED
    BY <2>2
<1>3. part \in Seq(Nat) /\ Len(part) = n /\ \A i \in 1..n : part[i] = m + i
  <2>1. PICK l \in Nat : l = Len(queue)
    BY LenProperties
  <2>2. \A i \in 1..n : queue[i] \in Nat
    BY <2>1
  <2>3. /\ part \in Seq(Nat)
        /\ Len(part) = IF 1 <= n THEN n - 1 + 1 ELSE 0
        /\ \A i \in 1..(n - 1 + 1) : part[i] = queue[1 + i - 1]
    BY <1>1, <2>2, SubSeqProperties
  <2>4. Len(part) = n
    BY <2>3
  <2>5. \A i \in 1..n : part[i] = queue[i]
    BY <2>3
  <2> QED
    BY <2>1, <2>3, <2>4, <2>5
<1>4. PICK both : both = got \o part
  OBVIOUS
<1>5. /\ both \in Seq(Nat) /\ Len(both) = m + n
      /\ \A i \in 1..(m + n) : both[i] = IF i <= m THEN got[i] ELSE part[i - m]
  BY <1>2, <1>3, <1>4, ConcatProperties
<1>6. \A i \in 1..(m + n) : both[i] = i
  <2>1. ASSUME NEW i \in 1..(m + n) PROVE both[i] = i
    <3>1. CASE i <= m
      BY <1>2, <1>5, <3>1
    <3>2. CASE i > m
      <4>1. PICK j \in 1..n : j = i - m
        BY <3>2
      <4> QED
        BY <1>3, <1>5, <3>2, <4>1
    <3> QED
      BY <3>1, <3>2
  <2> QED
    BY <2>1
<1>7. both = [i \in 1..(m + n) |-> both[i]]
  BY <1>5, LenProperties
<1> QED
  BY <1>1, <1>4, <1>6, <1>7

(* An application reads what has arrived for it.                           *)
LEMMA ReadKeeps ==
  ASSUME Laws, IInv, NEW p \in Peers, NEW n \in 1..RecvCapacity[p], Read(p, n)
  PROVE  IInv' /\ \A q \in Peers : Kept(peer[q], peer'[q])
<1>1. PICK o \in Peers : o = Other(p) /\ p = Other(o) /\ o # p
  BY OtherFacts
<1>2. PICK x, y, w, u :
        x = peer[p] /\ y = peer[o] /\ w = written[p] /\ u = written[o]
  OBVIOUS
<1>3. PICK r, s : r = x.receiver /\ s = [r EXCEPT !.reassembler.output = Pop(@, n)]
  OBVIOUS
<1>4. PICK z : z = [x EXCEPT !.receiver = s]
  OBVIOUS
<1>5. PICK out, more : out = r.reassembler.output /\ more = received[p] \o SubSeq(out.queue, 1, n)
  OBVIOUS
<1>6. /\ IsPeer(x) /\ IsPeer(y)
      /\ OneWay(p, x, y, w, received[o], net[o]) /\ OneWay(o, y, x, u, received[p], net[p])
      /\ Parting(p, x, y, u, net[o]) /\ Parting(o, y, x, w, net[p])
      /\ peer = [q \in Peers |-> peer[q]] /\ received = [q \in Peers |-> received[q]]
      /\ net = [q \in Peers |-> net[q]] /\ written = [q \in Peers |-> written[q]]
  BY <1>1, <1>2 DEF IInv, Consistent
<1>7. n \in Nat /\ n <= PeekLength(out)
  BY <1>2, <1>3, <1>5, ConnectionAssumption DEF Read, inbound, Peers
<1>8. /\ net' = net /\ written' = written
      /\ received' = [received EXCEPT ![p] = more] /\ peer' = [peer EXCEPT ![p] = z]
  <2>1. peer' = [peer EXCEPT ![p] = [x EXCEPT !.receiver =
                  [r EXCEPT !.reassembler = [r.reassembler EXCEPT !.output = Pop(out, n)]]]]
    BY <1>2, <1>3, <1>5 DEF Read
  <2>2. s = [r EXCEPT !.reassembler = [r.reassembler EXCEPT !.output = Pop(out, n)]]
    BY <1>3, <1>5
  <2> QED
    BY <1>2, <1>3, <1>4, <1>5, <2>1, <2>2 DEF Read, inbound
<1>9. z = [sender |-> x.sender, receiver |-> s, need_send |-> x.need_send,
           linger |-> x.linger, since_receipt |-> x.since_receipt]
  BY <1>4, <1>6 DEF IsPeer
<1>10. IsPeer(z) /\ z.sender = x.sender /\ z.receiver = s /\ z.linger = x.linger
  BY <1>6, <1>9 DEF IsPeer
<1>11. Running(o, y.sender, u) /\ Receiving(o, y.sender, u, r)
  BY <1>3, <1>6 DEF OneWay
<1>12. /\ Receiving(o, y.sender, u, s) /\ Awaited(s) = Awaited(r)
       /\ s.state = r.state /\ s.reassembler.output.closed = out.closed
       /\ s.reassembler.output.popped = out.popped + n /\ n <= Len(out.queue)
       /\ s.reassembler.next_index_to_write = r.reassembler.next_index_to_write
  <2>1. n <= PeekLength(r.reassembler.output) /\ n \in Nat
    BY <1>5, <1>7
  <2>2. HasRead(o, y.sender, u, r, n, s)
    BY <1>3, <1>11, <2>1, ReadReceives
  <2> QED
    BY <1>5, <2>2 DEF HasRead
<1>13. more = [i \in 1..(out.popped + n) |-> i]
  <2>1. /\ out.popped \in Nat /\ out.queue \in Seq(Nat)
        /\ \A i \in 1..Len(out.queue) : out.queue[i] = out.popped + i
    BY <1>5, <1>11, ReceivingNumbers
  <2>2. received[p] = [i \in 1..out.popped |-> i]
    BY <1>3, <1>5, <1>6, Zenon DEF OneWay
  <2>3. PICK m, queue, got : m = out.popped /\ queue = out.queue /\ got = received[p]
    OBVIOUS
  <2>4. /\ m \in Nat /\ queue \in Seq(Nat) /\ n <= Len(queue)
        /\ \A i \in 1..Len(queue) : queue[i] = m + i
        /\ got = [i \in 1..m |-> i]
    BY <1>12, <2>1, <2>2, <2>3
  <2>5. got \o SubSeq(queue, 1, n) = [i \in 1..(m + n) |-> i]
    BY <1>7, <2>4, MoreBytes
  <2> QED
    BY <1>5, <2>3, <2>5
<1>14. OneWay(p, z, y, w, received[o], net[o])
  <2>1. ASSUME NEW m \in net[o] PROVE Says(p, z, w, m)
    <3>1. Says(p, x, w, m)
      BY <1>6, <2>1 DEF OneWay
    <3>2. Reported(Other(p), z.receiver, m.receiver)
      BY <1>3, <1>10, <1>12, <3>1 DEF Says, Reported
    <3> QED
      BY <1>10, <3>1, <3>2 DEF Says
  <2> QED
    BY <1>6, <1>10, <2>1 DEF OneWay
<1>15. OneWay(o, y, z, u, more, net[p])
  BY <1>3, <1>6, <1>10, <1>12, <1>13 DEF OneWay
<1>16. Parting(p, z, y, u, net[o])
  BY <1>3, <1>5, <1>6, <1>10, <1>12 DEF Parting
<1>17. Parting(o, y, z, w, net[p])
  BY <1>3, <1>6, <1>10, <1>12 DEF Parting
<1>18. PICK peers, got : peers = peer' /\ got = received'
  OBVIOUS
<1>19. /\ peers = [q \in Peers |-> peers[q]] /\ got = [q \in Peers |-> got[q]]
       /\ peers[p] = z /\ peers[o] = y /\ got[p] = more /\ got[o] = received[o]
  BY <1>1, <1>2, <1>6, <1>8, <1>18
<1>20. \A q \in Peers : q = p \/ q = o
  BY <1>1 DEF Peers, Other
<1>21. Consistent(peers, net, written, got)
  <2>1. ASSUME NEW q \in Peers
        PROVE  /\ IsPeer(peers[q])
               /\ OneWay(q, peers[q], peers[Other(q)], written[q], got[Other(q)], net[Other(q)])
               /\ Parting(q, peers[q], peers[Other(q)], written[Other(q)], net[Other(q)])
    <3>1. CASE q = p
      BY <1>1, <1>2, <1>10, <1>14, <1>16, <1>19, <3>1
    <3>2. CASE q = o
      BY <1>1, <1>2, <1>6, <1>15, <1>17, <1>19, <3>2
    <3> QED
      BY <1>20, <3>1, <3>2
  <2> QED
    BY <1>6, <1>19, <2>1 DEF Consistent
<1>22. \A q \in Peers : Kept(peer[q], peer'[q])
  <2>1. Kept(peer[p], peer'[p])
    BY <1>2, <1>3, <1>5, <1>10, <1>12, <1>18, <1>19, Zenon DEF Kept
  <2>2. Kept(peer[o], peer'[o])
    BY <1>2, <1>18, <1>19 DEF Kept
  <2> QED
    BY <1>20, <2>1, <2>2
<1> QED
  BY <1>8, <1>18, <1>21, <1>22 DEF IInv

(* A new receiver waits for the start of any stream.                       *)
LEMMA NewReceiverReceives ==
  ASSUME Laws, NEW p \in Peers, NEW q, NEW w,
         NEW r, r = Receiver!NewReceiver(RecvCapacity[Other(p)])
  PROVE  /\ Receiving(p, q, w, r) /\ Awaited(r) = 0
         /\ r.reassembler.output.popped = 0
<1>1. PICK c \in Nat : c = RecvCapacity[Other(p)]
  BY OtherFacts, ConnectionAssumption DEF Peers
<1>2. PICK b : b = Receiver!NewReassembler(NewStream(c))
  OBVIOUS
<1>3. b = Receiver!NewReassembler(Receiver!NewStream(c))
  BY <1>2, SamePlain
<1>4. /\ Sound(b, c) /\ Tight(b)
      /\ ~b.eof_received /\ ~b.output.closed /\ b.next_index_to_write = 0
      /\ \A i \in Nat : ~Reached(b, i)
      /\ \A i \in Nat, v \in Nat : ~Stands(b, i, v)
  BY <1>1, <1>2, NewIsFresh DEF Fresh
<1>5. b.output = [capacity |-> c, queue |-> << >>, popped |-> 0,
                  closed |-> FALSE, error |-> FALSE]
  BY <1>2 DEF Receiver!NewReassembler, NewStream
<1>6. r = [reassembler |-> b, state |-> "LISTEN", ins |-> 0]
  BY <1>1, <1>3 DEF Receiver!NewReceiver
<1>7. /\ r.reassembler = b /\ r.state = "LISTEN" /\ r.ins = 0
      /\ ~b.output.error /\ b.output.popped = 0
  BY <1>5, <1>6
<1>8. Receiving(p, q, w, r)
  BY <1>1, <1>4, <1>6, <1>7 DEF Receiving
<1> QED
  BY <1>7, <1>8 DEF Awaited

(* At the start the two peers are consistent.                              *)
LEMMA InitInv ==
  ASSUME Laws
  PROVE  Init => IInv
<1> SUFFICES ASSUME Init PROVE IInv
  OBVIOUS
<1>1. ASSUME NEW p \in Peers
      PROVE  /\ IsPeer(peer[p])
             /\ OneWay(p, peer[p], peer[Other(p)], written[p], received[Other(p)], net[Other(p)])
             /\ Parting(p, peer[p], peer[Other(p)], written[Other(p)], net[Other(p)])
  <2>1. PICK o \in Peers : o = Other(p)
    BY OtherFacts
  <2>2. PICK x, y, t, r : x = peer[p] /\ y = peer[o] /\ t = x.sender /\ r = y.receiver
    OBVIOUS
  <2>3. /\ x = NewPeer(SendCapacity[p], RecvCapacity[p], ISN[p])
        /\ y = NewPeer(SendCapacity[o], RecvCapacity[o], ISN[o])
        /\ net[o] = {} /\ written[p] = 0 /\ received[o] = << >>
    BY <2>1, <2>2 DEF Init
  <2>4. /\ t = Sender!NewSender(SendCapacity[p], ISN[p])
        /\ r = Receiver!NewReceiver(RecvCapacity[Other(p)])
        /\ x.linger /\ IsPeer(x)
    <3>1. PICK s1, r1, s2, r2, yes, no :
            /\ s1 = Sender!NewSender(SendCapacity[p], ISN[p])
            /\ r1 = Receiver!NewReceiver(RecvCapacity[p])
            /\ s2 = Sender!NewSender(SendCapacity[o], ISN[o])
            /\ r2 = Receiver!NewReceiver(RecvCapacity[o])
            /\ yes = TRUE /\ no = FALSE
      OBVIOUS
    <3>2. /\ x = [sender |-> s1, receiver |-> r1, need_send |-> no,
                  linger |-> yes, since_receipt |-> 0]
          /\ y = [sender |-> s2, receiver |-> r2, need_send |-> no,
                  linger |-> yes, since_receipt |-> 0]
      BY <2>3, <3>1 DEF NewPeer
    <3>3. yes \in BOOLEAN /\ no \in BOOLEAN /\ yes
      BY <3>1
    <3>4. t = s1 /\ r = r2 /\ x.linger = yes
      BY <2>2, <3>2
    <3>5. IsPeer(x)
      BY <3>2, <3>3 DEF IsPeer
    <3> QED
      BY <2>1, <3>1, <3>3, <3>4, <3>5
  <2>5. Running(p, t, 0) /\ ~t.syn_sent /\ DOMAIN t.unacked = {}
    BY <2>4, NewSenderRuns
  <2>6. Oldest(t) = 0
    BY <2>5, RunningNumbers
  <2>7. /\ Receiving(p, t, 0, r) /\ Awaited(r) = 0
        /\ r.reassembler.output.popped = 0
    BY <2>4, NewReceiverReceives
  <2>8. received[o] = [i \in 1..r.reassembler.output.popped |-> i]
    <3>1. << >> = [i \in 1..0 |-> i]
      OBVIOUS
    <3> QED
      BY <2>3, <2>7, <3>1
  <2>9. OneWay(p, x, y, written[p], received[o], net[o])
    BY <2>2, <2>3, <2>5, <2>6, <2>7, <2>8 DEF OneWay
  <2>10. Parting(p, x, y, written[o], net[o])
    BY <2>4 DEF Parting
  <2> QED
    BY <2>1, <2>2, <2>4, <2>9, <2>10
<1>2. /\ peer = [p \in Peers |-> peer[p]] /\ net = [p \in Peers |-> net[p]]
      /\ written = [p \in Peers |-> written[p]] /\ received = [p \in Peers |-> received[p]]
  BY DEF Init
<1> QED
  BY <1>1, <1>2 DEF IInv, Consistent

(* A tick of the loop of p, which others may have gone before: its peer    *)
(* becomes step.peer, and what it sends, or nothing, is on its way.        *)
LEMMA TickedKeeps ==
  ASSUME Laws, NEW peers, NEW nets, NEW wrote, NEW got, Consistent(peers, nets, wrote, got),
         NEW p \in Peers, peers[p] = peer[p], TickBound(p),
         NEW step, step = Ticked(p, 1),
         NEW more, more = [q \in Peers |-> more[q]], more[p] \subseteq nets[p],
         more[Other(p)] \subseteq { OnWire(step.sent[i]) : i \in DOMAIN step.sent }
  PROVE  /\ Consistent([peers EXCEPT ![p] = step.peer], more, wrote, got)
         /\ Kept(peer[p], step.peer)
<1>1. PICK o \in Peers : o = Other(p) /\ Other(o) = p
  BY OtherFacts
<1>2. PICK x, w : x = peer[p] /\ w = wrote[p]
  OBVIOUS
<1>3. /\ IsPeer(x) /\ Running(p, x.sender, w)
      /\ Running(o, peers[o].sender, wrote[o])
      /\ Receiving(o, peers[o].sender, wrote[o], x.receiver)
      /\ wrote = [wrote EXCEPT ![p] = w]
  BY <1>1, <1>2 DEF Consistent, OneWay
<1>4. PICK z : z = step.peer
  OBVIOUS
<1>5. Act(p, peers, nets, wrote, z, w, more) /\ Kept(x, z)
  <2>1. CASE active(x)
    <3>1. step = tick(x, 1)
      BY <1>2, <2>1 DEF Ticked
    <3>2. PICK ticked : ticked = Sender!tick(x.sender, 1)
      OBVIOUS
    <3>3. Speaks(p, ticked.s, w, ticked.sent) /\ After(ticked.s, x.sender)
      BY <1>2, <1>3, <3>2, TickRuns DEF TickBound, snd
    <3>4. Stepped(p, step, ticked.s, x.receiver, x.linger, w)
      BY <1>3, <3>1, <3>2, <3>3, TickFacts
    <3>5. Running(p, ticked.s, w)
      BY <3>3, SpeaksFacts
    <3>6. Allowed(p, peers, wrote, ticked.s, x.receiver, x.linger, w)
      BY <1>2, <3>3, <3>5, QuietAllowed DEF After
    <3>7. /\ z.sender = ticked.s /\ z.receiver = x.receiver /\ z.linger = x.linger
          /\ IsPeer(z)
      BY <1>4, <3>4 DEF Stepped
    <3>8. \A m \in more[o] : Says(p, z, w, m) /\ m.receiver = Receiver!send(x.receiver)
      BY <1>1, <1>3, <1>4, <3>4, <3>5, SendsSays
    <3>9. Kept(x, z)
      BY <3>3, <3>7 DEF After, Kept
    <3> QED
      BY <1>1, <3>6, <3>7, <3>8, <3>9 DEF Act
  <2>2. CASE ~active(x)
    <3>1. step = [peer |-> x, sent |-> << >>]
      BY <1>2, <2>2 DEF Ticked
    <3>2. z = x /\ more[o] = {}
      BY <1>1, <1>4, <3>1
    <3>3. Onward(x.sender, x.sender)
      BY <1>3, RunningNumbers DEF Onward
    <3>4. Allowed(p, peers, wrote, x.sender, x.receiver, x.linger, w)
      BY <1>2, <1>3, <3>3, QuietAllowed
    <3> QED
      BY <1>1, <1>3, <3>2, <3>4 DEF Act, Kept
  <2> QED
    BY <2>1, <2>2
<1>6. Consistent([peers EXCEPT ![p] = z], more, [wrote EXCEPT ![p] = w], got)
  BY <1>5, ActKeeps
<1> QED
  BY <1>2, <1>3, <1>4, <1>5, <1>6

(* Time passes for both.                                                   *)
LEMMA TickKeeps ==
  ASSUME Laws, IInv, Tick
  PROVE  IInv' /\ \A q \in Peers : Kept(peer[q], peer'[q])
<1>1. /\ Client \in Peers /\ Server \in Peers /\ Client # Server
      /\ Other(Client) = Server /\ Other(Server) = Client
      /\ \A p \in Peers : p = Client \/ p = Server
  BY ConnectionAssumption DEF Peers, Other
<1>2. PICK a, b : a = Ticked(Client, 1) /\ b = Ticked(Server, 1)
  OBVIOUS
<1>3. PICK fromA, fromB :
        /\ fromA = { OnWire(a.sent[i]) : i \in DOMAIN a.sent }
        /\ fromB = { OnWire(b.sent[i]) : i \in DOMAIN b.sent }
  OBVIOUS
<1>4. PICK atA, atB :
        /\ atA \subseteq fromB /\ atB \subseteq fromA
        /\ net' = [p \in Peers |-> IF p = Client THEN atA ELSE atB]
        /\ peer' = [p \in Peers |-> IF p = Client THEN a.peer ELSE b.peer]
  <2> DEFINE step == [p \in Peers |-> Ticked(p, 1)]
             arriving(p) ==
               { OnWire(step[Other(p)].sent[i]) : i \in DOMAIN step[Other(p)].sent }
  <2>1. PICK dropped \in SUBSET Peers :
          /\ net' = [p \in Peers |-> IF p \in dropped THEN {} ELSE arriving(p)]
          /\ peer' = [p \in Peers |-> step[p].peer]
    BY DEF Tick
  <2>2. step[Client] = a /\ step[Server] = b
    BY <1>1, <1>2
  <2> HIDE DEF step
  <2>3. arriving(Client) = fromB /\ arriving(Server) = fromA
    BY <1>1, <1>3, <2>2
  <2> HIDE DEF arriving
  <2>4. PICK atA, atB :
          /\ atA = IF Client \in dropped THEN {} ELSE fromB
          /\ atB = IF Server \in dropped THEN {} ELSE fromA
    OBVIOUS
  <2>5. \A p \in Peers :
          (IF p \in dropped THEN {} ELSE arriving(p)) = IF p = Client THEN atA ELSE atB
    BY <1>1, <2>3, <2>4
  <2>6. net' = [p \in Peers |-> IF p = Client THEN atA ELSE atB]
    BY <2>1, <2>5
  <2>7. peer' = [p \in Peers |-> IF p = Client THEN a.peer ELSE b.peer]
    BY <1>1, <2>1, <2>2
  <2>8. atA \subseteq fromB /\ atB \subseteq fromA
    BY <2>4
  <2> QED
    BY <2>6, <2>7, <2>8
<1>5. PICK first, mid, last : 
        /\ first = [p \in Peers |-> IF p = Server THEN atB ELSE {}]
        /\ mid = [peer EXCEPT ![Client] = a.peer]
        /\ last = [p \in Peers |-> IF p = Client THEN atA ELSE atB]
  OBVIOUS
<1>6. /\ TickBound(Client) /\ TickBound(Server) /\ written' = written /\ received' = received
  BY <1>1 DEF Tick
<1>7. peer = [p \in Peers |-> peer[p]]
  BY DEF IInv, Consistent
<1>8. /\ first = [p \in Peers |-> first[p]] /\ first[Client] = {} /\ first[Server] = atB
      /\ last = [p \in Peers |-> last[p]] /\ last[Client] = atA /\ last[Server] = atB
      /\ mid = [p \in Peers |-> mid[p]] /\ mid[Client] = a.peer /\ mid[Server] = peer[Server]
  BY <1>1, <1>5, <1>7
<1>9. Consistent(mid, first, written, received) /\ Kept(peer[Client], a.peer)
  <2>1. /\ Consistent(peer, net, written, received) /\ Client \in Peers
        /\ first[Client] \subseteq net[Client]
        /\ first[Other(Client)] \subseteq { OnWire(a.sent[i]) : i \in DOMAIN a.sent }
    BY <1>1, <1>3, <1>4, <1>8 DEF IInv
  <2>2. /\ TickBound(Client) /\ a = Ticked(Client, 1)
        /\ first = [p \in Peers |-> first[p]]
    BY <1>2, <1>6, <1>8
  <2>3. /\ Consistent([peer EXCEPT ![Client] = a.peer], first, written, received)
        /\ Kept(peer[Client], a.peer)
    BY <2>1, <2>2, TickedKeeps
  <2> QED
    BY <1>5, <2>3
<1>10. /\ Consistent([mid EXCEPT ![Server] = b.peer], last, written, received)
       /\ Kept(peer[Server], b.peer)
  <2>1. /\ last[Server] \subseteq first[Server] /\ mid[Server] = peer[Server]
        /\ last[Other(Server)] \subseteq { OnWire(b.sent[i]) : i \in DOMAIN b.sent }
    BY <1>1, <1>3, <1>4, <1>8
  <2> QED
    BY <1>1, <1>2, <1>6, <1>8, <1>9, <2>1, TickedKeeps
<1>11. peer' = [mid EXCEPT ![Server] = b.peer] /\ net' = last
  BY <1>1, <1>4, <1>5, <1>7, <1>8
<1>12. \A q \in Peers : Kept(peer[q], peer'[q])
  <2>1. peer'[Client] = a.peer /\ peer'[Server] = b.peer
    BY <1>1, <1>4
  <2> QED
    BY <1>1, <1>9, <1>10, <2>1
<1> QED
  BY <1>6, <1>10, <1>11, <1>12 DEF IInv

(* Every step keeps the two peers consistent.                              *)
LEMMA NextKeeps ==
  ASSUME Laws
  PROVE  IInv /\ [Next]_vars => IInv'
<1> SUFFICES ASSUME IInv, [Next]_vars PROVE IInv'
  OBVIOUS
<1>1. CASE Connect
  BY <1>1, ConnectKeeps
<1>2. ASSUME NEW p \in Peers, NEW n \in 1..SendCapacity[p], Write(p, n) PROVE IInv'
  BY <1>2, WriteKeeps
<1>3. ASSUME NEW p \in Peers, Shutdown(p) PROVE IInv'
  BY <1>3, ShutdownKeeps
<1>4. ASSUME NEW p \in Peers, NEW n \in 1..RecvCapacity[p], Read(p, n) PROVE IInv'
  BY <1>4, ReadKeeps
<1>5. ASSUME NEW p \in Peers, Timeout(p) PROVE IInv'
  BY <1>5, TimeoutKeeps
<1>6. ASSUME NEW p \in Peers, NEW msg \in net[p], Deliver(p, msg) PROVE IInv'
  BY <1>6, DeliverKeeps
<1>7. ASSUME NEW p \in Peers, NEW msg \in net[p], DropOnRead(p, msg) \/ Unread(p, msg)
      PROVE  IInv'
  BY <1>7, LossKeeps DEF DropOnRead, Unread
<1>8. CASE NetworkStep
  BY <1>6, <1>7, <1>8 DEF NetworkStep
<1>9. CASE Tick
  BY <1>9, TickKeeps
<1>10. CASE UNCHANGED vars
  BY <1>10 DEF IInv, vars
<1> QED
  BY <1>1, <1>2, <1>3, <1>4, <1>5, <1>8, <1>9, <1>10 DEF Next

-----------------------------------------------------------------------------
(* What has arrived at p's end of the stream of the other: its first bytes.*)
LEMMA ArrivedIs ==
  ASSUME Laws, NEW p \in Peers, NEW q, NEW w, Running(p, q, w), NEW r, Receiving(p, q, w, r),
         NEW got, got = [i \in 1..r.reassembler.output.popped |-> i]
  PROVE  /\ r.reassembler.next_index_to_write \in 0..w
         /\ got \o r.reassembler.output.queue = [i \in 1..r.reassembler.next_index_to_write |-> i]
         /\ Len(got \o r.reassembler.output.queue) = r.reassembler.next_index_to_write
<1>1. PICK m, queue, k : m = r.reassembler.output.popped /\ queue = r.reassembler.output.queue
                         /\ k = r.reassembler.next_index_to_write
  OBVIOUS
<1>2. /\ m \in Nat /\ queue \in Seq(Nat) /\ k = m + Len(queue)
      /\ \A i \in 1..Len(queue) : queue[i] = m + i
      /\ k \in 0..q.input.popped /\ q.input.popped \in 0..w /\ w \in Nat
  <2>1. /\ m \in Nat /\ queue \in Seq(Nat) /\ k = m + Len(queue)
        /\ \A i \in 1..Len(queue) : queue[i] = m + i
        /\ k \in 0..q.input.popped
    BY <1>1, ReceivingNumbers
  <2>2. q.input.popped \in 0..w /\ w \in 0..ToWrite[p] /\ ToWrite[p] \in Nat
    BY RunningNumbers, ConnectionAssumption DEF Peers
  <2> QED
    BY <2>1, <2>2
<1>3. PICK n \in Nat : n = Len(queue) /\ n <= Len(queue)
  BY <1>2, LenProperties
<1>4. SubSeq(queue, 1, n) = queue
  <2>1. \A i \in 1..n : queue[i] \in Nat
    BY <1>2, <1>3
  <2>2. PICK part : part = SubSeq(queue, 1, n)
    OBVIOUS
  <2>3. /\ part \in Seq(Nat) /\ Len(part) = IF 1 <= n THEN n - 1 + 1 ELSE 0
        /\ \A i \in 1..(n - 1 + 1) : part[i] = queue[1 + i - 1]
    BY <1>2, <1>3, <2>1, <2>2, SubSeqProperties
  <2>4. Len(part) = Len(queue) /\ \A i \in 1..Len(part) : part[i] = queue[i]
    BY <1>3, <2>3
  <2>5. part = queue
    BY <1>2, <2>3, <2>4, SeqEqual
  <2> QED
    BY <2>2, <2>5
<1>5. got \o queue = [i \in 1..k |-> i]
  <2>1. PICK part : part = [i \in 1..m |-> i] /\ part = got
    BY <1>1
  <2>3. /\ m \in Nat /\ queue \in Seq(Nat) /\ n \in Nat /\ n <= Len(queue)
        /\ \A i \in 1..Len(queue) : queue[i] = m + i
    BY <1>2, <1>3
  <2>4. part = [i \in 1..m |-> i]
    BY <2>1
  <2>2. part \o SubSeq(queue, 1, n) = [i \in 1..(m + n) |-> i]
    BY <2>3, <2>4, MoreBytes
  <2> QED
    BY <1>2, <1>3, <1>4, <2>1, <2>2
<1>6. k \in 0..w
  BY <1>2
<1>7. Len(got \o queue) = k
  <2>1. PICK f : f = got \o queue
    OBVIOUS
  <2>2. f \in [1..k -> Nat] /\ k \in Nat
    BY <1>5, <1>6, <2>1
  <2>3. Len(f) = k
    BY <2>2, SeqDef, LenProperties
  <2> QED
    BY <2>1, <2>3
<1> QED
  BY <1>1, <1>5, <1>6, <1>7

(* What the invariant says of a peer and of the other.                     *)
LEMMA TwoPeers ==
  ASSUME IInv, NEW p \in Peers, NEW o, o = Other(p)
  PROVE  /\ o \in Peers /\ o # p /\ Other(o) = p /\ (\A q \in Peers : q = p \/ q = o)
         /\ Running(p, snd(p), written[p]) /\ Receiving(p, snd(p), written[p], rcv(o))
         /\ Oldest(snd(p)) <= Awaited(rcv(o))
         /\ received[o] = [i \in 1..rcv(o).reassembler.output.popped |-> i]
         /\ Parting(p, peer[p], peer[o], written[o], net[o])
<1>1. /\ OneWay(p, peer[p], peer[o], written[p], received[o], net[o])
      /\ Parting(p, peer[p], peer[o], written[o], net[o])
  BY DEF IInv, Consistent
<1>2. o \in Peers /\ o # p /\ Other(o) = p /\ \A q \in Peers : q = p \/ q = o
  BY OtherFacts DEF Peers, Other
<1> QED
  BY <1>1, <1>2 DEF OneWay, snd, rcv

(* So what p takes as acknowledged has arrived, and was sent.              *)
LEMMA HasArrived ==
  ASSUME Laws
  PROVE  IInv => AcknowledgedHasArrived
<1> SUFFICES ASSUME IInv, NEW p \in Peers
             PROVE  /\ OldestUnacked(p) <= Expected(Other(p))
                    /\ Expected(Other(p)) <= snd(p).next_abs_seqno
  BY DEF AcknowledgedHasArrived
<1>1. PICK o \in Peers : o = Other(p)
  BY OtherFacts
<1>2. /\ Running(p, snd(p), written[p]) /\ Receiving(p, snd(p), written[p], rcv(o))
      /\ Oldest(snd(p)) <= Awaited(rcv(o))
  BY <1>1, TwoPeers
<1>3. Awaited(rcv(o)) \in 0..snd(p).next_abs_seqno /\ snd(p).next_abs_seqno \in 0..Half
  BY <1>2, ReceivingNumbers, ShortNumbers
<1>4. Awaited(rcv(o)) <= snd(p).next_abs_seqno
  BY <1>3, HalfTwice
<1>5. OldestUnacked(p) = Oldest(snd(p)) /\ Expected(o) = Awaited(rcv(o))
  BY DEF OldestUnacked, Oldest, Expected, Awaited
<1> QED
  BY <1>1, <1>2, <1>4, <1>5

(* A peer that has stopped without error has had all of its stream         *)
(* acknowledged, its end too; so it has arrived, and so has the other's.   *)
LEMMA Stopped ==
  ASSUME Laws, IInv, NEW p \in Peers, ~active(peer[p]), ~has_error(peer[p]), NEW o, o = Other(p)
  PROVE  /\ snd(p).fin_sent /\ rcv(o).reassembler.output.closed
         /\ snd(o).fin_sent /\ rcv(p).reassembler.output.closed
<1>1. PICK x, y, w, u : x = peer[p] /\ y = peer[o] /\ w = written[p] /\ u = written[o]
  OBVIOUS
<1>2. /\ o \in Peers /\ Other(o) = p
      /\ Running(p, x.sender, w) /\ Receiving(p, x.sender, w, y.receiver)
      /\ Oldest(x.sender) <= Awaited(y.receiver)
  BY <1>1, TwoPeers DEF snd, rcv
<1>3. Running(o, y.sender, u) /\ Receiving(o, y.sender, u, x.receiver)
  BY <1>1, <1>2, TwoPeers DEF snd, rcv
<1>4. /\ ~(Sender!sequence_numbers_in_flight(x.sender) > 0)
      /\ IsFinished(x.sender.input) /\ x.receiver.reassembler.output.closed
  BY <1>1 DEF active, outbound, inbound
<1>5. PICK next \in Nat, old \in Nat : next = x.sender.next_abs_seqno /\ old = Oldest(x.sender)
  BY <1>2, RunningNumbers, ShortNumbers
<1>6. Sender!sequence_numbers_in_flight(x.sender) = next - old /\ old <= next
  BY <1>2, <1>5, RunningNumbers
<1>7. Sender!sequence_numbers_in_flight(x.sender) = 0 /\ old = next
  BY <1>4, <1>6
<1>8. x.sender.fin_sent
  BY <1>2, <1>4, <1>7, RunningFinished
<1>9. next = w + 2
  BY <1>2, <1>5, <1>8, RunningNumbers
<1>10. Awaited(y.receiver) \in 0..next
  BY <1>2, <1>5, ReceivingNumbers
<1>11. Awaited(y.receiver) = w + 2
  BY <1>2, <1>5, <1>7, <1>9, <1>10
<1>12. y.receiver.reassembler.output.closed
  BY <1>2, <1>11, ReceivingNumbers
<1>13. y.sender.fin_sent
  BY <1>2, <1>3, <1>4, ReceivingNumbers
<1> QED
  BY <1>1, <1>4, <1>8, <1>12, <1>13 DEF snd, rcv

(* So a peer that stops without error leaves nothing behind.               *)
LEMMA ExitsClean ==
  ASSUME Laws
  PROVE  IInv => CleanExit
<1> SUFFICES ASSUME IInv, NEW p \in Peers, ~active(peer[p]), ~has_error(peer[p]),
                    NEW q \in Peers
             PROVE  /\ outbound(peer[q]).closed /\ inbound(peer[q]).closed
                    /\ Len(Arrived(Other(q))) = written[q]
  BY DEF CleanExit
<1>1. PICK o \in Peers : o = Other(q) /\ Other(o) = q
  BY OtherFacts
<1>2. q = p \/ o = p
  BY <1>1 DEF Peers, Other
<1>3. /\ snd(q).fin_sent /\ rcv(o).reassembler.output.closed
      /\ rcv(q).reassembler.output.closed
  BY <1>1, <1>2, Stopped
<1>4. /\ Running(q, snd(q), written[q]) /\ Receiving(q, snd(q), written[q], rcv(o))
      /\ received[o] = [i \in 1..rcv(o).reassembler.output.popped |-> i]
  BY <1>1, TwoPeers
<1>5. outbound(peer[q]).closed
  BY <1>3, <1>4, RunningNumbers DEF outbound, IsFinished, snd
<1>6. rcv(o).reassembler.next_index_to_write = written[q]
  BY <1>3, <1>4, ReceivingNumbers
<1>7. Len(Arrived(o)) = written[q]
  <2>1. PICK r, got, t, w :
          r = rcv(o) /\ got = received[o] /\ t = snd(q) /\ w = written[q]
    OBVIOUS
  <2>2. Running(q, t, w) /\ Receiving(q, t, w, r)
        /\ got = [i \in 1..r.reassembler.output.popped |-> i]
    BY <1>4, <2>1
  <2>3. Len(got \o r.reassembler.output.queue) = r.reassembler.next_index_to_write
    BY <2>2, ArrivedIs, Zenon
  <2>4. Arrived(o) = got \o r.reassembler.output.queue
    BY <2>1 DEF Arrived, inbound, rcv
  <2> QED
    BY <1>6, <2>1, <2>3, <2>4
<1> QED
  BY <1>1, <1>3, <1>5, <1>7 DEF inbound, rcv

(* And one that does not linger has nobody waiting for it.                 *)
LEMMA WaitsNot ==
  ASSUME Laws
  PROVE  IInv => NoNeedToLinger
<1> SUFFICES ASSUME IInv, NEW p \in Peers, ~active(peer[p]), ~has_error(peer[p]),
                    ~peer[p].linger
             PROVE  /\ IsFinished(outbound(peer[Other(p)]))
                    /\ in_flight(Other(p)) = 0
  BY DEF NoNeedToLinger
<1>1. PICK o \in Peers : o = Other(p) /\ Other(o) = p
  BY OtherFacts
<1>2. snd(o).fin_sent /\ rcv(o).reassembler.output.closed
  BY <1>1, Stopped
<1>3. /\ Running(p, snd(p), written[p]) /\ Receiving(p, snd(p), written[p], rcv(o))
      /\ Running(o, snd(o), written[o])
      /\ Parting(p, peer[p], peer[o], written[o], net[o])
  BY <1>1, TwoPeers
<1>4. rcv(o).state = "FIN_RECEIVED"
  BY <1>2, <1>3, ReceivingNumbers
<1>5. DOMAIN snd(o).unacked = {}
  BY <1>3, <1>4 DEF Parting, snd, rcv
<1>6. IsFinished(outbound(peer[o]))
  BY <1>2, <1>3, RunningNumbers DEF outbound, snd
<1>7. in_flight(o) = 0
  <2>1. PICK next \in Nat, old \in Nat : next = snd(o).next_abs_seqno /\ old = Oldest(snd(o))
    BY <1>3, RunningNumbers, ShortNumbers
  <2>2. old = next /\ Sender!sequence_numbers_in_flight(snd(o)) = next - old
    BY <1>3, <1>5, <2>1, RunningNumbers
  <2> QED
    BY <2>1, <2>2 DEF in_flight
<1> QED
  BY <1>1, <1>6, <1>7

-----------------------------------------------------------------------------
(* A stream of which w bytes are written and k have arrived.               *)
View(w, c, k, e) ==
  [written |-> w, shut |-> c, arrived |-> [i \in 1..k |-> i], ended |-> e]

(* More is written to it.                                                  *)
LEMMA ViewWritten ==
  ASSUME NEW w \in Nat, NEW n \in Nat \ {0}, NEW c \in BOOLEAN, ~c, NEW k \in Nat, NEW e
  PROVE  Streams2!Write(View(w, c, k, e), View(w + n, c, k, e))
<1>1. PICK bytes : bytes = [i \in 1..k |-> i]
  OBVIOUS
<1>2. PICK v : v = w + n
  OBVIOUS
<1>3. PICK old, new :
        /\ old = [written |-> w, shut |-> c, arrived |-> bytes, ended |-> e]
        /\ new = [written |-> v, shut |-> c, arrived |-> bytes, ended |-> e]
  OBVIOUS
<1>4. old = View(w, c, k, e) /\ new = View(w + n, c, k, e)
  BY <1>1, <1>2, <1>3 DEF View
<1>5. new = [old EXCEPT !.written = new.written] /\ ~old.shut
  BY <1>3
<1>6. new.written > old.written
  BY <1>2, <1>3
<1> QED
  BY <1>4, <1>5, <1>6 DEF Streams2!Write

(* It is shut down.                                                        *)
LEMMA ViewShut ==
  ASSUME NEW w, NEW c, NEW d \in BOOLEAN, d, NEW k, NEW e
  PROVE  Streams2!Shut(View(w, c, k, e), View(w, d, k, e))
<1>1. PICK bytes : bytes = [i \in 1..k |-> i]
  OBVIOUS
<1>2. PICK old, new :
        /\ old = [written |-> w, shut |-> c, arrived |-> bytes, ended |-> e]
        /\ new = [written |-> w, shut |-> d, arrived |-> bytes, ended |-> e]
  OBVIOUS
<1>3. old = View(w, c, k, e) /\ new = View(w, d, k, e)
  BY <1>1, <1>2 DEF View
<1>4. new = [old EXCEPT !.shut = TRUE]
  <2>1. PICK yes : yes = d
    OBVIOUS
  <2>4. old = [written |-> w, shut |-> c, arrived |-> bytes, ended |-> e]
    BY <1>2
  <2>7. PICK r : r = old
    OBVIOUS
  <2>8. /\ r = [written |-> r.written, shut |-> r.shut, arrived |-> r.arrived,
                ended |-> r.ended]
        /\ r.written = w /\ r.arrived = bytes /\ r.ended = e
    BY <2>4, <2>7
  <2>9. r = [written |-> r.written, shut |-> r.shut, arrived |-> r.arrived,
             ended |-> r.ended]
    BY <2>8
  <2>10. [r EXCEPT !.shut = yes] =
           [written |-> r.written, shut |-> yes, arrived |-> r.arrived, ended |-> r.ended]
    BY <2>9
  <2>5. [old EXCEPT !.shut = yes] =
          [written |-> w, shut |-> yes, arrived |-> bytes, ended |-> e]
    BY <2>7, <2>8, <2>10
  <2>6. new = [written |-> w, shut |-> yes, arrived |-> bytes, ended |-> e]
    BY <1>2, <2>1
  <2>2. new = [old EXCEPT !.shut = yes]
    BY <2>5, <2>6, Zenon
  <2>3. yes = TRUE
    BY <2>1
  <2> QED
    BY <2>2, <2>3
<1> QED
  BY <1>3, <1>4 DEF Streams2!Shut

(* More of it arrives, and perhaps its end.                                *)
LEMMA ViewArrives ==
  ASSUME NEW w \in Nat, NEW c \in BOOLEAN, NEW k \in Nat, NEW l \in k..w,
         NEW d \in BOOLEAN, ~d, NEW e \in BOOLEAN, e => c /\ l = w
  PROVE  Streams2!Arrive(View(w, c, k, d), View(w, c, l, e))
<1>1. PICK a, b : a = [i \in 1..k |-> i] /\ b = [i \in 1..l |-> i]
  OBVIOUS
<1>2. l \in Nat /\ k <= l /\ l <= w
  OBVIOUS
<1>3. PICK more : more = [i \in 1..(l - k) |-> k + i]
  OBVIOUS
<1>4. PICK j \in Nat : j = l - k
  BY <1>2
<1>5. /\ a \in Seq(Nat) /\ Len(a) = k /\ \A i \in 1..k : a[i] = i
      /\ b \in Seq(Nat) /\ Len(b) = l /\ \A i \in 1..l : b[i] = i
      /\ more \in Seq(Nat) /\ Len(more) = j /\ \A i \in 1..j : more[i] = k + i
  <2>1. a \in [1..k -> Nat] /\ b \in [1..l -> Nat] /\ more \in [1..j -> Nat]
    BY <1>1, <1>2, <1>3, <1>4
  <2>2. a \in Seq(Nat) /\ b \in Seq(Nat) /\ more \in Seq(Nat)
    BY <1>2, <2>1, SeqDef
  <2>3. Len(a) = k /\ Len(b) = l /\ Len(more) = j
    BY <1>2, <2>1, <2>2, LenProperties
  <2> QED
    BY <1>1, <1>3, <1>4, <2>2, <2>3
<1>6. b = a \o more
  <2>1. PICK both : both = a \o more
    OBVIOUS
  <2>2. /\ both \in Seq(Nat) /\ Len(both) = k + j
        /\ \A i \in 1..(k + j) : both[i] = IF i <= k THEN a[i] ELSE more[i - k]
    <3>1. PICK m, n : m = Len(a) /\ n = Len(more)
      OBVIOUS
    <3>2. /\ both \in Seq(Nat) /\ Len(both) = m + n
          /\ \A i \in 1..(m + n) : both[i] = IF i <= m THEN a[i] ELSE more[i - m]
      BY <1>5, <2>1, <3>1, ConcatProperties, Zenon
    <3>3. m = k /\ n = j
      BY <1>5, <3>1
    <3> QED
      BY <3>2, <3>3
  <2>3. k + j = l
    BY <1>2, <1>4
  <2>4. ASSUME NEW i \in 1..l PROVE both[i] = b[i]
    <3>1. CASE i <= k
      BY <1>2, <1>5, <2>2, <2>3, <3>1
    <3>2. CASE i > k
      <4>1. i - k \in 1..j /\ k + (i - k) = i
        BY <1>2, <1>4, <3>2
      <4> QED
        BY <1>5, <2>2, <2>3, <3>2, <4>1
    <3> QED
      BY <1>2, <3>1, <3>2
  <2>5. both = b
    BY <1>5, <2>2, <2>3, <2>4, SeqEqual
  <2> QED
    BY <2>1, <2>5
<1>7. Streams2!Bytes(k, l) = more
  BY <1>3 DEF Streams2!Bytes
<1>8. PICK old, new :
        /\ old = [written |-> w, shut |-> c, arrived |-> a, ended |-> d]
        /\ new = [written |-> w, shut |-> c, arrived |-> b, ended |-> e]
  OBVIOUS
<1>9. old = View(w, c, k, d) /\ new = View(w, c, l, e)
  BY <1>1, <1>8 DEF View
<1>10. /\ old.written = w /\ old.shut = c /\ old.arrived = a /\ old.ended = d
       /\ new.arrived = b /\ new.ended = e
       /\ new = [old EXCEPT !.arrived = new.arrived, !.ended = new.ended]
  <2>1. PICK before, after : before = d /\ after = e
    OBVIOUS
  <2>2. /\ old = [written |-> w, shut |-> c, arrived |-> a, ended |-> before]
        /\ new = [written |-> w, shut |-> c, arrived |-> b, ended |-> after]
    BY <1>8, <2>1
  <2>3. /\ old.written = w /\ old.shut = c /\ old.arrived = a /\ old.ended = before
        /\ new.arrived = b /\ new.ended = after
    BY <2>2
  <2>6. old = [written |-> w, shut |-> c, arrived |-> a, ended |-> before]
    BY <2>2
  <2>9. PICK r : r = old
    OBVIOUS
  <2>10. r.written = w /\ r.shut = c
    BY <2>6, <2>9
  <2>11. r = [written |-> r.written, shut |-> r.shut, arrived |-> r.arrived,
              ended |-> r.ended]
    BY <2>6, <2>9
  <2>12. PICK t : t = [r EXCEPT !.arrived = b]
    OBVIOUS
  <2>13. t = [written |-> r.written, shut |-> r.shut, arrived |-> b, ended |-> r.ended]
    BY <2>11, <2>12
  <2>14. [t EXCEPT !.ended = after] =
           [written |-> r.written, shut |-> r.shut, arrived |-> b, ended |-> after]
    BY <2>13
  <2>7. [old EXCEPT !.arrived = b, !.ended = after] =
          [written |-> w, shut |-> c, arrived |-> b, ended |-> after]
    BY <2>9, <2>10, <2>12, <2>14
  <2>8. new = [written |-> w, shut |-> c, arrived |-> b, ended |-> after]
    BY <2>2
  <2>4. new = [old EXCEPT !.arrived = b, !.ended = after]
    BY <2>7, <2>8, Zenon
  <2>5. new = [old EXCEPT !.arrived = new.arrived, !.ended = new.ended]
    BY <2>3, <2>4
  <2> QED
    BY <2>1, <2>3, <2>5
<1>11. Streams2!Arrive(old, new)
  BY <1>2, <1>5, <1>6, <1>7, <1>10 DEF Streams2!Arrive
<1> QED
  BY <1>9, <1>11

(* Where the stream of p stands, of which o holds the other end.           *)
Standing(p, x, y, w) ==
  View(w, x.sender.input.closed, y.receiver.reassembler.next_index_to_write,
       y.receiver.reassembler.output.closed)

(* What is seen of it.                                                     *)
Seen(x, y, w, got) ==
  [written |-> w, shut |-> x.sender.input.closed,
   arrived |-> got \o y.receiver.reassembler.output.queue,
   ended |-> y.receiver.reassembler.output.closed]

(* And how far the other end can be: k bytes have arrived, and the end or  *)
(* not.                                                                    *)
Reaches(c, w, k, e, r) ==
  /\ w \in Nat /\ c \in BOOLEAN /\ k \in 0..w /\ e \in BOOLEAN
  /\ e => c /\ k = w
  /\ r.state = "LISTEN" => k = 0 /\ Awaited(r) = 0
  /\ r.state # "LISTEN" => Awaited(r) = 1 + k + One(e)

(* Both follow from the invariant.                                         *)
LEMMA StandingIs ==
  ASSUME Laws, NEW peers, NEW nets, NEW wrote, NEW got, Consistent(peers, nets, wrote, got),
         NEW p \in Peers, NEW x, x = peers[p], NEW y, y = peers[Other(p)],
         NEW w, w = wrote[p]
  PROVE  /\ Standing(p, x, y, w) = Seen(x, y, w, got[Other(p)])
         /\ Reaches(x.sender.input.closed, w, y.receiver.reassembler.next_index_to_write,
                    y.receiver.reassembler.output.closed, y.receiver)
<1>1. /\ Running(p, x.sender, w) /\ Receiving(p, x.sender, w, y.receiver)
      /\ got[Other(p)] = [i \in 1..y.receiver.reassembler.output.popped |-> i]
  BY DEF Consistent, OneWay
<1>2. PICK r, g, t : r = y.receiver /\ g = got[Other(p)] /\ t = x.sender
  OBVIOUS
<1>3. /\ Running(p, t, w) /\ Receiving(p, t, w, r)
      /\ g = [i \in 1..r.reassembler.output.popped |-> i]
  BY <1>1, <1>2
<1>4. /\ r.reassembler.next_index_to_write \in 0..w
      /\ g \o r.reassembler.output.queue = [i \in 1..r.reassembler.next_index_to_write |-> i]
  BY <1>3, ArrivedIs, Zenon
<1>5. w \in Nat
  <2>1. w \in 0..ToWrite[p] /\ ToWrite[p] \in Nat
    BY <1>3, RunningNumbers, ConnectionAssumption DEF Peers
  <2> QED
    BY <2>1
<1>6. /\ t.input.closed \in BOOLEAN /\ r.reassembler.output.closed \in BOOLEAN
      /\ r.reassembler.output.closed =>
           t.input.closed /\ r.reassembler.next_index_to_write = w
      /\ r.state # "LISTEN" =>
           Awaited(r) = 1 + r.reassembler.next_index_to_write
                          + One(r.reassembler.output.closed)
  BY <1>3, RunningNumbers, ReceivingNumbers DEF IsFinished
<1>7. /\ r.state = "LISTEN" => r.reassembler.next_index_to_write = 0
      /\ r.state = "LISTEN" => Awaited(r) = 0
  BY <1>3 DEF Receiving, Awaited
<1>8. Standing(p, x, y, w) = Seen(x, y, w, g)
  BY <1>2, <1>4 DEF Standing, View, Seen
<1>9. Reaches(t.input.closed, w, r.reassembler.next_index_to_write,
              r.reassembler.output.closed, r)
  BY <1>4, <1>5, <1>6, <1>7 DEF Reaches
<1> QED
  BY <1>2, <1>8, <1>9

(* Where the two streams stand is what the applications see of them.       *)
LEMMA ConversationIs ==
  ASSUME Laws, IInv, NEW p \in Peers
  PROVE  Conversation[p] = Standing(p, peer[p], peer[Other(p)], written[p])
<1>1. Consistent(peer, net, written, received)
  BY DEF IInv
<1>2. Standing(p, peer[p], peer[Other(p)], written[p]) =
        Seen(peer[p], peer[Other(p)], written[p], received[Other(p)])
  BY <1>1, StandingIs
<1> QED
  BY <1>2 DEF Conversation, Arrived, inbound, outbound, Seen

(* And after a step as well.                                               *)
LEMMA ConversationBecomes ==
  ASSUME Laws, IInv', NEW p \in Peers
  PROVE  Conversation'[p] = Standing(p, peer'[p], peer'[Other(p)], written'[p])
<1>1. PICK peers, nets, wrote, got :
        peers = peer' /\ nets = net' /\ wrote = written' /\ got = received'
  OBVIOUS
<1>2. Consistent(peers, nets, wrote, got)
  BY <1>1 DEF IInv
<1>3. Standing(p, peers[p], peers[Other(p)], wrote[p]) =
        Seen(peers[p], peers[Other(p)], wrote[p], got[Other(p)])
  BY <1>2, StandingIs
<1> QED
  BY <1>1, <1>3 DEF Conversation, Arrived, inbound, outbound, Seen

(* How far each stream can be, before a step and after.                    *)
LEMMA ReachesNow ==
  ASSUME Laws, IInv, NEW p \in Peers, NEW r, r = peer[Other(p)].receiver
  PROVE  Reaches(peer[p].sender.input.closed, written[p],
                 r.reassembler.next_index_to_write, r.reassembler.output.closed, r)
<1>1. Consistent(peer, net, written, received)
  BY DEF IInv
<1>2. PICK x, y, w : x = peer[p] /\ y = peer[Other(p)] /\ w = written[p]
  OBVIOUS
<1>3. Reaches(x.sender.input.closed, w, y.receiver.reassembler.next_index_to_write,
              y.receiver.reassembler.output.closed, y.receiver)
  BY <1>1, <1>2, StandingIs
<1> QED
  BY <1>2, <1>3

(* And after.                                                              *)
LEMMA ReachesThen ==
  ASSUME Laws, IInv', NEW p \in Peers, NEW r, r = peer'[Other(p)].receiver
  PROVE  Reaches(peer'[p].sender.input.closed, written'[p],
                 r.reassembler.next_index_to_write, r.reassembler.output.closed, r)
<1>1. PICK peers, nets, wrote, got :
        peers = peer' /\ nets = net' /\ wrote = written' /\ got = received'
  OBVIOUS
<1>2. Consistent(peers, nets, wrote, got)
  BY <1>1 DEF IInv
<1>3. PICK x, y, w : x = peers[p] /\ y = peers[Other(p)] /\ w = wrote[p]
  OBVIOUS
<1>4. Reaches(x.sender.input.closed, w, y.receiver.reassembler.next_index_to_write,
              y.receiver.reassembler.output.closed, y.receiver)
  BY <1>2, <1>3, StandingIs
<1> QED
  BY <1>1, <1>3, <1>4

(* Nothing is seen of a step that keeps where the streams stand.           *)
LEMMA NothingSeen ==
  ASSUME Laws, IInv, IInv', written' = written, \A q \in Peers : Kept(peer[q], peer'[q])
  PROVE  Conversation' = Conversation
<1>1. ASSUME NEW p \in Peers PROVE Conversation'[p] = Conversation[p]
  <2>1. Kept(peer[p], peer'[p]) /\ Kept(peer[Other(p)], peer'[Other(p)])
    BY OtherFacts
  <2>2. Standing(p, peer'[p], peer'[Other(p)], written'[p]) =
        Standing(p, peer[p], peer[Other(p)], written[p])
    BY <2>1 DEF Kept, Standing
  <2> QED
    BY <2>2, ConversationIs, ConversationBecomes
<1>2. PICK a, b : a = Conversation /\ b = Conversation'
  OBVIOUS
<1>3. a = [p \in Peers |-> a[p]] /\ b = [p \in Peers |-> b[p]]
  BY <1>2 DEF Conversation
<1> QED
  BY <1>1, <1>2, <1>3

(* A step of one stream is one of the two together.                        *)
LEMMA OneMoves ==
  ASSUME NEW p \in Peers, Conversation'[Other(p)] = Conversation[Other(p)],
         \/ Streams2!Shut(Conversation[p], Conversation'[p])
         \/ Streams2!Write(Conversation[p], Conversation'[p])
         \/ Streams2!Arrive(Conversation[p], Conversation'[p])
  PROVE  Streams2!Next
<1>1. \A q \in Peers \ {p} : Conversation'[q] = Conversation[q]
  BY DEF Peers, Other
<1> QED
  BY <1>1 DEF Streams2!Next

(* The application writes.                                                 *)
LEMMA WriteSeen ==
  ASSUME Laws, IInv, NEW p \in Peers, NEW n \in 1..SendCapacity[p], Write(p, n)
  PROVE  Streams2!Next
<1>1. IInv' /\ \A q \in Peers : Kept(peer[q], peer'[q])
  BY WriteKeeps
<1>2. PICK o \in Peers : o = Other(p) /\ o # p /\ Other(o) = p
  BY OtherFacts
<1>3. PICK x, y, w : x = peer[p] /\ y = peer[o] /\ w = written[p]
  OBVIOUS
<1>4. written = [q \in Peers |-> written[q]]
  BY DEF IInv, Consistent
<1>5. written'[p] = w + n /\ written'[o] = written[o] /\ ~x.sender.input.closed
  BY <1>2, <1>3, <1>4 DEF Write, MayPush, outbound
<1>6. n \in Nat \ {0}
  BY ConnectionAssumption DEF Peers
<1>7. Kept(x, peer'[p]) /\ Kept(y, peer'[o])
  BY <1>1, <1>3
<1>8. Conversation'[o] = Conversation[o]
  <2>1. Standing(o, peer'[o], peer'[p], written'[o]) = Standing(o, y, x, written[o])
    BY <1>5, <1>7 DEF Kept, Standing
  <2> QED
    BY <1>1, <1>2, <1>3, <2>1, ConversationIs, ConversationBecomes
<1>9. PICK c, k, e : /\ c = x.sender.input.closed
                     /\ k = y.receiver.reassembler.next_index_to_write
                     /\ e = y.receiver.reassembler.output.closed
  OBVIOUS
<1>10. w \in Nat /\ c \in BOOLEAN /\ ~c /\ k \in Nat
  <2>1. Reaches(c, w, k, e, y.receiver)
    BY <1>2, <1>3, <1>9, ReachesNow
  <2> QED
    BY <1>5, <1>9, <2>1 DEF Reaches
<1>11. Standing(p, x, y, w) = View(w, c, k, e)
  BY <1>9 DEF Standing
<1>12. Standing(p, peer'[p], peer'[o], written'[p]) = View(w + n, c, k, e)
  BY <1>5, <1>7, <1>9 DEF Kept, Standing
<1>13. Streams2!Write(View(w, c, k, e), View(w + n, c, k, e))
  BY <1>6, <1>10, ViewWritten
<1>14. Conversation[p] = View(w, c, k, e) /\ Conversation'[p] = View(w + n, c, k, e)
  BY <1>1, <1>2, <1>3, <1>11, <1>12, ConversationIs, ConversationBecomes
<1> QED
  BY <1>2, <1>8, <1>13, <1>14, OneMoves

(* The application shuts its side down.                                    *)
LEMMA ShutdownSeen ==
  ASSUME Laws, IInv, NEW p \in Peers, Shutdown(p)
  PROVE  Streams2!Next
<1>1. PICK o \in Peers : o = Other(p) /\ o # p /\ Other(o) = p
  BY OtherFacts
<1>2. /\ IInv' /\ peer'[p].sender.input.closed
      /\ peer'[p].receiver = peer[p].receiver /\ peer'[o] = peer[o]
      /\ written' = written
  BY <1>1, ShutdownKeeps DEF Shutdown
<1>3. PICK x, y, w, z : x = peer[p] /\ y = peer[o] /\ w = written[p] /\ z = peer'[p]
  OBVIOUS
<1>4. Conversation'[o] = Conversation[o]
  <2>1. Standing(o, peer'[o], peer'[p], written'[o]) = Standing(o, y, x, written[o])
    BY <1>2, <1>3 DEF Standing
  <2> QED
    BY <1>1, <1>2, <1>3, <2>1, ConversationIs, ConversationBecomes
<1>5. PICK c, d, k, e : /\ c = x.sender.input.closed /\ d = z.sender.input.closed
                        /\ k = y.receiver.reassembler.next_index_to_write
                        /\ e = y.receiver.reassembler.output.closed
  OBVIOUS
<1>6. d \in BOOLEAN /\ d
  <2>1. z.sender.input.closed \in BOOLEAN
    BY <1>1, <1>2, <1>3, ReachesThen DEF Reaches
  <2> QED
    BY <1>2, <1>3, <1>5, <2>1
<1>7. Streams2!Shut(View(w, c, k, e), View(w, d, k, e))
  BY <1>6, ViewShut
<1>8. Conversation[p] = View(w, c, k, e)
  BY <1>1, <1>3, <1>5, ConversationIs DEF Standing
<1>9. Conversation'[p] = View(w, d, k, e)
  BY <1>1, <1>2, <1>3, <1>5, ConversationBecomes DEF Standing
<1> QED
  BY <1>1, <1>4, <1>7, <1>8, <1>9, OneMoves

(* A segment is delivered: more of the stream of the other may arrive.     *)
LEMMA DeliverSeen ==
  ASSUME Laws, IInv, NEW p \in Peers, NEW msg \in net[p], Deliver(p, msg)
  PROVE  Streams2!Next \/ Conversation' = Conversation
<1>1. PICK o \in Peers : o = Other(p) /\ o # p /\ Other(o) = p
  BY OtherFacts
<1>2. /\ IInv' /\ peer'[o] = peer[o] /\ written' = written
      /\ peer'[p].sender.input.closed = peer[p].sender.input.closed
      /\ Awaited(peer[p].receiver) <= Awaited(peer'[p].receiver)
      /\ peer[p].receiver.reassembler.output.closed =>
           peer'[p].receiver.reassembler.output.closed
  BY <1>1, DeliverKeeps DEF Deliver
<1>3. PICK x, y, w, z : x = peer[p] /\ y = peer[o] /\ w = written[o] /\ z = peer'[p]
  OBVIOUS
<1>4. PICK c, k, d, l, e : 
        /\ c = y.sender.input.closed
        /\ k = x.receiver.reassembler.next_index_to_write
        /\ d = x.receiver.reassembler.output.closed
        /\ l = z.receiver.reassembler.next_index_to_write
        /\ e = z.receiver.reassembler.output.closed
  OBVIOUS
<1>5. /\ w \in Nat /\ c \in BOOLEAN /\ k \in 0..w /\ d \in BOOLEAN /\ (d => c /\ k = w)
      /\ x.receiver.state = "LISTEN" => k = 0
      /\ x.receiver.state # "LISTEN" => Awaited(x.receiver) = 1 + k + One(d)
  <2>1. Reaches(c, w, k, d, x.receiver)
    BY <1>1, <1>3, <1>4, ReachesNow
  <2> QED
    BY <2>1 DEF Reaches
<1>6. /\ l \in 0..w /\ e \in BOOLEAN /\ (e => c /\ l = w)
      /\ z.receiver.state = "LISTEN" => Awaited(z.receiver) = 0
      /\ z.receiver.state # "LISTEN" => Awaited(z.receiver) = 1 + l + One(e)
  <2>1. peer'[o].sender.input.closed = c /\ written'[o] = w
    BY <1>2, <1>3, <1>4
  <2>2. Reaches(c, w, l, e, z.receiver)
    BY <1>1, <1>2, <1>3, <1>4, <2>1, ReachesThen
  <2> QED
    BY <2>2 DEF Reaches
<1>7. (d => e) /\ Awaited(x.receiver) <= Awaited(z.receiver)
  BY <1>2, <1>3, <1>4
<1>8. k <= l
  <2>1. CASE x.receiver.state = "LISTEN"
    BY <1>5, <1>6, <2>1
  <2>2. CASE e
    BY <1>5, <1>6, <2>2
  <2>3. CASE x.receiver.state # "LISTEN" /\ ~e
    <3>1. One(d) = 0 /\ One(e) = 0
      BY <1>7, <2>3 DEF One
    <3>2. PICK a \in Int, b \in Int : 
            a = Awaited(x.receiver) /\ b = Awaited(z.receiver) /\ a = 1 + k
      BY <1>5, <1>6, <2>3, <3>1
    <3>3. b = 1 + l
      BY <1>5, <1>6, <1>7, <3>1, <3>2
    <3> QED
      BY <1>5, <1>6, <1>7, <3>2, <3>3
  <2> QED
    BY <2>1, <2>2, <2>3
<1>9. Conversation'[p] = Conversation[p]
  <2>1. Standing(p, z, peer'[o], written'[p]) = Standing(p, x, y, written[p])
    BY <1>2, <1>3 DEF Standing
  <2> QED
    BY <1>1, <1>2, <1>3, <2>1, ConversationIs, ConversationBecomes
<1>10. Conversation[o] = View(w, c, k, d)
  BY <1>1, <1>3, <1>4, ConversationIs DEF Standing
<1>11. Conversation'[o] = View(w, c, l, e)
  BY <1>1, <1>2, <1>3, <1>4, ConversationBecomes DEF Standing
<1>12. CASE d
  <2>1. e = d /\ l = k
    BY <1>5, <1>6, <1>7, <1>12
  <2>2. Conversation'[o] = Conversation[o]
    BY <1>10, <1>11, <2>1
  <2>3. PICK a, b : a = Conversation /\ b = Conversation'
    OBVIOUS
  <2>4. a = [q \in Peers |-> a[q]] /\ b = [q \in Peers |-> b[q]]
    BY <2>3 DEF Conversation
  <2>5. \A q \in Peers : q = p \/ q = o
    BY <1>1 DEF Peers, Other
  <2> QED
    BY <1>9, <2>2, <2>3, <2>4, <2>5
<1>13. CASE ~d
  <2>1. l \in k..w /\ k \in Nat
    BY <1>5, <1>6, <1>8
  <2>2. Streams2!Arrive(View(w, c, k, d), View(w, c, l, e))
    BY <1>5, <1>6, <1>13, <2>1, ViewArrives
  <2> QED
    BY <1>1, <1>9, <1>10, <1>11, <2>2, OneMoves
<1> QED
  BY <1>12, <1>13

(* At first both streams are new.                                          *)
LEMMA BothNew ==
  ASSUME Laws
  PROVE  Init => Streams2!Init
<1> SUFFICES ASSUME Init PROVE Streams2!Init
  OBVIOUS
<1>1. IInv
  BY InitInv
<1>2. ASSUME NEW p \in Peers PROVE Conversation[p] = Streams2!New
  <2>1. PICK o \in Peers : o = Other(p)
    BY OtherFacts
  <2>2. PICK b : b = Receiver!NewReassembler(Receiver!NewStream(RecvCapacity[o]))
    OBVIOUS
  <2>3. /\ peer[o].receiver.reassembler = b
        /\ peer[p].sender = Sender!NewSender(SendCapacity[p], ISN[p])
        /\ written[p] = 0 /\ received[o] = << >>
    BY <2>1, <2>2 DEF Init, NewPeer, Receiver!NewReceiver
  <2>4. b.output.queue = << >> /\ b.output.closed = FALSE
    BY <2>2 DEF Receiver!NewReassembler, Receiver!NewStream
  <2>5. ~peer[p].sender.input.closed /\ peer[p].sender.input.closed \in BOOLEAN
    BY <2>3, NewSenderRuns, RunningNumbers
  <2>6. << >> \o << >> = << >>
    OBVIOUS
  <2> QED
    BY <2>1, <2>3, <2>4, <2>5, <2>6
    DEF Conversation, Arrived, inbound, outbound, Streams2!New
<1>3. PICK a : a = Conversation
  OBVIOUS
<1>4. a = [p \in Peers |-> a[p]]
  BY <1>3 DEF Conversation
<1> QED
  BY <1>2, <1>3, <1>4 DEF Streams2!Init

(* Every step of the connection is one of a stream, or none.               *)
LEMMA BothStep ==
  ASSUME Laws
  PROVE  IInv /\ [Next]_vars => [Streams2!Next]_Conversation
<1> SUFFICES ASSUME IInv, [Next]_vars
             PROVE  Streams2!Next \/ Conversation' = Conversation
  OBVIOUS
<1>1. IInv'
  BY NextKeeps
<1>2. CASE Connect
  BY <1>1, <1>2, ConnectKeeps, NothingSeen DEF Connect
<1>3. ASSUME NEW p \in Peers, NEW n \in 1..SendCapacity[p], Write(p, n)
      PROVE  Streams2!Next
  BY <1>3, WriteSeen
<1>4. ASSUME NEW p \in Peers, Shutdown(p) PROVE Streams2!Next
  BY <1>4, ShutdownSeen
<1>5. ASSUME NEW p \in Peers, NEW n \in 1..RecvCapacity[p], Read(p, n)
      PROVE  Conversation' = Conversation
  BY <1>1, <1>5, ReadKeeps, NothingSeen DEF Read
<1>6. ASSUME NEW p \in Peers, Timeout(p) PROVE Conversation' = Conversation
  BY <1>1, <1>6, TimeoutKeeps, NothingSeen DEF Timeout
<1>7. ASSUME NEW p \in Peers, NEW msg \in net[p], Deliver(p, msg)
      PROVE  Streams2!Next \/ Conversation' = Conversation
  BY <1>7, DeliverSeen
<1>8. ASSUME NEW p \in Peers, NEW msg \in net[p], DropOnRead(p, msg) \/ Unread(p, msg)
      PROVE  Conversation' = Conversation
  BY <1>8 DEF DropOnRead, Unread, Conversation, Arrived, inbound, outbound
<1>9. CASE NetworkStep
  BY <1>7, <1>8, <1>9 DEF NetworkStep
<1>10. CASE Tick
  BY <1>1, <1>10, TickKeeps, NothingSeen DEF Tick
<1>11. CASE UNCHANGED vars
  BY <1>11 DEF vars, Conversation, Arrived, inbound, outbound
<1> QED
  BY <1>2, <1>3, <1>4, <1>5, <1>6, <1>9, <1>10, <1>11 DEF Next

-----------------------------------------------------------------------------
(* What is proved about the Reassembler, of the value an inbound           *)
(* Reassembler has.                                                        *)
Asm == INSTANCE ReassemblerProofs WITH
  Byte <- Nat, Worlds <- Peers, Capacity <- RecvCapacity,
  Segments <- [p \in Peers |-> {}], world <- Client, r <- {}, offered <- {}

(* What ReassemblerProofs assumes of its constants holds.                  *)
LEMMA PartsAssume == Asm!ReassemblerAssumption /\ Asm!WrapAssumption
<1> USE ConnectionAssumption
<1>1. Asm!ReassemblerAssumption
  BY DEF Asm!ReassemblerAssumption, Peers
<1>2. Asm!WrapAssumption
  BY DEF Asm!WrapAssumption
<1> QED
  BY <1>1, <1>2

(* A Reassembler's window,                                                 *)
LEMMA SameWindow ==
  ASSUME NEW q, NEW f, NEW d, NEW e
  PROVE  /\ Asm!NothingToStore(q, f, d) = Receiver!NothingToStore(q, f, d)
         /\ Asm!Trimmed(q, f, d) = Receiver!Trimmed(q, f, d)
         /\ Asm!NoteEof(q, f, d, e) = Receiver!NoteEof(q, f, d, e)
         /\ Asm!OriginalLast(f, d) = Receiver!OriginalLast(f, d)
         /\ Asm!FirstUnacceptable(q) = Receiver!FirstUnacceptable(q)
  BY DEF Asm!NothingToStore, Receiver!NothingToStore, Asm!Trimmed,
         Receiver!Trimmed, Asm!NoteEof, Receiver!NoteEof, Asm!OriginalLast,
         Receiver!OriginalLast, Asm!FirstUnacceptable,
         Receiver!FirstUnacceptable, Asm!Lesser, Receiver!Lesser,
         Asm!Greater, Receiver!Greater, Asm!BytesBuffered,
         Receiver!BytesBuffered, Asm!AvailableCapacity,
         Receiver!AvailableCapacity, Asm!Start, Receiver!Start, Asm!End,
         Receiver!End, Asm!Substring, Receiver!Substring

(* What waits.                                                             *)
LEMMA SameStore ==
  ASSUME NEW u, NEW t, NEW n
  PROVE  /\ Asm!Store(u, n) = Receiver!Store(u, n)
         /\ Asm!Inside(t, n) = Receiver!Inside(t, n)
         /\ Asm!Known(u, n) = Receiver!Known(u, n)
         /\ Asm!ByteAt(u, n) = Receiver!ByteAt(u, n)
  BY DEF Asm!Store, Receiver!Store, Asm!Inside, Receiver!Inside, Asm!Known,
         Receiver!Known, Asm!ByteAt, Receiver!ByteAt, Asm!Disjoint,
         Receiver!Disjoint, Asm!Covers, Receiver!Covers, Asm!Merged,
         Receiver!Merged, Asm!Substring, Receiver!Substring

(* What is written.                                                        *)
LEMMA SameGap ==
  ASSUME NEW q
  PROVE  /\ Asm!Gap(q) = Receiver!Gap(q)
  BY DEF Asm!Gap, Receiver!Gap, Asm!Lesser, Receiver!Lesser, Asm!Greater,
         Receiver!Greater, Asm!BytesBuffered, Receiver!BytesBuffered,
         Asm!AvailableCapacity, Receiver!AvailableCapacity,
         Asm!FirstUnacceptable, Receiver!FirstUnacceptable, Asm!Known,
         Receiver!Known, Asm!Covers, Receiver!Covers

(* How it ends.                                                            *)
LEMMA SameEnd ==
  ASSUME NEW q, NEW a
  PROVE  /\ Asm!CloseAtEof(q) = Receiver!CloseAtEof(q)
         /\ Asm!Push(q, a) = Receiver!Push(q, a)
  BY DEF Asm!CloseAtEof, Receiver!CloseAtEof, Asm!Push, Receiver!Push,
         Asm!Close, Receiver!Close, Asm!Lesser, Receiver!Lesser,
         Asm!AvailableCapacity, Receiver!AvailableCapacity

(* Writing what is complete.                                               *)
LEMMA SameDrain ==
  ASSUME NEW q
  PROVE  Asm!Drain(q) = Receiver!Drain(q)
<1>1. Asm!Gap(q) = Receiver!Gap(q)
  BY SameGap
<1>2. \A k : Asm!ByteAt(q.substrings, k) = Receiver!ByteAt(q.substrings, k)
  BY SameStore
<1>3. \A bytes : Asm!Push(q.output, bytes) = Receiver!Push(q.output, bytes)
  BY SameEnd
<1>4. PICK gap : gap = Receiver!Gap(q)
  OBVIOUS
<1>5. PICK bytes : bytes = [k \in 1..(gap - q.next_index_to_write) |->
                              Receiver!ByteAt(q.substrings, q.next_index_to_write + k - 1)]
  OBVIOUS
<1>6. PICK output : output = Receiver!Push(q.output, bytes)
  OBVIOUS
<1>7. PICK left : left = { s \in q.substrings : s.first > gap }
  OBVIOUS
<1>8. Receiver!Drain(q) = IF q.output.closed THEN q
                          ELSE [q EXCEPT !.output = output, !.next_index_to_write = gap,
                                         !.substrings = left]
  BY <1>4, <1>5, <1>6, <1>7, Zenon DEF Receiver!Drain
<1>9. bytes = [k \in 1..(gap - q.next_index_to_write) |->
                  Asm!ByteAt(q.substrings, q.next_index_to_write + k - 1)]
  BY <1>2, <1>5
<1>10. Asm!Gap(q) = gap /\ output = Asm!Push(q.output, bytes)
  BY <1>1, <1>3, <1>4, <1>6, Zenon
<1>11. Asm!Drain(q) = IF q.output.closed THEN q
                      ELSE [q EXCEPT !.output = output, !.next_index_to_write = gap,
                                     !.substrings = left]
  BY <1>7, <1>9, <1>10, Zenon DEF Asm!Drain
<1> QED
  BY <1>8, <1>11, Zenon

(* insert().                                                               *)
LEMMA SameInsert ==
  ASSUME NEW q, NEW f, NEW d, NEW e
  PROVE  Asm!Insert(q, f, d, e) = Receiver!Insert(q, f, d, e)
<1>1. PICK noted, new : noted = Receiver!NoteEof(q, f, d, e) /\ new = Receiver!Trimmed(q, f, d)
  OBVIOUS
<1>2. /\ Asm!NoteEof(q, f, d, e) = noted /\ Asm!Trimmed(q, f, d) = new
      /\ Asm!NothingToStore(q, f, d) = Receiver!NothingToStore(q, f, d)
  BY <1>1, SameWindow
<1>3. \A t : Asm!Inside(new, t) = Receiver!Inside(new, t)
  BY SameStore
<1>4. (\E t \in q.substrings : Asm!Inside(new, t)) = (\E t \in q.substrings : Receiver!Inside(new, t))
  BY <1>3
<1>5. Asm!CloseAtEof(noted) = Receiver!CloseAtEof(noted)
  BY SameEnd
<1>6. Asm!Store(noted.substrings, new) = Receiver!Store(noted.substrings, new)
  BY SameStore
<1>7. PICK stored : stored = [noted EXCEPT !.substrings = Receiver!Store(noted.substrings, new)]
  OBVIOUS
<1>8. PICK drained : drained = Receiver!Drain(stored)
  OBVIOUS
<1>9. Asm!Drain(stored) = drained /\ Asm!CloseAtEof(drained) = Receiver!CloseAtEof(drained)
  BY <1>8, SameDrain, SameEnd
<1> QED
  BY <1>1, <1>2, <1>4, <1>5, <1>6, <1>7, <1>8, <1>9, Zenon DEF Asm!Insert, Receiver!Insert

(* A new one.                                                              *)
LEMMA SameNewReassembler ==
  ASSUME NEW q
  PROVE  /\ Asm!NewReassembler(q) = Receiver!NewReassembler(q)
  BY DEF Asm!NewReassembler, Receiver!NewReassembler

(* The streams of a Reassembler.                                           *)
LEMMA SameOutput ==
  ASSUME NEW q, NEW n
  PROVE  /\ Asm!BytesBuffered(q) = BytesBuffered(q)
         /\ Asm!BytesPushed(q) = BytesPushed(q)
         /\ Asm!Pop(q, n) = Pop(q, n)
         /\ Asm!NewStream(n) = NewStream(n)
         /\ Asm!StreamType(n, Nat) = StreamType(n, Nat)
  BY DEF Asm!BytesBuffered, BytesBuffered, Asm!BytesPushed, BytesPushed, Asm!Pop, Pop,
         Asm!NewStream, NewStream, Asm!StreamType, StreamType

(* What holds of one.                                                      *)
LEMMA SameSound ==
  ASSUME NEW q, NEW capacity
  PROVE  Asm!Sound(q, capacity) <=> Sound(q, capacity)
<1>1. \A s : Asm!SubstringType(s) <=> IsSubstring(s)
  BY DEF Asm!SubstringType, IsSubstring, Asm!Substring, Receiver!Substring
<1>2. \A s, t : Asm!Disjoint(s, t) <=> Receiver!Disjoint(s, t)
  BY DEF Asm!Disjoint, Receiver!Disjoint
<1>3. PICK bound : bound = Receiver!FirstUnacceptable(q)
  OBVIOUS
<1>4. Asm!FirstUnacceptable(q) = bound
  BY <1>3, SameWindow
<1>5. Asm!Stored(q.substrings, bound) <=>
        /\ \A s \in q.substrings : IsSubstring(s) /\ s.last < bound
        /\ \A s, t \in q.substrings : s = t \/ Receiver!Disjoint(s, t)
  BY <1>1, <1>2, Zenon DEF Asm!Stored, Asm!Apart
<1> QED
  BY <1>3, <1>4, <1>5, SameOutput, Zenon DEF Asm!Sound, Sound

(* And what each says of single indices.                                   *)
LEMMA SameReached ==
  ASSUME NEW q, NEW i, NEW v, NEW f, NEW data
  PROVE  /\ Asm!Tight(q) <=> Tight(q)
         /\ Asm!Reached(q, i) <=> Reached(q, i)
         /\ Asm!Stands(q, i, v) <=> Stands(q, i, v)
         /\ Asm!Accepts(q, f, data, i) <=> Accepts(q, f, data, i)
<1>1. Asm!Tight(q) <=> Tight(q)
  BY DEF Asm!Tight, Tight
<1>2. Asm!Reached(q, i) <=> Reached(q, i)
  BY SameStore DEF Asm!Reached, Reached
<1>3. \A s : Asm!Covers(s, i) <=> Receiver!Covers(s, i)
  BY DEF Asm!Covers, Receiver!Covers
<1>4. Asm!Stands(q, i, v) <=> Stands(q, i, v)
  BY <1>3, Zenon DEF Asm!Stands, Stands, Asm!Holds
<1>5. Asm!Accepts(q, f, data, i) <=> Accepts(q, f, data, i)
  BY SameWindow, Zenon DEF Asm!Accepts, Accepts
<1> QED
  BY <1>1, <1>2, <1>4, <1>5

(* So a Reassembler keeps the laws: inserting,                             *)
LEMMA Inserting ==
  ASSUME NEW capacity \in Nat
  PROVE  KeepsInserting(capacity)
<1> SUFFICES ASSUME NEW q, NEW c, NEW is_last, NEW f \in 0..(U64 - 1), NEW data \in Seq(Nat),
                    Sound(q, capacity), Tight(q), Len(data) < U64, is_last \in BOOLEAN,
                    c = Receiver!Insert(q, f, data, is_last)
             PROVE  Inserted(c, q, capacity, f, data, is_last)
  BY DEF KeepsInserting
<1>1. Asm!Sound(q, capacity) /\ Asm!Tight(q)
  BY SameSound, SameReached
<1>2. c = Asm!Insert(q, f, data, is_last)
  BY SameInsert
<1>3. Asm!Inserted(c, q, capacity, f, data, is_last)
  BY <1>1, <1>2, PartsAssume, Asm!InsertInserts
<1>4. Sound(c, capacity) /\ Tight(c)
  BY <1>3, SameSound, SameReached DEF Asm!Inserted
<1>5. Asm!OriginalLast(f, data) = Receiver!OriginalLast(f, data)
  BY SameWindow
<1>6. \A i \in Nat : Reached(c, i) => Reached(q, i) \/ Accepts(q, f, data, i)
  BY <1>3, SameReached, Zenon DEF Asm!Inserted
<1>7. \A i \in Nat, v \in Nat :
        Stands(c, i, v) =>
          Stands(q, i, v) \/ (Accepts(q, f, data, i) /\ data[i - f + 1] = v)
  BY <1>3, SameReached, Zenon DEF Asm!Inserted
<1> QED
  BY <1>3, <1>4, <1>5, <1>6, <1>7, Zenon DEF Asm!Inserted, Inserted

(* reading,                                                                *)
LEMMA Reading ==
  ASSUME NEW capacity \in Nat
  PROVE  KeepsReading(capacity)
<1> SUFFICES ASSUME NEW q, NEW c, NEW n \in Nat,
                    Sound(q, capacity), Tight(q), n <= BytesBuffered(q.output),
                    c = [q EXCEPT !.output = Pop(@, n)]
             PROVE  Shifted(c, q, capacity)
  BY DEF KeepsReading
<1>1. Asm!Sound(q, capacity) /\ Asm!Tight(q)
  BY SameSound, SameReached
<1>2. n <= Asm!BytesBuffered(q.output) /\ c = [q EXCEPT !.output = Asm!Pop(@, n)]
  BY SameOutput
<1>3. LET t == [q EXCEPT !.output = Asm!Pop(@, n)] IN
      /\ Asm!Sound(t, capacity) /\ Asm!Tight(t)
      /\ t.substrings = q.substrings
      /\ t.next_index_to_write = q.next_index_to_write
      /\ t.eof_received = q.eof_received /\ t.eof_index = q.eof_index
      /\ t.output.closed = q.output.closed
      /\ \A i \in Nat : Asm!Reached(t, i) <=> Asm!Reached(q, i)
      /\ \A i \in Nat, v \in Nat : Asm!Stands(t, i, v) => Asm!Stands(q, i, v)
  BY <1>1, <1>2, PartsAssume, Asm!ReadFacts
<1>4. /\ Asm!Sound(c, capacity) /\ Asm!Tight(c)
      /\ c.next_index_to_write = q.next_index_to_write
      /\ c.eof_received = q.eof_received /\ c.eof_index = q.eof_index
      /\ c.output.closed = q.output.closed
      /\ \A i \in Nat : Asm!Reached(c, i) <=> Asm!Reached(q, i)
      /\ \A i \in Nat, v \in Nat : Asm!Stands(c, i, v) => Asm!Stands(q, i, v)
  BY <1>2, <1>3, Zenon
<1>5. Sound(c, capacity) /\ Tight(c)
  BY <1>4, SameSound, SameReached
<1>6. /\ \A i \in Nat : Reached(c, i) <=> Reached(q, i)
      /\ \A i \in Nat, v \in Nat : Stands(c, i, v) => Stands(q, i, v)
  BY <1>4, SameReached, Zenon
<1> QED
  BY <1>4, <1>5, <1>6 DEF Shifted

(* and beginning.                                                          *)
LEMMA Starting ==
  ASSUME NEW capacity \in Nat
  PROVE  StartsFresh(capacity)
<1> SUFFICES ASSUME NEW q, q = Receiver!NewReassembler(NewStream(capacity))
             PROVE  Fresh(q, capacity)
  BY DEF StartsFresh
<1>1. q = Asm!NewReassembler(Asm!NewStream(capacity))
  BY SameOutput, SameNewReassembler
<1>2. /\ Asm!Sound(q, capacity) /\ Asm!Tight(q)
      /\ ~q.eof_received /\ ~q.output.closed
      /\ q.next_index_to_write = 0
      /\ \A i \in Nat : ~Asm!Reached(q, i)
      /\ \A i \in Nat, v \in Nat : ~Asm!Stands(q, i, v)
  BY <1>1, PartsAssume, Asm!NewFacts
<1>3. Sound(q, capacity) /\ Tight(q)
  BY <1>2, SameSound, SameReached
<1>4. /\ \A i \in Nat : ~Reached(q, i)
      /\ \A i \in Nat, v \in Nat : ~Stands(q, i, v)
  BY <1>2, SameReached, Zenon
<1> QED
  BY <1>2, <1>3, <1>4 DEF Fresh

-----------------------------------------------------------------------------
(* What is proved about a sender, of each peer's.                          *)
Cli == INSTANCE SenderProofs WITH
  Capacity <- SendCapacity[Client], ISN <- ISN[Client], ToWrite <- ToWrite[Client],
  MaxRetx <- MaxRetx[Client], s <- snd(Client), written <- written[Client],
  Windows <- Nat, AckBeforeSyn <- FALSE

Srv == INSTANCE SenderProofs WITH
  Capacity <- SendCapacity[Server], ISN <- ISN[Server], ToWrite <- ToWrite[Server],
  MaxRetx <- MaxRetx[Server], s <- snd(Server), written <- written[Server],
  Windows <- Nat, AckBeforeSyn <- FALSE

(* What SenderProofs assumes of its constants holds.                       *)
LEMMA SendersAssume ==
  /\ Cli!SenderAssumption /\ Cli!WrapAssumption
  /\ Srv!SenderAssumption /\ Srv!WrapAssumption
<1> USE ConnectionAssumption
<1>1. \A p \in Peers : ToWrite[p] + 2 + Mod <= U64
  BY ShortStreams, Wide, HalfTwice DEF Half, Peers
<1>2. Client \in Peers /\ Server \in Peers
  BY DEF Peers
<1>3. Cli!SenderAssumption /\ Cli!WrapAssumption
  BY <1>1, <1>2 DEF Cli!SenderAssumption, Cli!WrapAssumption, Cli!Raw
<1>4. Srv!SenderAssumption /\ Srv!WrapAssumption
  BY <1>1, <1>2 DEF Srv!SenderAssumption, Srv!WrapAssumption, Srv!Raw
<1> QED
  BY <1>3, <1>4

(* The instances of one operator are one operator.                         *)
LEMMA SameStreams ==
  ASSUME NEW q, NEW a, NEW b
  PROVE  /\ Cli!Lesser(a, b) = Sender!Lesser(a, b)
         /\ Srv!Lesser(a, b) = Sender!Lesser(a, b)
         /\ Cli!IsFinished(q) = Sender!IsFinished(q)
         /\ Srv!IsFinished(q) = Sender!IsFinished(q)
         /\ Cli!BytesBuffered(q) = Sender!BytesBuffered(q)
         /\ Srv!BytesBuffered(q) = Sender!BytesBuffered(q)
         /\ Cli!AvailableCapacity(q) = Sender!AvailableCapacity(q)
         /\ Srv!AvailableCapacity(q) = Sender!AvailableCapacity(q)
         /\ Cli!Pop(q, a) = Sender!Pop(q, a)
         /\ Srv!Pop(q, a) = Sender!Pop(q, a)
         /\ Cli!Push(q, a) = Sender!Push(q, a)
         /\ Srv!Push(q, a) = Sender!Push(q, a)
         /\ Cli!Close(q) = Sender!Close(q)
         /\ Srv!Close(q) = Sender!Close(q)
         /\ Cli!SetError(q) = Sender!SetError(q)
         /\ Srv!SetError(q) = Sender!SetError(q)
         /\ Cli!PeekLength(q) = Sender!PeekLength(q)
         /\ Srv!PeekLength(q) = Sender!PeekLength(q)
         /\ Cli!Cardinality(a) = Sender!Cardinality(a)
         /\ Srv!Cardinality(a) = Sender!Cardinality(a)
         /\ Cli!wrap(a, b) = Sender!wrap(a, b)
         /\ Srv!wrap(a, b) = Sender!wrap(a, b)
         /\ Cli!add(a, b) = Sender!add(a, b)
         /\ Srv!add(a, b) = Sender!add(a, b)
         /\ Cli!TooFar(a) = Sender!TooFar(a)
         /\ Srv!TooFar(a) = Sender!TooFar(a)
         /\ Cli!StreamType(a, b) = Sender!StreamType(a, b)
         /\ Srv!StreamType(a, b) = Sender!StreamType(a, b)
  BY DEF Cli!Lesser, Srv!Lesser, Sender!Lesser, Cli!IsFinished,
         Srv!IsFinished, Sender!IsFinished, Cli!BytesBuffered,
         Srv!BytesBuffered, Sender!BytesBuffered, Cli!AvailableCapacity,
         Srv!AvailableCapacity, Sender!AvailableCapacity, Cli!Pop, Srv!Pop,
         Sender!Pop, Cli!Push, Srv!Push, Sender!Push, Cli!Close, Srv!Close,
         Sender!Close, Cli!SetError, Srv!SetError, Sender!SetError,
         Cli!PeekLength, Srv!PeekLength, Sender!PeekLength, Cli!Cardinality,
         Srv!Cardinality, Sender!Cardinality, Cli!wrap, Srv!wrap,
         Sender!wrap, Cli!add, Srv!add, Sender!add, Cli!TooFar, Srv!TooFar,
         Sender!TooFar, Cli!StreamType, Srv!StreamType, Sender!StreamType

(* Sequence numbers.                                                       *)
LEMMA SameNumbers ==
  ASSUME NEW q, NEW m, NEW a, NEW b, NEW c
  PROVE  /\ Cli!sequence_length(m) = Sender!sequence_length(m)
         /\ Srv!sequence_length(m) = Sender!sequence_length(m)
         /\ Cli!sequence_numbers_in_flight(q) = Sender!sequence_numbers_in_flight(q)
         /\ Srv!sequence_numbers_in_flight(q) = Sender!sequence_numbers_in_flight(q)
         /\ Cli!make_empty_message(q) = Sender!make_empty_message(q)
         /\ Srv!make_empty_message(q) = Sender!make_empty_message(q)
         /\ Cli!First(q) = Sender!First(q)
         /\ Srv!First(q) = Sender!First(q)
         /\ Cli!unwrap(a, b, c) = Sender!unwrap(a, b, c)
         /\ Srv!unwrap(a, b, c) = Sender!unwrap(a, b, c)
         /\ Cli!Acknowledged(q, a) = Sender!Acknowledged(q, a)
         /\ Srv!Acknowledged(q, a) = Sender!Acknowledged(q, a)
  BY SameStreams, Zenon DEF Cli!sequence_length, Srv!sequence_length,
         Sender!sequence_length, Cli!sequence_numbers_in_flight,
         Srv!sequence_numbers_in_flight, Sender!sequence_numbers_in_flight,
         Cli!make_empty_message, Srv!make_empty_message,
         Sender!make_empty_message, Cli!First, Srv!First, Sender!First,
         Cli!unwrap, Srv!unwrap, Sender!unwrap, Cli!Acknowledged,
         Srv!Acknowledged, Sender!Acknowledged

(* What push() may send.                                                   *)
LEMMA SameRoom ==
  ASSUME NEW q, NEW a
  PROVE  /\ Cli!MaySend(q) = Sender!MaySend(q)
         /\ Srv!MaySend(q) = Sender!MaySend(q)
         /\ Cli!Room(q) = Sender!Room(q)
         /\ Srv!Room(q) = Sender!Room(q)
         /\ Cli!PayloadLength(q) = Sender!PayloadLength(q)
         /\ Srv!PayloadLength(q) = Sender!PayloadLength(q)
         /\ Cli!MayFinish(q, a) = Sender!MayFinish(q, a)
         /\ Srv!MayFinish(q, a) = Sender!MayFinish(q, a)
  BY DEF Cli!MaySend, Srv!MaySend, Sender!MaySend, Cli!Room, Srv!Room,
         Sender!Room, Cli!PayloadLength, Srv!PayloadLength,
         Sender!PayloadLength, Cli!MayFinish, Srv!MayFinish,
         Sender!MayFinish, Cli!Lesser, Srv!Lesser, Sender!Lesser,
         Cli!IsFinished, Srv!IsFinished, Sender!IsFinished,
         Cli!BytesBuffered, Srv!BytesBuffered, Sender!BytesBuffered, Cli!Pop,
         Srv!Pop, Sender!Pop, Cli!PeekLength, Srv!PeekLength,
         Sender!PeekLength, Cli!Cardinality, Srv!Cardinality,
         Sender!Cardinality, Cli!wrap, Srv!wrap, Sender!wrap, Cli!add,
         Srv!add, Sender!add, Cli!TooFar, Srv!TooFar, Sender!TooFar,
         Cli!SetError, Srv!SetError, Sender!SetError, Cli!sequence_length,
         Srv!sequence_length, Sender!sequence_length,
         Cli!sequence_numbers_in_flight, Srv!sequence_numbers_in_flight,
         Sender!sequence_numbers_in_flight, Cli!make_empty_message,
         Srv!make_empty_message, Sender!make_empty_message

(* And what it sends next.                                                 *)
LEMMA SameMessage ==
  ASSUME NEW q
  PROVE  /\ Cli!NextMessage(q) = Sender!NextMessage(q)
         /\ Srv!NextMessage(q) = Sender!NextMessage(q)
  BY Zenon DEF Cli!NextMessage, Srv!NextMessage, Sender!NextMessage, Cli!Lesser,
         Srv!Lesser, Sender!Lesser, Cli!IsFinished, Srv!IsFinished,
         Sender!IsFinished, Cli!BytesBuffered, Srv!BytesBuffered,
         Sender!BytesBuffered, Cli!Pop, Srv!Pop, Sender!Pop, Cli!PeekLength,
         Srv!PeekLength, Sender!PeekLength, Cli!Cardinality, Srv!Cardinality,
         Sender!Cardinality, Cli!wrap, Srv!wrap, Sender!wrap, Cli!add,
         Srv!add, Sender!add, Cli!TooFar, Srv!TooFar, Sender!TooFar,
         Cli!SetError, Srv!SetError, Sender!SetError, Cli!sequence_length,
         Srv!sequence_length, Sender!sequence_length,
         Cli!sequence_numbers_in_flight, Srv!sequence_numbers_in_flight,
         Sender!sequence_numbers_in_flight, Cli!make_empty_message,
         Srv!make_empty_message, Sender!make_empty_message, Cli!MaySend,
         Srv!MaySend, Sender!MaySend, Cli!Room, Srv!Room, Sender!Room,
         Cli!PayloadLength, Srv!PayloadLength, Sender!PayloadLength,
         Cli!MayFinish, Srv!MayFinish, Sender!MayFinish, Cli!Message,
         Srv!Message, Sender!Message

(* Sending it.                                                             *)
LEMMA SameSending ==
  ASSUME NEW q, NEW m, NEW a
  PROVE  /\ Cli!StartTimer(q) = Sender!StartTimer(q)
         /\ Srv!StartTimer(q) = Sender!StartTimer(q)
         /\ Cli!Took(q, m) = Sender!Took(q, m)
         /\ Srv!Took(q, m) = Sender!Took(q, m)
         /\ Cli!SendMessage(q, a, m) = Sender!SendMessage(q, a, m)
         /\ Srv!SendMessage(q, a, m) = Sender!SendMessage(q, a, m)
  BY DEF Cli!StartTimer, Srv!StartTimer, Sender!StartTimer, Cli!Took,
         Srv!Took, Sender!Took, Cli!SendMessage, Srv!SendMessage,
         Sender!SendMessage, Cli!Outstanding, Srv!Outstanding,
         Sender!Outstanding, Cli!Pop, Srv!Pop, Sender!Pop,
         Cli!sequence_length, Srv!sequence_length, Sender!sequence_length

(* One turn of its loop.                                                   *)
LEMMA SameTurn ==
  ASSUME NEW q
  PROVE  /\ Cli!Turn(q) = Sender!Turn(q)
         /\ Srv!Turn(q) = Sender!Turn(q)
<1> DEFINE old == q.s
<1>1. Cli!Turn(q) = Sender!Turn(q)
  <2>1. /\ Cli!MaySend(old) = Sender!MaySend(old)
        /\ Cli!NextMessage(old) = Sender!NextMessage(old)
    BY SameRoom, SameMessage
  <2>2. PICK msg : msg = Sender!NextMessage(old)
    OBVIOUS
  <2>3. Cli!sequence_length(msg) = Sender!sequence_length(msg)
    BY SameNumbers
  <2>4. PICK took : took = Sender!Took(old, msg)
    OBVIOUS
  <2>5. Cli!Took(old, msg) = took
    BY <2>4, SameSending
  <2>6. PICK timed : timed = Sender!StartTimer(took)
    OBVIOUS
  <2>7. Cli!StartTimer(took) = timed
    BY <2>6, SameSending
  <2>8. Cli!SendMessage(q, timed, msg) = Sender!SendMessage(q, timed, msg)
    BY SameSending
  <2> HIDE DEF old
  <2> QED
    BY <2>1, <2>2, <2>3, <2>4, <2>5, <2>6, <2>7, <2>8, Zenon DEF Cli!Turn, Sender!Turn, old
<1>2. Srv!Turn(q) = Sender!Turn(q)
  <2>1. /\ Srv!MaySend(old) = Sender!MaySend(old)
        /\ Srv!NextMessage(old) = Sender!NextMessage(old)
    BY SameRoom, SameMessage
  <2>2. PICK msg : msg = Sender!NextMessage(old)
    OBVIOUS
  <2>3. Srv!sequence_length(msg) = Sender!sequence_length(msg)
    BY SameNumbers
  <2>4. PICK took : took = Sender!Took(old, msg)
    OBVIOUS
  <2>5. Srv!Took(old, msg) = took
    BY <2>4, SameSending
  <2>6. PICK timed : timed = Sender!StartTimer(took)
    OBVIOUS
  <2>7. Srv!StartTimer(took) = timed
    BY <2>6, SameSending
  <2>8. Srv!SendMessage(q, timed, msg) = Sender!SendMessage(q, timed, msg)
    BY SameSending
  <2> HIDE DEF old
  <2> QED
    BY <2>1, <2>2, <2>3, <2>4, <2>5, <2>6, <2>7, <2>8, Zenon DEF Srv!Turn, Sender!Turn, old
<1> QED
  BY <1>1, <1>2

(* push().                                                                 *)
LEMMA SamePush ==
  ASSUME NEW q
  PROVE  /\ Cli!push(q) = Sender!push(q)
         /\ Srv!push(q) = Sender!push(q)
  BY SameTurn, Zenon DEF Cli!push, Srv!push, Sender!push

(* receive().                                                              *)
LEMMA SameReceive ==
  ASSUME NEW q, NEW m
  PROVE  /\ Cli!receive(q, m) = Sender!receive(q, m)
         /\ Srv!receive(q, m) = Sender!receive(q, m)
  BY DEF Cli!receive, Srv!receive, Sender!receive, Cli!Lesser, Srv!Lesser,
         Sender!Lesser, Cli!IsFinished, Srv!IsFinished, Sender!IsFinished,
         Cli!BytesBuffered, Srv!BytesBuffered, Sender!BytesBuffered, Cli!Pop,
         Srv!Pop, Sender!Pop, Cli!PeekLength, Srv!PeekLength,
         Sender!PeekLength, Cli!Cardinality, Srv!Cardinality,
         Sender!Cardinality, Cli!wrap, Srv!wrap, Sender!wrap, Cli!add,
         Srv!add, Sender!add, Cli!TooFar, Srv!TooFar, Sender!TooFar,
         Cli!SetError, Srv!SetError, Sender!SetError, Cli!sequence_length,
         Srv!sequence_length, Sender!sequence_length,
         Cli!sequence_numbers_in_flight, Srv!sequence_numbers_in_flight,
         Sender!sequence_numbers_in_flight, Cli!make_empty_message,
         Srv!make_empty_message, Sender!make_empty_message, Cli!unwrap,
         Srv!unwrap, Sender!unwrap, Cli!Acknowledged, Srv!Acknowledged,
         Sender!Acknowledged, Cli!Acknowledge, Srv!Acknowledge,
         Sender!Acknowledge

(* tick().                                                                 *)
LEMMA SameTick ==
  ASSUME NEW q, NEW a
  PROVE  /\ Cli!tick(q, a) = Sender!tick(q, a)
         /\ Srv!tick(q, a) = Sender!tick(q, a)
  BY DEF Cli!tick, Srv!tick, Sender!tick, Cli!First, Srv!First, Sender!First

(* The constructor.                                                        *)
LEMMA SameNew ==
  ASSUME NEW a, NEW b
  PROVE  /\ Cli!NewSender(a, b) = Sender!NewSender(a, b)
         /\ Srv!NewSender(a, b) = Sender!NewSender(a, b)
  BY DEF Cli!NewSender, Srv!NewSender, Sender!NewSender, Cli!NewStream,
         Srv!NewStream, Sender!NewStream

(* The streams' again.                                                     *)
LEMMA SameOwn ==
  ASSUME NEW q, NEW a, NEW b
  PROVE  /\ Cli!Lesser(a, b) = Lesser(a, b)
         /\ Srv!Lesser(a, b) = Lesser(a, b)
         /\ Cli!NewStream(a) = NewStream(a)
         /\ Srv!NewStream(a) = NewStream(a)
         /\ Cli!BytesBuffered(q) = BytesBuffered(q)
         /\ Srv!BytesBuffered(q) = BytesBuffered(q)
         /\ Cli!BytesPushed(q) = BytesPushed(q)
         /\ Srv!BytesPushed(q) = BytesPushed(q)
         /\ Cli!AvailableCapacity(q) = AvailableCapacity(q)
         /\ Srv!AvailableCapacity(q) = AvailableCapacity(q)
         /\ Cli!IsFinished(q) = IsFinished(q)
         /\ Srv!IsFinished(q) = IsFinished(q)
         /\ Cli!Push(q, a) = Push(q, a)
         /\ Srv!Push(q, a) = Push(q, a)
         /\ Cli!Close(q) = Close(q)
         /\ Srv!Close(q) = Close(q)
         /\ Cli!PeekLength(q) = PeekLength(q)
         /\ Srv!PeekLength(q) = PeekLength(q)
         /\ Cli!Pop(q, a) = Pop(q, a)
         /\ Srv!Pop(q, a) = Pop(q, a)
         /\ Cli!SetError(q) = SetError(q)
         /\ Srv!SetError(q) = SetError(q)
  BY DEF Cli!Lesser, Srv!Lesser, Lesser, Cli!NewStream, Srv!NewStream,
         NewStream, Cli!BytesBuffered, Srv!BytesBuffered, BytesBuffered,
         Cli!BytesPushed, Srv!BytesPushed, BytesPushed,
         Cli!AvailableCapacity, Srv!AvailableCapacity, AvailableCapacity,
         Cli!IsFinished, Srv!IsFinished, IsFinished, Cli!Push, Srv!Push,
         Push, Cli!Close, Srv!Close, Close, Cli!PeekLength, Srv!PeekLength,
         PeekLength, Cli!Pop, Srv!Pop, Pop, Cli!SetError, Srv!SetError,
         SetError

(* A peer is the client or the server.                                     *)
LEMMA Sides ==
  ASSUME NEW p \in Peers, p # Client
  PROVE  p = Server
  BY DEF Peers

(* These too are the senders' own.                                         *)
LEMMA SameRelations ==
  ASSUME NEW t, NEW q, NEW a, NEW b
  PROVE  /\ Cli!Oldest(q) = Oldest(q) /\ Srv!Oldest(q) = Oldest(q)
         /\ Cli!One(a) = One(a) /\ Srv!One(a) = One(a)
         /\ Cli!Onward(t, q) = Onward(t, q) /\ Srv!Onward(t, q) = Onward(t, q)
         /\ Cli!After(t, q) = After(t, q) /\ Srv!After(t, q) = After(t, q)
         /\ Cli!Half = Half /\ Srv!Half = Half
         /\ Cli!Report(a, b) = [ackno |-> a, window_size |-> b, RST |-> FALSE]
         /\ Srv!Report(a, b) = [ackno |-> a, window_size |-> b, RST |-> FALSE]
  BY DEF Cli!Oldest, Srv!Oldest, Oldest, Cli!First, Srv!First, Sender!First,
         Cli!One, Srv!One, One, Cli!Onward, Srv!Onward, Onward,
         Cli!After, Srv!After, After, Cli!Half, Srv!Half, Half,
         Cli!Report, Srv!Report

(* The types and the timeouts are the senders' own,                        *)
LEMMA SameTypes ==
  /\ Cli!Msg = Messages(Client) /\ Srv!Msg = Messages(Server)
  /\ Cli!Sender = Senders(Client) /\ Srv!Sender = Senders(Server)
  /\ Cli!TimeoutAfter = Timeouts(Client) /\ Srv!TimeoutAfter = Timeouts(Server)
<1>1. Cli!Msg = Messages(Client) /\ Srv!Msg = Messages(Server)
  BY DEF Cli!Msg, Cli!Raw, Cli!Content, Srv!Msg, Srv!Raw, Srv!Content, Messages
<1>2. /\ Cli!StreamType(SendCapacity[Client], Cli!Content)
           = Sender!StreamType(SendCapacity[Client], 1..ToWrite[Client])
      /\ Srv!StreamType(SendCapacity[Server], Srv!Content)
           = Sender!StreamType(SendCapacity[Server], 1..ToWrite[Server])
  BY SameStreams DEF Cli!Content, Srv!Content
<1>3. Cli!Sender = Senders(Client)
  BY <1>1, <1>2, Zenon DEF Cli!Sender, Cli!Map, Senders
<1>4. Srv!Sender = Senders(Server)
  BY <1>1, <1>2, Zenon DEF Srv!Sender, Srv!Map, Senders
<1>5. Cli!TimeoutAfter = Timeouts(Client) /\ Srv!TimeoutAfter = Timeouts(Server)
  BY DEF Cli!TimeoutAfter, Srv!TimeoutAfter, Timeouts
<1> QED
  BY <1>1, <1>3, <1>4, <1>5

(* and so are a sender's stream, counters, messages and timer;             *)
LEMMA SameParts ==
  ASSUME NEW q, NEW w, NEW u, NEW next
  PROVE  /\ Cli!InStream(q, w) = InStream(Client, q, w)
         /\ Srv!InStream(q, w) = InStream(Server, q, w)
         /\ Cli!Counted(q) = Counted(q) /\ Srv!Counted(q) = Counted(q)
         /\ Cli!Tiles(u, next) = Tiled(u, next) /\ Srv!Tiles(u, next) = Tiled(u, next)
         /\ Cli!InPlace(q, w) = InPlace(Client, q, w)
         /\ Srv!InPlace(q, w) = InPlace(Server, q, w)
         /\ Cli!Timed(q) = Timed(Client, q) /\ Srv!Timed(q) = Timed(Server, q)
         /\ Cli!Settled(q) = Settled(q) /\ Srv!Settled(q) = Settled(q)
<1>1. \A m : /\ Cli!sequence_length(m) = Sender!sequence_length(m)
             /\ Srv!sequence_length(m) = Sender!sequence_length(m)
  BY SameNumbers
<1>2. \A a, b : /\ Cli!wrap(a, b) = Sender!wrap(a, b)
                /\ Srv!wrap(a, b) = Sender!wrap(a, b)
  BY SameStreams
<1>3. /\ Cli!BytesBuffered(q.input) = Sender!BytesBuffered(q.input)
      /\ Srv!BytesBuffered(q.input) = Sender!BytesBuffered(q.input)
      /\ Cli!IsFinished(q.input) = Sender!IsFinished(q.input)
      /\ Srv!IsFinished(q.input) = Sender!IsFinished(q.input)
  BY SameStreams
<1>4. /\ Cli!BytesPushed(q.input) = Sender!BytesPushed(q.input)
      /\ Srv!BytesPushed(q.input) = Sender!BytesPushed(q.input)
  BY DEF Cli!BytesPushed, Srv!BytesPushed, Sender!BytesPushed
<1>5. \A b : Cli!One(b) = One(b) /\ Srv!One(b) = One(b)
  BY SameRelations
<1>6. Cli!MaySend(q) = Sender!MaySend(q) /\ Srv!MaySend(q) = Sender!MaySend(q)
  BY SameRoom
<1>7. Cli!InStream(q, w) = InStream(Client, q, w) /\ Srv!InStream(q, w) = InStream(Server, q, w)
  BY <1>3, <1>4 DEF Cli!InStream, Srv!InStream, InStream
<1>8. Cli!Counted(q) = Counted(q) /\ Srv!Counted(q) = Counted(q)
  BY <1>3, <1>5 DEF Cli!Counted, Srv!Counted, Counted
<1>9. Cli!Tiles(u, next) = Tiled(u, next) /\ Srv!Tiles(u, next) = Tiled(u, next)
  BY <1>1 DEF Cli!Tiles, Srv!Tiles, Tiled
<1>10. Cli!InPlace(q, w) = InPlace(Client, q, w)
  BY <1>1, <1>2 DEF Cli!InPlace, InPlace
<1>11. Srv!InPlace(q, w) = InPlace(Server, q, w)
  BY <1>1, <1>2 DEF Srv!InPlace, InPlace
<1>12. Cli!Timed(q) = Timed(Client, q) /\ Srv!Timed(q) = Timed(Server, q)
  BY SameTypes DEF Cli!Timed, Srv!Timed, Timed
<1>13. Cli!Settled(q) = Settled(q) /\ Srv!Settled(q) = Settled(q)
  BY <1>3, <1>6 DEF Cli!Settled, Srv!Settled, Settled
<1> QED
  BY <1>7, <1>8, <1>9, <1>10, <1>11, <1>12, <1>13

(* so a running sender of one peer's is one of SenderProofs'.              *)
LEMMA SendersAre ==
  ASSUME NEW p \in Peers
  PROVE  /\ p = Client =>
              /\ \A q, w : Running(p, q, w) <=> Cli!Running(q, w)
              /\ \A q, w, msg : Segment(p, q, w, msg) <=> Cli!Segment(q, w, msg)
              /\ \A q, w, sent : Speaks(p, q, w, sent) <=> Cli!Speaks(q, w, sent)
         /\ p # Client =>
              /\ p = Server
              /\ \A q, w : Running(p, q, w) <=> Srv!Running(q, w)
              /\ \A q, w, msg : Segment(p, q, w, msg) <=> Srv!Segment(q, w, msg)
              /\ \A q, w, sent : Speaks(p, q, w, sent) <=> Srv!Speaks(q, w, sent)
<1> SUFFICES ASSUME NEW q, NEW w, NEW sent
             PROVE  /\ Running(Client, q, w) = Cli!Running(q, w)
                    /\ Running(Server, q, w) = Srv!Running(q, w)
                    /\ \A msg : /\ Segment(Client, q, w, msg) = Cli!Segment(q, w, msg)
                               /\ Segment(Server, q, w, msg) = Srv!Segment(q, w, msg)
                    /\ Speaks(Client, q, w, sent) = Cli!Speaks(q, w, sent)
                    /\ Speaks(Server, q, w, sent) = Srv!Speaks(q, w, sent)
  BY Sides, Zenon
<1>1. /\ Running(Client, q, w) = Cli!Running(q, w)
      /\ Running(Server, q, w) = Srv!Running(q, w)
  BY SameTypes, SameParts
  DEF Running, Cli!Running, Srv!Running, Cli!Good, Srv!Good
<1>2. \A m : /\ Segment(Client, q, w, m) = Cli!Segment(q, w, m)
             /\ Segment(Server, q, w, m) = Srv!Segment(q, w, m)
  <2> TAKE m
  <2>1. /\ Cli!sequence_length(m) = Sender!sequence_length(m)
        /\ Srv!sequence_length(m) = Sender!sequence_length(m)
    BY SameNumbers
  <2>2. \A a, b : /\ Cli!wrap(a, b) = Sender!wrap(a, b)
                  /\ Srv!wrap(a, b) = Sender!wrap(a, b)
    BY SameStreams
  <2>3. Segment(Client, q, w, m) = Cli!Segment(q, w, m)
    BY <2>1, <2>2, SameTypes DEF Segment, Cli!Segment
  <2>4. Segment(Server, q, w, m) = Srv!Segment(q, w, m)
    BY <2>1, <2>2, SameTypes DEF Segment, Srv!Segment
  <2> QED
    BY <2>3, <2>4
<1>3. /\ Speaks(Client, q, w, sent) = Cli!Speaks(q, w, sent)
      /\ Speaks(Server, q, w, sent) = Srv!Speaks(q, w, sent)
  BY <1>1, <1>2, SameTypes DEF Speaks, Cli!Speaks, Srv!Speaks
<1> QED
  BY <1>1, <1>2, <1>3

-----------------------------------------------------------------------------
(* The numbers of a running sender.                                        *)
LEMMA NumbersKept ==
  ASSUME NEW p \in Peers
  PROVE  KeepsNumbers(p)
<1> SUFFICES ASSUME NEW q, NEW w,
                Running(p, q, w)
         PROVE  /\ w \in 0..ToWrite[p] /\ q.isn = ISN[p]
                /\ q.next_abs_seqno \in 0..(w + 2) /\ q.input.popped \in 0..w
                /\ q.input.closed \in BOOLEAN /\ ~q.input.error
                /\ q.syn_sent => q.next_abs_seqno = q.input.popped + 1 + One(q.fin_sent)
                /\ ~q.syn_sent => q.next_abs_seqno = 0
                /\ q.fin_sent => /\ q.syn_sent /\ IsFinished(q.input)
                                 /\ q.next_abs_seqno = w + 2
                /\ q.input.closed => q.syn_sent
                /\ Oldest(q) \in 0..q.next_abs_seqno
                /\ DOMAIN q.unacked = {} <=> Oldest(q) = q.next_abs_seqno
                /\ Sender!sequence_numbers_in_flight(q) = q.next_abs_seqno - Oldest(q)
  BY DEF KeepsNumbers
<1>1. CASE p = Client
  BY <1>1, SendersAssume, Cli!RunningFacts, SameOwn, SameRelations, SameNumbers, SendersAre, Zenon
<1>2. CASE p # Client
  BY <1>2, SendersAssume, Srv!RunningFacts, SameOwn, SameRelations, SameNumbers, SendersAre, Zenon
<1> QED
  BY <1>1, <1>2

(* With nothing in flight and nothing left it has sent its end.            *)
LEMMA EndKept ==
  ASSUME NEW p \in Peers
  PROVE  KeepsEnd(p)
<1> SUFFICES ASSUME NEW q, NEW w,
                Running(p, q, w), Sender!sequence_numbers_in_flight(q) = 0, IsFinished(q.input)
         PROVE  q.fin_sent
  BY DEF KeepsEnd
<1>1. CASE p = Client
  BY <1>1, SendersAssume, Cli!RunningDone, SameOwn, SameNumbers, SendersAre
<1>2. CASE p # Client
  BY <1>2, SendersAssume, Srv!RunningDone, SameOwn, SameNumbers, SendersAre
<1> QED
  BY <1>1, <1>2

(* An empty message is a segment of a sender that has sent its SYN.        *)
LEMMA EmptySpoken ==
  ASSUME NEW p \in Peers
  PROVE  \A q, w : Running(p, q, w) /\ q.syn_sent =>
           Segment(p, q, w, Sender!make_empty_message(q))
<1> SUFFICES ASSUME NEW q, NEW w,
                Running(p, q, w), q.syn_sent
         PROVE  Segment(p, q, w, Sender!make_empty_message(q))
  OBVIOUS
<1>1. CASE p = Client
  BY <1>1, SendersAssume, Cli!EmptySpeaks, SameNumbers, SendersAre
<1>2. CASE p # Client
  BY <1>2, SendersAssume, Srv!EmptySpeaks, SameNumbers, SendersAre
<1> QED
  BY <1>1, <1>2

(* A segment stays one while its sender goes on.                           *)
LEMMA SegmentsKept ==
  ASSUME NEW p \in Peers
  PROVE  KeepsSegments(p)
<1> SUFFICES ASSUME NEW q, NEW w, NEW t, NEW v, NEW msg,
                Running(p, q, w), Running(p, t, v), Onward(t, q),
                q.fin_sent => v = w, Segment(p, q, w, msg)
         PROVE  Segment(p, t, v, msg)
  BY EmptySpoken DEF KeepsSegments
<1>1. CASE p = Client
  BY <1>1, SendersAssume, Cli!SegmentStays, SameRelations, SendersAre
<1>2. CASE p # Client
  BY <1>2, SendersAssume, Srv!SegmentStays, SameRelations, SendersAre, Zenon
<1> QED
  BY <1>1, <1>2

(* push() of a running sender.                                             *)
LEMMA Pushes ==
  ASSUME NEW p \in Peers
  PROVE  RunsPush(p)
<1> SUFFICES ASSUME NEW q, NEW w, NEW pushed,
                Running(p, q, w), pushed = Sender!push(q)
         PROVE  /\ Speaks(p, pushed.s, w, pushed.sent)
                /\ pushed.s.syn_sent /\ After(pushed.s, q)
  BY DEF RunsPush
<1>1. CASE p = Client
  BY <1>1, SendersAssume, Cli!PushSpeaks, SamePush, SameRelations, SendersAre
  DEF Cli!Running
<1>2. CASE p # Client
  BY <1>2, SendersAssume, Srv!PushSpeaks, SamePush, SameRelations, SendersAre
  DEF Srv!Running
<1> QED
  BY <1>1, <1>2

(* The application writes n bytes.                                         *)
LEMMA Writes ==
  ASSUME NEW p \in Peers
  PROVE  RunsWrite(p)
<1> SUFFICES ASSUME NEW q, NEW w, NEW n \in Nat, NEW pushed,
                Running(p, q, w), ~q.input.closed,
                n <= AvailableCapacity(q.input), w + n <= ToWrite[p],
                pushed = Sender!push([q EXCEPT !.input = Push(q.input, [i \in 1..n |-> w + i])])
         PROVE  Speaks(p, pushed.s, w + n, pushed.sent) /\ After(pushed.s, q)
  BY DEF RunsWrite
<1>1. CASE p = Client
  <2>1. PICK bytes : bytes = [i \in 1..n |-> w + i]
    OBVIOUS
  <2>2. Cli!Push(q.input, bytes) = Push(q.input, bytes)
    BY SameOwn
  <2>3. pushed = Cli!push([q EXCEPT !.input = Cli!Push(q.input, [i \in 1..n |-> w + i])])
    BY <2>1, <2>2, SamePush, Zenon
  <2>4. n <= Cli!AvailableCapacity(q.input) /\ w + n <= ToWrite[Client]
    BY <1>1, SameOwn
  <2>5. Cli!Running(q, w)
    BY <1>1, SendersAre
  <2>6. LET after == Cli!push([q EXCEPT !.input = Cli!Push(q.input, [i \in 1..n |-> w + i])]) IN
        Cli!Speaks(after.s, w + n, after.sent) /\ Cli!After(after.s, q)
    BY <2>1, <2>2, <2>3, <2>4, <2>5, SendersAssume, Cli!WriteSpeaks, Zenon
  <2> QED
    BY <1>1, <2>1, <2>2, <2>3, <2>4, <2>5, <2>6, SamePush, SameRelations, SameOwn, SendersAre
<1>2. CASE p # Client
  <2>1. PICK bytes : bytes = [i \in 1..n |-> w + i]
    OBVIOUS
  <2>2. Srv!Push(q.input, bytes) = Push(q.input, bytes)
    BY SameOwn
  <2>3. pushed = Srv!push([q EXCEPT !.input = Srv!Push(q.input, [i \in 1..n |-> w + i])])
    BY <2>1, <2>2, SamePush, Zenon
  <2>4. n <= Srv!AvailableCapacity(q.input) /\ w + n <= ToWrite[Server]
    BY <1>2, Sides, SameOwn
  <2>5. Srv!Running(q, w)
    BY <1>2, SendersAre
  <2>6. LET after == Srv!push([q EXCEPT !.input = Srv!Push(q.input, [i \in 1..n |-> w + i])]) IN
        Srv!Speaks(after.s, w + n, after.sent) /\ Srv!After(after.s, q)
    BY <2>1, <2>2, <2>3, <2>4, <2>5, SendersAssume, Srv!WriteSpeaks, Zenon
  <2> QED
    BY <1>2, <2>1, <2>2, <2>3, <2>4, <2>5, <2>6, SamePush, SameRelations, SameOwn, SendersAre
<1> QED
  BY <1>1, <1>2

(* The application shuts its side down.                                    *)
LEMMA ShutsDown ==
  ASSUME NEW p \in Peers
  PROVE  RunsShutdown(p)
<1> SUFFICES ASSUME NEW q, NEW w, NEW pushed,
                Running(p, q, w),
                pushed = Sender!push([q EXCEPT !.input = Close(q.input)])
         PROVE  /\ Speaks(p, pushed.s, w, pushed.sent)
                /\ Onward(pushed.s, q) /\ pushed.s.input.closed
                /\ Oldest(pushed.s) = Oldest(q)
  BY DEF RunsShutdown
<1>1. CASE p = Client
  <2>1. Cli!Close(q.input) = Close(q.input)
    BY SameOwn
  <2>2. pushed = Cli!push([q EXCEPT !.input = Cli!Close(q.input)])
    BY <2>1, SamePush, Zenon
  <2> QED
    BY <1>1, <2>1, <2>2, SendersAssume, Cli!ShutdownSpeaks, SameRelations, SendersAre, Zenon
<1>2. CASE p # Client
  <2>1. Srv!Close(q.input) = Close(q.input)
    BY SameOwn
  <2>2. pushed = Srv!push([q EXCEPT !.input = Srv!Close(q.input)])
    BY <2>1, SamePush, Zenon
  <2> QED
    BY <1>2, <2>1, <2>2, SendersAssume, Srv!ShutdownSpeaks, SameRelations, SendersAre, Zenon
<1> QED
  BY <1>1, <1>2

(* Time passes.                                                            *)
LEMMA Ticks ==
  ASSUME NEW p \in Peers
  PROVE  RunsTick(p)
<1> SUFFICES ASSUME NEW q, NEW w, NEW elapsed \in Nat, NEW ticked,
                Running(p, q, w), ticked = Sender!tick(q, elapsed),
                q.consecutive_retransmissions < MaxRetx[p]
         PROVE  Speaks(p, ticked.s, w, ticked.sent) /\ After(ticked.s, q)
  BY DEF RunsTick
<1>1. CASE p = Client
  <2>1. ticked = Cli!tick(q, elapsed)
    BY SameTick
  <2>2. q.consecutive_retransmissions < MaxRetx[Client]
    BY <1>1
  <2>3. Cli!Running(q, w)
    BY <1>1, SendersAre
  <2>4. Cli!Speaks(ticked.s, w, ticked.sent) /\ Cli!After(ticked.s, q)
    BY <2>1, <2>2, <2>3, SendersAssume, Cli!TickSpeaks
  <2> QED
    BY <1>1, <2>1, <2>2, <2>3, <2>4, SameRelations, SendersAre
<1>2. CASE p # Client
  <2>1. ticked = Srv!tick(q, elapsed)
    BY SameTick
  <2>2. q.consecutive_retransmissions < MaxRetx[Server]
    BY <1>2, Sides
  <2>3. Srv!Running(q, w)
    BY <1>2, SendersAre
  <2>4. Srv!Speaks(ticked.s, w, ticked.sent) /\ Srv!After(ticked.s, q)
    BY <2>1, <2>2, <2>3, SendersAssume, Srv!TickSpeaks
  <2> QED
    BY <1>2, <2>1, <2>2, <2>3, <2>4, SameRelations, SendersAre
<1> QED
  BY <1>1, <1>2

(* The other peer reports that it waits for number n.                      *)
LEMMA Hears ==
  ASSUME NEW p \in Peers
  PROVE  RunsReport(p)
<1> SUFFICES ASSUME NEW q, NEW w, NEW report, NEW pushed,
                NEW n \in 1..q.next_abs_seqno, NEW window \in Nat,
                Running(p, q, w), q.next_abs_seqno <= Half,
                report = [ackno |-> Sender!wrap(n, ISN[p]), window_size |-> window, RST |-> FALSE],
                pushed = Sender!push(Sender!receive(q, report))
         PROVE  Speaks(p, pushed.s, w, pushed.sent) /\ Answers(q, n, pushed.s)
  BY DEF RunsReport
<1>1. CASE p = Client
  <2>1. report = Cli!Report(Cli!wrap(n, ISN[Client]), window)
    BY <1>1, SameRelations, SameStreams, Zenon
  <2>2. pushed = Cli!push(Cli!receive(q, Cli!Report(Cli!wrap(n, ISN[Client]), window)))
    BY <2>1, SamePush, SameReceive, Zenon
  <2>3. q.next_abs_seqno <= Cli!Half
    BY SameRelations
  <2>4. Cli!Running(q, w)
    BY <1>1, SendersAre
  <2>5. LET after == Cli!push(Cli!receive(q, Cli!Report(Cli!wrap(n, ISN[Client]), window))) IN
        /\ Cli!Speaks(after.s, w, after.sent)
        /\ Cli!Onward(after.s, q) /\ after.s.input.closed = q.input.closed
        /\ Cli!Oldest(after.s) = Cli!Oldest(q) \/ Cli!Oldest(after.s) <= n
        /\ q.fin_sent /\ (n = q.next_abs_seqno \/ DOMAIN q.unacked = {}) =>
             DOMAIN after.s.unacked = {}
    BY <2>1, <2>2, <2>3, <2>4, SendersAssume, Cli!ReportSpeaks
  <2> QED
    BY <1>1, <2>1, <2>2, <2>3, <2>4, <2>5, SameRelations, SendersAre, Zenon DEF Answers
<1>2. CASE p # Client
  <2>1. report = Srv!Report(Srv!wrap(n, ISN[Server]), window)
    BY <1>2, Sides, SameRelations, SameStreams, Zenon
  <2>2. pushed = Srv!push(Srv!receive(q, Srv!Report(Srv!wrap(n, ISN[Server]), window)))
    BY <2>1, SamePush, SameReceive, Zenon
  <2>3. q.next_abs_seqno <= Srv!Half
    BY SameRelations
  <2>4. Srv!Running(q, w)
    BY <1>2, SendersAre
  <2>5. LET after == Srv!push(Srv!receive(q, Srv!Report(Srv!wrap(n, ISN[Server]), window))) IN
        /\ Srv!Speaks(after.s, w, after.sent)
        /\ Srv!Onward(after.s, q) /\ after.s.input.closed = q.input.closed
        /\ Srv!Oldest(after.s) = Srv!Oldest(q) \/ Srv!Oldest(after.s) <= n
        /\ q.fin_sent /\ (n = q.next_abs_seqno \/ DOMAIN q.unacked = {}) =>
             DOMAIN after.s.unacked = {}
    BY <2>1, <2>2, <2>3, <2>4, SendersAssume, Srv!ReportSpeaks
  <2> QED
    BY <1>2, <2>1, <2>2, <2>3, <2>4, <2>5, SameRelations, SendersAre, Zenon DEF Answers
<1> QED
  BY <1>1, <1>2

(* The other peer, still listening, reports nothing.                       *)
LEMMA HearsNothing ==
  ASSUME NEW p \in Peers
  PROVE  RunsSilence(p)
<1> SUFFICES ASSUME NEW q, NEW w, NEW window \in Nat, NEW report, NEW pushed,
                Running(p, q, w), window > 0,
                report = [ackno |-> NoAckno, window_size |-> window, RST |-> FALSE],
                pushed = Sender!push(Sender!receive(q, report))
         PROVE  /\ Speaks(p, pushed.s, w, pushed.sent)
                /\ pushed.s.syn_sent /\ After(pushed.s, q)
  BY DEF RunsSilence
<1>1. CASE p = Client
  <2>1. report = Cli!Report(NoAckno, window)
    BY SameRelations
  <2>2. pushed = Cli!push(Cli!receive(q, report))
    BY SamePush, SameReceive
  <2>3. Cli!Running(q, w)
    BY <1>1, SendersAre
  <2>4. /\ Cli!Speaks(pushed.s, w, pushed.sent)
        /\ pushed.s.syn_sent /\ Cli!After(pushed.s, q)
    BY <2>1, <2>2, <2>3, SendersAssume, Cli!SilentSpeaks, Zenon
  <2> QED
    BY <1>1, <2>1, <2>2, <2>3, <2>4, SameRelations, SendersAre
<1>2. CASE p # Client
  <2>1. report = Srv!Report(NoAckno, window)
    BY SameRelations
  <2>2. pushed = Srv!push(Srv!receive(q, report))
    BY SamePush, SameReceive
  <2>3. Srv!Running(q, w)
    BY <1>2, SendersAre
  <2>4. /\ Srv!Speaks(pushed.s, w, pushed.sent)
        /\ pushed.s.syn_sent /\ Srv!After(pushed.s, q)
    BY <2>1, <2>2, <2>3, SendersAssume, Srv!SilentSpeaks, Zenon
  <2> QED
    BY <1>2, <2>1, <2>2, <2>3, <2>4, SameRelations, SendersAre
<1> QED
  BY <1>1, <1>2

(* A new sender runs.                                                      *)
LEMMA Begins ==
  ASSUME NEW p \in Peers
  PROVE  RunsNew(p)
<1> SUFFICES ASSUME NEW q,
                q = Sender!NewSender(SendCapacity[p], ISN[p])
         PROVE  /\ Running(p, q, 0)
                /\ ~q.input.closed /\ ~q.syn_sent /\ DOMAIN q.unacked = {}
  BY DEF RunsNew
<1>1. CASE p = Client
  BY <1>1, SendersAssume, Cli!NewRuns, SameNew, SendersAre
<1>2. CASE p # Client
  BY <1>2, SendersAssume, Srv!NewRuns, SameNew, SendersAre
<1> QED
  BY <1>1, <1>2

(* What a small number travels as tells it.                                *)
LEMMA Told ==
  ASSUME NEW p \in Peers
  PROVE  Tells(p)
<1> SUFFICES ASSUME NEW n \in 0..Half, NEW c \in 0..Half
         PROVE  /\ Receiver!wrap(n, ISN[p]) \in 0..(Mod - 1)
                /\ Receiver!unwrap(Receiver!wrap(n, ISN[p]), ISN[p], c) = n
  BY DEF Tells
<1>1. ISN[p] \in Cli!Raw
  BY ConnectionAssumption DEF Peers, Cli!Raw
<1>2. n \in 0..Cli!Half /\ c \in 0..Cli!Half
  BY SameRelations
<1>3. /\ Cli!wrap(n, ISN[p]) \in Cli!Raw
      /\ Cli!unwrap(Cli!wrap(n, ISN[p]), ISN[p], c) = n
  BY <1>1, <1>2, SendersAssume, Cli!UnwrapNear
<1>4. Cli!wrap(n, ISN[p]) = Receiver!wrap(n, ISN[p])
  BY SameStreams, SameWrap
<1>5. PICK raw : raw = Receiver!wrap(n, ISN[p])
  OBVIOUS
<1>6. Cli!unwrap(raw, ISN[p], c) = Receiver!unwrap(raw, ISN[p], c)
  BY SameNumbers, SameWrap
<1> QED
  BY <1>3, <1>4, <1>5, <1>6 DEF Cli!Raw

(* So the laws hold.                                                       *)
LEMMA LawsHold == Laws
<1>1. ASSUME NEW p \in Peers
      PROVE  /\ KeepsNumbers(p) /\ KeepsEnd(p) /\ KeepsSegments(p)
             /\ RunsPush(p) /\ RunsWrite(p) /\ RunsShutdown(p) /\ RunsTick(p)
             /\ RunsReport(p) /\ RunsSilence(p) /\ RunsNew(p) /\ Tells(p)
  BY NumbersKept, EndKept, SegmentsKept, Pushes, Writes, ShutsDown, Ticks, Hears,
     HearsNothing, Begins, Told
<1>2. ASSUME NEW capacity \in Nat
      PROVE  KeepsInserting(capacity) /\ KeepsReading(capacity) /\ StartsFresh(capacity)
  BY Inserting, Reading, Starting
<1> QED
  BY <1>1, <1>2 DEF Laws

-----------------------------------------------------------------------------
(* The two peers and the network stay consistent.                          *)
THEOREM Invariant == Spec => []IInv
<1>1. Init => IInv
  BY LawsHold, InitInv
<1>2. IInv /\ [Next]_vars => IInv'
  BY LawsHold, NextKeeps
<1> QED
  BY <1>1, <1>2, PTL DEF Spec

(* What a sender forgets, the other side has.                              *)
THEOREM Acknowledged == Spec => []AcknowledgedHasArrived
<1>1. IInv => AcknowledgedHasArrived
  BY LawsHold, HasArrived
<1> QED
  BY <1>1, Invariant, PTL

(* A peer that stops without error leaves no byte behind.                  *)
THEOREM Clean == Spec => []CleanExit
<1>1. IInv => CleanExit
  BY LawsHold, ExitsClean
<1> QED
  BY <1>1, Invariant, PTL

(* A peer that stops without lingering leaves nobody waiting for it.       *)
THEOREM NobodyWaits == Spec => []NoNeedToLinger
<1>1. IInv => NoNeedToLinger
  BY LawsHold, WaitsNot
<1> QED
  BY <1>1, Invariant, PTL

(* The connection implements the two reliable streams.                     *)
THEOREM Reliable == Spec => ImplementsReliableStreams
<1>1. Init => Streams2!Init
  BY LawsHold, BothNew
<1>2. IInv /\ [Next]_vars => [Streams2!Next]_Conversation
  BY LawsHold, BothStep
<1> QED
  BY <1>1, <1>2, Invariant, PTL DEF Spec, ImplementsReliableStreams, Streams2!Spec
=============================================================================
