--------------------------- MODULE TCPSenderSystem ---------------------------
(***************************************************************************)
(* A TCPSender between an application that writes and shuts down, a clock, *)
(* and a receiver that may say anything: acknowledge any sequence number   *)
(* sent so far, old ones again, one never sent, or nothing, with any       *)
(* window.  As in TCPPeer, every receive is followed by a push.            *)
(***************************************************************************)
EXTENDS TCPSender

CONSTANTS
  Capacity, ISN,
  ToWrite,          \* how many bytes the application writes
  Windows,          \* the windows the receiver may announce
  AckBeforeSyn,     \* may it acknowledge before the SYN was sent?
  MaxRetx           \* bound on consecutive retransmissions

ASSUME SenderAssumption ==
  /\ Capacity \in Nat \ {0} /\ ISN \in Raw /\ ToWrite \in Nat
  /\ Windows \subseteq Nat /\ AckBeforeSyn \in BOOLEAN /\ MaxRetx \in Nat
  /\ MaxPayload \in Nat \ {0} /\ InitialRTO \in Nat \ {0}
  /\ ToWrite + 2 + Mod <= U64
  /\ NoAckno \notin Raw

VARIABLES
  s,          \* the TCPSender
  written     \* how many bytes the application has written: byte k is k

vars == <<s, written>>

Init == s = NewSender(Capacity, ISN) /\ written = 0

PushStream ==
  /\ s' = push(s).s
  /\ UNCHANGED written

Write(n) ==
  /\ ~s.input.closed
  /\ n <= AvailableCapacity(s.input)
  /\ written + n <= ToWrite
  /\ s' = push([s EXCEPT !.input = Push(@, [i \in 1..n |-> written + i])]).s
  /\ written' = written + n

Shutdown ==
  /\ s' = push([s EXCEPT !.input = Close(@)]).s
  /\ UNCHANGED written

(* What a receiver may acknowledge.                                        *)
Acknos ==
  {NoAckno} \cup
  IF s.next_abs_seqno = 0 /\ ~AckBeforeSyn THEN {}
  ELSE { wrap(n, s.isn) : n \in 0..(s.next_abs_seqno + 1) }

(* A first window is never closed: a receiver has not read anything yet.   *)
ReceiveMessage(ackno, window) ==
  /\ s.next_abs_seqno = 0 => window > 0
  /\ s' = push(receive(s, [ackno |-> ackno, window_size |-> window,
                           RST |-> FALSE])).s
  /\ UNCHANGED written

Tick(elapsed) ==
  /\ s.consecutive_retransmissions < MaxRetx
  /\ s' = tick(s, elapsed).s
  /\ UNCHANGED written

Next ==
  \/ PushStream
  \/ \E n \in 1..Capacity : Write(n)
  \/ Shutdown
  \/ \E ackno \in Acknos, window \in Windows : ReceiveMessage(ackno, window)
  \/ \E elapsed \in 1..(2 * InitialRTO) : Tick(elapsed)

Spec == Init /\ [][Next]_vars

-----------------------------------------------------------------------------
TypeOK ==
  /\ s.input.queue \in Seq(1..ToWrite) /\ Len(s.input.queue) <= Capacity
  /\ s.RTO \in Nat /\ s.passed_time \in Nat /\ s.window_size \in Nat
  /\ s.next_abs_seqno \in 0..(ToWrite + 2)
  /\ s.acked_abs_seqno \in 0..s.next_abs_seqno
  /\ DOMAIN s.unacked \subseteq Nat
  /\ {s.timer_running, s.syn_sent, s.fin_sent} \subseteq BOOLEAN
  /\ written \in 0..ToWrite

EndOf(k) == k + sequence_length(s.unacked[k])

(* The outstanding messages tile the sequence numbers from the oldest up   *)
(* to next_abs_seqno_: whatever is acknowledged, wholly, in part, again or *)
(* impossibly, a retransmission of the oldest fills the receiver's gap.    *)
OutstandingTiles ==
  /\ \A k \in DOMAIN s.unacked :
       /\ EndOf(k) = s.next_abs_seqno \/ EndOf(k) \in DOMAIN s.unacked
       /\ \A j \in DOMAIN s.unacked : j < k => EndOf(j) <= k
  /\ s.unacked # << >> => sequence_numbers_in_flight(s) = s.next_abs_seqno - First(s)

(* Each message still stands at its own place of the stream: the SYN at 0, *)
(* byte k at k, the FIN after the last byte of a closed stream.            *)
MessagesInPlace ==
  \A k \in DOMAIN s.unacked :
    LET msg == s.unacked[k]
        first == IF msg.SYN THEN k + 1 ELSE k
    IN  /\ msg.SYN <=> k = 0
        /\ \A i \in 1..Len(msg.payload) : msg.payload[i] = first + i - 1
        /\ msg.FIN => s.input.closed /\ EndOf(k) = written + 2
        /\ msg.seqno = wrap(k, s.isn)

(* The timer runs exactly while something is outstanding: neither a stall  *)
(* with no timer nor a timer with nothing to retransmit.                   *)
TimerCoversOutstanding == s.timer_running <=> s.unacked # << >>

(* The timeout after n retransmissions in a row.                           *)
TimeoutAfter[n \in 0..MaxRetx] ==
  IF n = 0 THEN InitialRTO ELSE 2 * TimeoutAfter[n - 1]

(* The timeout is the initial one doubled once per retransmission counted  *)
(* since the last progress; acknowledgments that make none leave it.       *)
BackoffMatchesCount == s.RTO = TimeoutAfter[s.consecutive_retransmissions]

(* Everything the application wrote is outstanding, acknowledged or still  *)
(* in the stream, and nothing that fits the window is held back.           *)
NothingHeldBack ==
  /\ s.syn_sent => s.next_abs_seqno =
       1 + s.input.popped + (IF s.fin_sent THEN 1 ELSE 0)
  /\ s.syn_sent /\ BytesBuffered(s.input) > 0 => ~MaySend(s)
  /\ s.syn_sent /\ IsFinished(s.input) /\ ~s.fin_sent => ~MaySend(s)

(* New sequence numbers are sent only into the window just announced, and  *)
(* a closed window is probed with a single one.                            *)
NewDataFitsWindow ==
  [][s'.next_abs_seqno > s.next_abs_seqno =>
       sequence_numbers_in_flight(s')
         <= IF s'.window_size = 0 THEN 1 ELSE s'.window_size]_vars

(* The first message of a stream carries the SYN.                          *)
StartsWithSyn == \A k \in DOMAIN s.unacked : k = 0 => s.unacked[k].SYN
=============================================================================
