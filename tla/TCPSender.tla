----------------------------- MODULE TCPSender -----------------------------
(***************************************************************************)
(* The TCPSender of src/src/tcp_sender.cc as operators on a record: the    *)
(* outbound stream, the window, the sequence numbers sent and acknowledged *)
(* the retransmission timer, and `unacked_messages_', a map from absolute  *)
(* sequence numbers to the messages that are still outstanding.            *)
(*                                                                         *)
(* An operation that transmits returns [s |-> the new sender, sent |-> the *)
(* messages given to the transmit callback, in order].                     *)
(***************************************************************************)
EXTENDS Streams, Wrap32, FiniteSets

CONSTANTS
  MaxPayload,       \* TCPConfig::MAX_PAYLOAD_SIZE
  InitialRTO,       \* initial_RTO_ms_, in ticks
  NoAckno           \* a TCPReceiverMessage without ackno


NewSender(capacity, isn) ==
  [input |-> NewStream(capacity), isn |-> isn,
   RTO |-> InitialRTO, timer_running |-> FALSE, passed_time |-> 0,
   window_size |-> 1, next_abs_seqno |-> 0, acked_abs_seqno |-> 0,
   syn_sent |-> FALSE, fin_sent |-> FALSE, unacked |-> << >>,
   consecutive_retransmissions |-> 0]

sequence_length(msg) ==
  Len(msg.payload) + (IF msg.SYN THEN 1 ELSE 0) + (IF msg.FIN THEN 1 ELSE 0)

(* How many places of the sequence the outstanding messages take.          *)
sequence_numbers_in_flight(s) ==
  Cardinality(UNION { {k} \X (1..sequence_length(s.unacked[k])) :
                        k \in DOMAIN s.unacked })

make_empty_message(s) ==
  [seqno |-> wrap(s.next_abs_seqno, s.isn), SYN |-> FALSE, payload |-> << >>,
   FIN |-> FALSE, RST |-> s.input.error]

-----------------------------------------------------------------------------
(* A definition named Faulty... is a plausible bug that no other uses: it  *)
(* shows that a property tells it from the code.  Here: no probe.          *)
FaultyMaySend(s) == s.window_size > sequence_numbers_in_flight(s)

(* The loop condition of push(): room in the window or, when the window is *)
(* closed and nothing is outstanding, one probe.                           *)
MaySend(s) ==
  \/ s.window_size > sequence_numbers_in_flight(s)
  \/ s.window_size = 0 /\ sequence_numbers_in_flight(s) = 0

(* What is in flight does not count against the window.                    *)
FaultyRoom(s) == IF s.window_size = 0 THEN 1 ELSE s.window_size

(* How many sequence numbers the next message may occupy.                  *)
Room(s) ==
  IF s.window_size = 0 THEN 1
  ELSE s.window_size - sequence_numbers_in_flight(s)

(* Every message leaves a place for a SYN.                                 *)
FaultyPayloadLength(s) ==
  IF s.window_size = 0 THEN Lesser(1, PeekLength(s.input))
  ELSE Lesser(PeekLength(s.input), Lesser(MaxPayload, Room(s) - 1))

(* How much payload it takes: what peek() shows, less a place for the SYN, *)
(* except in a probe.                                                      *)
PayloadLength(s) ==
  IF s.window_size = 0 THEN Lesser(1, PeekLength(s.input))
  ELSE LET space == IF s.syn_sent THEN Room(s) ELSE Room(s) - 1
       IN  Lesser(PeekLength(s.input), Lesser(MaxPayload, space))

(* A message with `len' bytes of payload.                                  *)
Message(s, len, FIN) ==
  [make_empty_message(s) EXCEPT !.payload = SubSeq(s.input.queue, 1, len),
                                !.SYN = ~s.syn_sent, !.FIN = FIN]

(* The FIN goes with whatever message follows close().                     *)
FaultyMayFinish(s, len) ==
  /\ ~s.fin_sent
  /\ s.input.closed
  /\ Room(s) >= len + (IF s.syn_sent THEN 0 ELSE 1) + 1

(* The FIN goes with the last byte, if the room has a place for it too.    *)
MayFinish(s, len) ==
  /\ ~s.fin_sent
  /\ IsFinished(Pop(s.input, len))
  /\ Room(s) >= len + (IF s.syn_sent THEN 0 ELSE 1) + 1

NextMessage(s) ==
  LET WithPayload(len) == Message(s, len, MayFinish(s, len))
  IN  WithPayload(PayloadLength(s))

StartTimer(s) ==
  IF s.timer_running THEN s
  ELSE [s EXCEPT !.timer_running = TRUE, !.passed_time = 0,
                 !.consecutive_retransmissions = 0]

(* std::map::insert leaves an entry that is already there.                 *)
Outstanding(unacked, key, msg) ==
  [k \in DOMAIN unacked \cup {key} |->
     IF k \in DOMAIN unacked THEN unacked[k] ELSE msg]

(* The FIN takes no sequence number when it is sent.                       *)
FaultySendMessage(st, timed, msg) ==
  [s |-> [timed EXCEPT
            !.unacked = Outstanding(@, timed.next_abs_seqno, msg),
            !.next_abs_seqno =
               @ + Len(msg.payload) + (IF msg.SYN THEN 1 ELSE 0)],
   sent |-> Append(st.sent, msg),
   more |-> ~msg.RST]

(* The message is outstanding and transmitted.                             *)
SendMessage(st, timed, msg) ==
  [s |-> [timed EXCEPT
            !.unacked = Outstanding(@, timed.next_abs_seqno, msg),
            !.next_abs_seqno = @ + sequence_length(msg)],
   sent |-> Append(st.sent, msg),
   more |-> ~msg.RST]

(* The stream and the flags once the message has been made.                *)
Took(s, msg) ==
  [s EXCEPT !.input = Pop(@, Len(msg.payload)),
            !.syn_sent = TRUE,
            !.fin_sent = @ \/ msg.FIN]

(* One turn of push()'s loop; `more' is FALSE once the loop has ended.     *)
Turn(st) ==
  LET Make(msg) ==
        IF sequence_length(msg) = 0 /\ ~msg.RST
        THEN [st EXCEPT !.s = Took(@, msg), !.more = FALSE]
        ELSE SendMessage(st, StartTimer(Took(st.s, msg)), msg)
  IN  IF st.more /\ MaySend(st.s) THEN Make(NextMessage(st.s))
      ELSE [st EXCEPT !.more = FALSE]

(* Every turn but the last fills at least one place of the window.         *)
push(s) ==
  LET turns == s.window_size + 2
      after[n \in 0..turns] ==
        IF n = 0 THEN [s |-> s, sent |-> << >>, more |-> TRUE]
        ELSE Turn(after[n - 1])
      Result(end) == [s |-> end.s, sent |-> end.sent]
  IN  Result(after[turns])

-----------------------------------------------------------------------------
(* Off by one: the message that ends just after the ackno goes too.        *)
FaultyAcknowledged(s, ackno) ==
  { k \in DOMAIN s.unacked : k + sequence_length(s.unacked[k]) <= ackno + 1 }

(* Messages the ackno covers entirely; an ackno inside a message leaves it *)
(* and all later ones outstanding.                                         *)
Acknowledged(s, ackno) ==
  { k \in DOMAIN s.unacked :
      \A j \in DOMAIN s.unacked :
        j <= k => j + sequence_length(s.unacked[j]) <= ackno }

(* The timer is restarted but never stopped.                               *)
FaultyAcknowledge(s, ackno) ==
  LET gone == Acknowledged(s, ackno)
      left == [k \in DOMAIN s.unacked \ gone |-> s.unacked[k]]
  IN  IF gone = {} THEN [s EXCEPT !.acked_abs_seqno = ackno]
      ELSE [s EXCEPT !.acked_abs_seqno = ackno, !.unacked = left,
                     !.RTO = InitialRTO, !.passed_time = 0,
                     !.consecutive_retransmissions = 0]

Acknowledge(s, ackno) ==
  LET Forget(gone) ==
        IF gone = {} THEN [s EXCEPT !.acked_abs_seqno = ackno]
        ELSE [s EXCEPT !.acked_abs_seqno = ackno,
                       !.unacked = [k \in DOMAIN @ \ gone |-> @[k]],
                       !.RTO = InitialRTO,
                       !.consecutive_retransmissions = 0,
                       !.passed_time = 0,
                       !.timer_running = DOMAIN s.unacked # gone]
  IN  Forget(Acknowledged(s, ackno))

(* An ackno beyond what was sent is not ignored.                           *)
FaultyReceive(s, msg) ==
  LET windowed == [s EXCEPT !.window_size = msg.window_size]
  IN  IF msg.RST THEN [s EXCEPT !.input = SetError(@)]
      ELSE IF msg.ackno = NoAckno THEN windowed
      ELSE Acknowledge(windowed, unwrap(msg.ackno, s.isn, s.acked_abs_seqno))

receive(s, msg) ==
  LET windowed == [s EXCEPT !.window_size = msg.window_size]
      noted == [windowed EXCEPT
                  !.syn_sent = @ \/ msg.ackno = add(s.isn, 1)]
  IN  IF msg.RST THEN [s EXCEPT !.input = SetError(@)]
      ELSE IF msg.ackno = NoAckno THEN windowed
      ELSE IF unwrap(msg.ackno, s.isn, s.next_abs_seqno) > s.next_abs_seqno
      THEN noted
      ELSE Acknowledge(noted, unwrap(msg.ackno, s.isn, s.acked_abs_seqno))

First(s) == CHOOSE k \in DOMAIN s.unacked : \A j \in DOMAIN s.unacked : k <= j

(* The timeout doubles also while a closed window is probed.               *)
FaultyTick(s, elapsed) ==
  LET passed == s.passed_time + elapsed
  IN  IF ~s.timer_running THEN [s |-> s, sent |-> << >>]
      ELSE IF passed < s.RTO
      THEN [s |-> [s EXCEPT !.passed_time = passed], sent |-> << >>]
      ELSE [s |-> [s EXCEPT !.passed_time = 0, !.RTO = 2 * @,
                            !.consecutive_retransmissions =
                               IF s.window_size > 0 THEN @ + 1 ELSE @],
            sent |-> << s.unacked[First(s)] >>]

(* The timer expires when passed_time reaches the RTO: retransmit the      *)
(* earliest message, and back off unless the window is closed.             *)
tick(s, elapsed) ==
  LET passed  == s.passed_time + elapsed
      expired == [s EXCEPT !.passed_time = 0]
  IN  IF ~s.timer_running THEN [s |-> s, sent |-> << >>]
      ELSE IF passed < s.RTO
      THEN [s |-> [s EXCEPT !.passed_time = passed], sent |-> << >>]
      ELSE [s |-> IF s.window_size > 0
                  THEN [expired EXCEPT !.RTO = 2 * @,
                                       !.consecutive_retransmissions = @ + 1]
                  ELSE expired,
            sent |-> IF DOMAIN s.unacked = {} THEN << >>
                     ELSE << s.unacked[First(s)] >>]
=============================================================================
