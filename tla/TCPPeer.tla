------------------------------ MODULE TCPPeer ------------------------------
(***************************************************************************)
(* The TCPPeer of src/util/tcp_peer.hh: a TCPSender and a TCPReceiver that *)
(* share one exchange of segments, and the rules for when the pair is      *)
(* still active.  An operation returns [peer |-> the new peer, sent |->    *)
(* the TCPMessages it transmits].                                          *)
(***************************************************************************)
EXTENDS Streams

CONSTANTS
  Mod, U64, MaxPayload, MaxWindow, InitialRTO, NoAckno,
  LingerTime        \* 10 * cfg_.rt_timeout, in ticks

Sender == INSTANCE TCPSender
Receiver == INSTANCE TCPReceiver

(* since_receipt is cumulative_time_ - time_of_last_receipt_, of which     *)
(* only the comparison with LingerTime matters.                            *)
NewPeer(send_capacity, recv_capacity, isn) ==
  [sender |-> Sender!NewSender(send_capacity, isn),
   receiver |-> Receiver!NewReceiver(recv_capacity),
   need_send |-> FALSE, linger |-> TRUE, since_receipt |-> 0]

outbound(p) == p.sender.input
inbound(p) == p.receiver.reassembler.output

has_error(p) == inbound(p).error \/ outbound(p).error

(* A definition named Faulty... is a plausible bug that no other uses: it  *)
(* shows that a property tells it from the code.  Here: what was sent but  *)
(* not acknowledged does not keep the peer active.                         *)
FaultyActive(p) ==
  /\ ~has_error(p)
  /\ \/ ~IsFinished(outbound(p))
     \/ ~inbound(p).closed
     \/ p.linger /\ p.since_receipt < LingerTime

(* A peer that lingers does so for ever.                                   *)
EndlessActive(p) ==
  /\ ~has_error(p)
  /\ \/ Sender!sequence_numbers_in_flight(p.sender) > 0
     \/ ~IsFinished(outbound(p))
     \/ ~inbound(p).closed
     \/ p.linger

active(p) ==
  /\ ~has_error(p)
  /\ \/ Sender!sequence_numbers_in_flight(p.sender) > 0
     \/ ~IsFinished(outbound(p))
     \/ ~inbound(p).closed
     \/ p.linger /\ p.since_receipt < LingerTime

has_ackno(p) == Receiver!send(p.receiver).ackno # NoAckno

(* Each message of the sender leaves with what the receiver has to say,    *)
(* and discharges need_send_.                                              *)
Transmit(p, messages) ==
  [peer |-> [p EXCEPT !.need_send = @ /\ messages = << >>],
   sent |-> [i \in DOMAIN messages |->
               [sender |-> messages[i], receiver |-> Receiver!send(p.receiver)]]]

PeerPush(p, pushed) == Transmit([p EXCEPT !.sender = pushed.s], pushed.sent)

push(p) == PeerPush(p, Sender!push(p.sender))

PeerTick(p, elapsed, ticked) ==
  Transmit([p EXCEPT !.sender = ticked.s,
                     !.since_receipt = Lesser(@ + elapsed, LingerTime)],
           ticked.sent)

tick(p, elapsed) == PeerTick(p, elapsed, Sender!tick(p.sender, elapsed))

(* A segment that takes a sequence number, or that stands just before the  *)
(* one we want, deserves a reply.                                          *)
MustReply(p, msg) ==
  \/ Sender!sequence_length(msg.sender) > 0
  \/ LET ackno == Receiver!send(p.receiver).ackno IN
       ackno # NoAckno /\ Receiver!add(msg.sender.seqno, 1) = ackno

(* What push() did not answer is answered by an empty message.             *)
Reply(pushed) ==
  LET Also(empty) == [peer |-> empty.peer, sent |-> pushed.sent \o empty.sent]
  IN  IF pushed.peer.need_send
      THEN Also(Transmit(pushed.peer,
                         << Sender!make_empty_message(pushed.peer.sender) >>))
      ELSE pushed

(* Both sides forgo the linger once their inbound stream has ended.        *)
FaultySettleLinger(p) == [p EXCEPT !.linger = @ /\ ~inbound(p).closed]

(* The side whose inbound stream ends first need not linger.               *)
SettleLinger(p) ==
  [p EXCEPT !.linger = @ /\ ~(inbound(p).closed /\ ~IsFinished(outbound(p)))]

receive(p, msg) ==
  LET heard == [p EXCEPT
                  !.since_receipt = 0,
                  !.need_send = @ \/ MustReply(p, msg),
                  !.receiver = Receiver!receive(@, msg.sender),
                  !.sender = Sender!receive(@, msg.receiver)]
      replied == Reply(push(heard))
  IN  IF ~active(p) THEN [peer |-> p, sent |-> << >>]
      ELSE [replied EXCEPT !.peer = SettleLinger(@)]
=============================================================================
