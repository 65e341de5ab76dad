---------------------------- MODULE TCPReceiver ----------------------------
(***************************************************************************)
(* The TCPReceiver of src/src/tcp_receiver.cc: it turns segments into      *)
(* insertions of the Reassembler, and reports the next sequence number it  *)
(* needs and how much it has room for.                                     *)
(***************************************************************************)
EXTENDS Reassembler

CONSTANTS
  Mod,              \* 2^32
  MaxWindow,        \* UINT16_MAX
  NoAckno           \* a TCPReceiverMessage without ackno

INSTANCE Wrap32

(* ins_ is constructed as 0; it is meaningless in LISTEN.                  *)
NewReceiver(capacity) ==
  [reassembler |-> NewReassembler(NewStream(capacity)),
   state |-> "LISTEN", ins |-> 0]

Output(rcv) == rcv.reassembler.output

Abort(rcv) ==
  [rcv EXCEPT !.state = "CLOSED", !.reassembler.output = SetError(@)]

(* The stream index of a message's first byte: the SYN takes a sequence    *)
(* number but no index, and 0 - 1 wraps around in 64 bits.                 *)
FirstIndex(rcv, msg) ==
  LET abs_seqno == unwrap(msg.seqno, rcv.ins, BytesPushed(Output(rcv)))
  IN  IF msg.SYN THEN abs_seqno ELSE (abs_seqno - 1) % U64

Accept(rcv, msg) ==
  [rcv EXCEPT
     !.reassembler = Insert(@, FirstIndex(rcv, msg), msg.payload, msg.FIN),
     !.state = IF msg.FIN THEN "FIN_RECEIVED" ELSE @]

(* The first SYN fixes the zero point.                                     *)
Synchronized(rcv, msg) ==
  IF rcv.state # "LISTEN" THEN rcv
  ELSE [rcv EXCEPT !.ins = msg.seqno, !.state = "SYN_RECEIVED"]

receive(rcv, msg) ==
  IF rcv.state = "CLOSED" THEN rcv
  ELSE IF msg.RST \/ Output(rcv).error THEN Abort(rcv)
  ELSE IF rcv.state = "LISTEN" /\ ~msg.SYN THEN rcv
  ELSE Accept(Synchronized(rcv, msg), msg)

(* 1 for the SYN, and 1 for the FIN once everything before it is written.  *)
NextAbsSeqno(rcv) ==
  1 + BytesPushed(Output(rcv))
    + IF rcv.state = "FIN_RECEIVED" /\ Output(rcv).closed THEN 1 ELSE 0

send(rcv) ==
  LET window == Lesser(AvailableCapacity(Output(rcv)), MaxWindow)
  IN  IF rcv.state = "CLOSED" \/ Output(rcv).error
      THEN [ackno |-> NoAckno, window_size |-> 0, RST |-> TRUE]
      ELSE [ackno |-> IF rcv.state = "LISTEN" THEN NoAckno
                      ELSE wrap(NextAbsSeqno(rcv), rcv.ins),
            window_size |-> window, RST |-> FALSE]
=============================================================================
