--------------------------- MODULE TCPMinnowSocket ---------------------------
(***************************************************************************)
(* The TCPMinnowSocket of src/util/tcp_minnow_socket_impl.hh: a TCPPeer    *)
(* behind a datagram adapter, and the three rules of its event loop, which *)
(* tie it to the `tun' device and to the thread's end `tcp' of the socket  *)
(* pair.  A context's `own' is the socket; beside the fields of            *)
(* FileDescriptor it has                                                   *)
(*   sent      the datagrams written to `tun'                              *)
(*   drops     of the LossyFdAdapter: "up" if it drops what is written,    *)
(*             "down" if it drops what is read                             *)
(***************************************************************************)
EXTENDS TCPPeer, FileDescriptor

INSTANCE TCPOverIPv4

(* Named after what the rules do.                                          *)
TcpRules == << "receive segment", "push bytes", "read inbound" >>

NewSocket(peer, adapter) ==
  [peer |-> peer, adapter |-> adapter, outbound_shutdown |-> FALSE,
   inbound_shutdown |-> FALSE, rules |-> TcpRules, polled |-> << >>]

TcpDescriptor(rule) == IF rule = "receive segment" THEN "tun" ELSE "tcp"

TcpDirection(rule) == IF rule = "read inbound" THEN "Out" ELSE "In"

(* What the peer transmits leaves through the adapter, unless it drops it. *)
Transmitted(c, exchange) ==
  [c EXCEPT !.own.peer = exchange.peer,
            !.sent = IF "up" \in c.drops THEN @
                     ELSE @ \o [i \in DOMAIN exchange.sent |->
                                  wrap_tcp_in_ip(c.own.adapter, exchange.sent[i])]]

(* The adapter has adopted its peer by the time it drops the datagram.     *)
ReceiveSegment(c) ==
  LET Heard(d, messages) ==
        IF messages = << >> \/ "down" \in d.drops THEN d
        ELSE Transmitted(d, receive(d.own.peer, messages[1]))
      Unwrapped(u) == Heard([c EXCEPT !.own.adapter = u.adapter,
                                      !.fd.tun.inbox = Tail(@),
                                      !.counted = @ \cup {"In"}], u.messages)
  IN  Unwrapped(unwrap_tcp_in_ip(c.own.adapter, Head(c.fd.tun.inbox)))

PushBytes(c) ==
  LET Written(got) ==
        IF got.c.fd.tcp.eof
        THEN [got.c EXCEPT !.own.peer.sender.input = Close(Push(@, got.data)),
                           !.own.outbound_shutdown = TRUE]
        ELSE [got.c EXCEPT !.own.peer.sender.input = Push(@, got.data)]
      Pushed(d) == Transmitted(d, push(d.own.peer))
  IN  Pushed(Written(read(c, "tcp", AvailableCapacity(outbound(c.own.peer)))))

(* A closed stream counts as finished with bytes still in it.              *)
HastyInboundOver(own) == inbound(own.peer).closed \/ inbound(own.peer).error

InboundOver(own) == IsFinished(inbound(own.peer)) \/ inbound(own.peer).error

(* Only what was written is popped; the end of the stream is passed on.    *)
ReadInbound(c) ==
  LET Popped(wrote) ==
        [wrote.c EXCEPT !.own.peer.receiver.reassembler.output = Pop(@, wrote.n)]
      Finish(d) ==
        IF ~InboundOver(d.own) THEN d
        ELSE [shutdown(d, "tcp", {"Out"}) EXCEPT !.own.inbound_shutdown = TRUE]
  IN  Finish(IF BytesBuffered(inbound(c.own.peer)) = 0 THEN c
             ELSE Popped(write(c, "tcp", Peek(inbound(c.own.peer)))))

TcpCallback(c, rule) ==
  CASE rule = "receive segment" -> ReceiveSegment(c)
    [] rule = "push bytes" -> PushBytes(c)
    [] rule = "read inbound" -> ReadInbound(c)

TcpInterested(c, rule) ==
  CASE rule = "receive segment" -> active(c.own.peer)
    [] rule = "push bytes" ->
         /\ active(c.own.peer)
         /\ ~c.own.outbound_shutdown
         /\ AvailableCapacity(outbound(c.own.peer)) > 0
    [] rule = "read inbound" ->
         \/ BytesBuffered(inbound(c.own.peer)) > 0
         \/ (InboundOver(c.own) /\ ~c.own.inbound_shutdown)

TcpCancel(c, rule) ==
  IF rule # "push bytes" THEN c
  ELSE [c EXCEPT !.own.peer.sender.input = Close(@), !.own.outbound_shutdown = TRUE]

TcpError(c, rule) ==
  CASE rule = "push bytes" -> [c EXCEPT !.own.peer.sender.input = SetError(@)]
    [] rule = "read inbound" ->
         [c EXCEPT !.own.peer.receiver.reassembler.output = SetError(@)]
    [] OTHER -> c

(* After an event, the peer is told how much time has passed.              *)
Ticked(c, elapsed) ==
  IF active(c.own.peer) THEN Transmitted(c, tick(c.own.peer, elapsed)) ELSE c

(* connect() and listen_and_accept() up to their loop: the SYN is sent, or *)
(* the adapter listens.                                                    *)
Started(c, role) ==
  IF role = "connect" THEN Transmitted(c, push(c.own.peer))
  ELSE [c EXCEPT !.own.adapter.listening = TRUE]

(* While this holds they run the loop themselves; then a thread does.      *)
StillWaiting(own, role) ==
  LET in_flight == Sender!sequence_numbers_in_flight(own.peer.sender) IN
  IF role = "connect" THEN in_flight = 1
  ELSE ~has_ackno(own.peer) \/ in_flight > 0
=============================================================================
