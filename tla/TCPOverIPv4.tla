----------------------------- MODULE TCPOverIPv4 -----------------------------
(***************************************************************************)
(* The datagrams of one connection: TCPOverIPv4Adapter                     *)
(* (src/util/tcp_over_ip.cc) and what TCPSegment::serialize and parse      *)
(* (src/util/tcp_segment.cc) do to a TCPMessage.  A checksum is intact or  *)
(* not.                                                                    *)
(***************************************************************************)
EXTENDS Naturals

CONSTANT NoAckno

(* FdAdapterConfig; an address is a record [ip, port].                     *)
NewAdapter(source, destination, listening) ==
  [source |-> source, destination |-> destination, listening |-> listening]

(* One RST flag for both halves, and a zero in place of a missing ackno.   *)
Serialize(adapter, msg) ==
  [src_port |-> adapter.source.port, dst_port |-> adapter.destination.port,
   seqno |-> msg.sender.seqno, payload |-> msg.sender.payload,
   SYN |-> msg.sender.SYN, FIN |-> msg.sender.FIN,
   RST |-> msg.sender.RST \/ msg.receiver.RST,
   ACK |-> msg.receiver.ackno # NoAckno,
   ackno |-> IF msg.receiver.ackno = NoAckno THEN 0 ELSE msg.receiver.ackno,
   window_size |-> msg.receiver.window_size]

Parsed(seg) ==
  [sender |-> [seqno |-> seg.seqno, SYN |-> seg.SYN, payload |-> seg.payload,
               FIN |-> seg.FIN, RST |-> seg.RST],
   receiver |-> [ackno |-> IF seg.ACK THEN seg.ackno ELSE NoAckno,
                 window_size |-> seg.window_size, RST |-> seg.RST]]

wrap_tcp_in_ip(adapter, msg) ==
  [src |-> adapter.source.ip, dst |-> adapter.destination.ip, proto |-> "TCP",
   intact |-> TRUE, segment |-> Serialize(adapter, msg)]

(* The ports are not looked at.                                            *)
FaultyPasses(adapter, dgram) ==
  /\ dgram.proto = "TCP" /\ dgram.intact
  /\ IF adapter.listening THEN dgram.segment.SYN /\ ~dgram.segment.RST
     ELSE dgram.dst = adapter.source.ip /\ dgram.src = adapter.destination.ip

(* A listening adapter takes a SYN for its port from anywhere, another one *)
(* what its peer sends to it.                                              *)
Passes(adapter, dgram) ==
  /\ dgram.proto = "TCP" /\ dgram.intact
  /\ dgram.segment.dst_port = adapter.source.port
  /\ IF adapter.listening THEN dgram.segment.SYN /\ ~dgram.segment.RST
     ELSE /\ dgram.dst = adapter.source.ip
          /\ dgram.src = adapter.destination.ip
          /\ dgram.segment.src_port = adapter.destination.port

(* The first SYN names both ends of the connection.                        *)
Adopt(adapter, dgram) ==
  IF ~adapter.listening THEN adapter
  ELSE NewAdapter([adapter.source EXCEPT !.ip = dgram.dst],
                  [ip |-> dgram.src, port |-> dgram.segment.src_port], FALSE)

(* At most one message comes out.                                          *)
unwrap_tcp_in_ip(adapter, dgram) ==
  IF Passes(adapter, dgram)
  THEN [adapter |-> Adopt(adapter, dgram), messages |-> << Parsed(dgram.segment) >>]
  ELSE [adapter |-> adapter, messages |-> << >>]
=============================================================================
