---------------------------- MODULE MCEndToEnd ----------------------------
(***************************************************************************)
(* Addresses of four bits.  Behind router a: host 1, on 0..3; behind       *)
(* router b: host 9, on 8..11; 4..7 is the internet between them.  b has a *)
(* route of one bit to its host's side, too, which a longer one for 12..15 *)
(* overrides, and that one leads back: a sends all of 8..15 to b, so that  *)
(* a datagram for 13 goes in circles.                                      *)
(***************************************************************************)
EXTENDS EndToEnd

CONSTANTS a, b

Rule(prefix, length, next_hop, interface) ==
  [route_prefix |-> prefix, prefix_length |-> length,
   next_hop |-> next_hop, interface_num |-> interface]

MCHostIP == [h \in Host |-> IF h = a THEN 1 ELSE 9]
MCHostSideIP == [h \in Host |-> IF h = a THEN 2 ELSE 10]
MCInternetIP == [h \in Host |-> IF h = a THEN 5 ELSE 6]

Default == Rule(0, 0, 5, 1)
ToHost  == Rule(8, 1, Direct, 0)
Back    == Rule(12, 2, 5, 1)
Away    == Rule(0, 2, 5, 1)

MCTable ==
  [h \in Host |->
     IF h = a THEN <<Rule(0, 2, Direct, 0), Rule(4, 2, Direct, 1), Rule(8, 1, 6, 1)>>
     ELSE <<Default, Back, ToHost, Away>>]

Dgram(id, src, dst) == [id |-> id, src |-> src, dst |-> dst, ttl |-> 4, cksum |-> 4]

(* Datagrams of both directions, one of which may circle.                  *)
MCLoads ==
  LET to1 == Dgram("to1", 9, 1)
  IN  {{Dgram("to9", 1, 9), to1}, {Dgram("to13", 1, 13), to1}}
=============================================================================
