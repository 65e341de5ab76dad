------------------------ MODULE MCNetworkInterface ------------------------
(***************************************************************************)
(* Two next hops, two hardware addresses either of them may announce, and  *)
(* a clock of eight ticks that wraps once.                                 *)
(***************************************************************************)
EXTENDS NetworkInterfaceSystem, TLC

CONSTANT Id

(* Datagrams differ in their first field; ttl and checksum are not looked  *)
(* at here.                                                                *)
MCDatagram == [id : Id, ttl : {1}, cksum : {1}]

(* Datagrams and hardware addresses are only copied and compared.          *)
Symmetry == Permutations(Id) \cup Permutations(Ethernet)
=============================================================================
