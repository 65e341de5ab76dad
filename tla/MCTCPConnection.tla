--------------------------- MODULE MCTCPConnection ---------------------------
(***************************************************************************)
(* Small connections: the client's initial sequence number is chosen so    *)
(* that its sequence numbers wrap around right after the SYN.              *)
(***************************************************************************)
EXTENDS TCPConnection, TLC
CONSTANTS
  ClientBytes, ServerBytes, Capacity, ToServer, ToClient, ClientRetx, ServerRetx

MCISN == Client :> (Mod - 2) @@ Server :> 3
MCToWrite == Client :> ClientBytes @@ Server :> ServerBytes
MCInFlight == Client :> ToClient @@ Server :> ToServer
MCRetx == Client :> ClientRetx @@ Server :> ServerRetx
MCCapacity == [p \in Peers |-> Capacity]
=============================================================================
