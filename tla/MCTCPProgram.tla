----------------------------- MODULE MCTCPProgram -----------------------------
(***************************************************************************)
(* The program on buffers of a byte or two: every one of them fills.       *)
(***************************************************************************)
EXTENDS TCPProgram

CONSTANTS Connecting, Listening, LocalConnecting, LocalListening, RemoteConnecting, RemoteListening

MCISN == [local |-> Mod - 2, remote |-> 3]
MCSendCapacity == [local |-> 1, remote |-> 1]
MCRecvCapacity == [local |-> 2, remote |-> 3]
MCMishaps == [connect |-> Connecting, listen |-> Listening]
MCToWrite ==
  [connect |-> [stdin |-> LocalConnecting, remote |-> RemoteConnecting],
   listen |-> [stdin |-> LocalListening, remote |-> RemoteListening]]
=============================================================================
