--------------------------- MODULE TCPConnection ---------------------------
(***************************************************************************)
(* Two TCPPeers joined by a network, each driven as TCPMinnowSocket drives *)
(* it (src/util/tcp_minnow_socket_impl.hh): one rule hands it segments,    *)
(* one feeds it what the application wrote, one passes what it has         *)
(* reassembled to the application, and the loop ticks it while it is       *)
(* active.  The client has called connect(), the server                    *)
(* listen_and_accept().                                                    *)
(*                                                                         *)
(* The network comes in two kinds.  Chaotic, it delivers any segment ever  *)
(* sent at any time, any number of times or never, and each clock runs as  *)
(* it likes: what safety must withstand.  Otherwise it loses at most       *)
(* MaxLosses segments, delivers the others once, and is fast: time passes  *)
(* only when nothing is in flight.                                         *)
(***************************************************************************)
EXTENDS Integers, Sequences, FiniteSets

CONSTANTS
  Client, Server,
  Mod, U64, MaxPayload, MaxWindow, InitialRTO, LingerTime, NoAckno,
  SendCapacity, RecvCapacity, ISN,    \* functions of the peer
  ToWrite,                            \* how much each application writes
  Chaotic,                            \* which network
  MaxLosses,                          \* losses, when not Chaotic
  MaxInFlight,                        \* of the peer: bound on segments on their way to it
  MaxRetx                             \* of the peer: bound on consecutive retransmissions

ASSUME ConnectionAssumption ==
  /\ Client # Server
  /\ Chaotic \in BOOLEAN
  /\ MaxLosses \in Nat
  /\ \A p \in {Client, Server} :
       /\ SendCapacity[p] \in Nat \ {0} /\ RecvCapacity[p] \in Nat \ {0}
       /\ ISN[p] \in 0..(Mod - 1) /\ ToWrite[p] \in Nat
       /\ MaxInFlight[p] \in Nat /\ MaxRetx[p] \in Nat
  /\ Mod \in Nat \ {0} /\ Mod % 2 = 0
  /\ U64 \in Nat /\ U64 % Mod = 0 /\ U64 > Mod
  /\ MaxPayload \in Nat \ {0} /\ MaxWindow \in Nat \ {0}
  /\ InitialRTO \in Nat \ {0} /\ LingerTime \in Nat
  /\ NoAckno \notin 0..(Mod - 1)

(* A chaotic network keeps a segment for ever.  What a 32-bit number means *)
(* is then settled only in a stream that fits half the circle, 2^31 bytes. *)
ASSUME ShortStreams ==
  \A p \in {Client, Server} : ToWrite[p] + 2 <= Mod \div 2

Peers == {Client, Server}

Other(p) == IF p = Client THEN Server ELSE Client

INSTANCE TCPPeer

VARIABLES
  peer,        \* the two TCPPeers
  net,         \* net[p]: segments on their way to p
  listening,   \* the server's adapter has not adopted a client yet
  written,     \* written[p]: bytes p's application has written
  received,    \* received[p]: bytes p's application has read
  losses       \* segments lost so far, when not Chaotic

vars == <<peer, net, listening, written, received, losses>>

snd(p) == peer[p].sender
rcv(p) == peer[p].receiver

in_flight(p) == Sender!sequence_numbers_in_flight(snd(p))

(* The k-th byte an application writes is the number k.                    *)
Init ==
  /\ peer = [p \in Peers |-> NewPeer(SendCapacity[p], RecvCapacity[p], ISN[p])]
  /\ net = [p \in Peers |-> {}]
  /\ listening = TRUE
  /\ written = [p \in Peers |-> 0]
  /\ received = [p \in Peers |-> << >>]
  /\ losses = 0

-----------------------------------------------------------------------------
(* TCPSegment has one RST flag for both halves of a message.               *)
OnWire(msg) ==
  LET RST == msg.sender.RST \/ msg.receiver.RST
  IN  [sender |-> [msg.sender EXCEPT !.RST = RST],
       receiver |-> [msg.receiver EXCEPT !.RST = RST]]

(* n segments are lost.                                                    *)
Lost(n) ==
  /\ Chaotic \/ losses + n <= MaxLosses
  /\ losses' = IF Chaotic THEN losses ELSE losses + n

(* p takes a step of its own that transmits: its peer becomes step.peer,   *)
(* and what it sent, less what LossyFdAdapter::write drops, is in flight.  *)
Emit(p, step, rest) ==
  LET segments == { OnWire(step.sent[i]) : i \in DOMAIN step.sent }
  IN  \E dropped \in SUBSET segments :
        /\ Lost(Cardinality(dropped))
        /\ peer' = [peer EXCEPT ![p] = step.peer]
        /\ net' = [rest EXCEPT ![Other(p)] = @ \cup (segments \ dropped)]
        /\ Cardinality(net'[Other(p)]) <= MaxInFlight[Other(p)]

(* connect(): the client's first push sends the SYN.                       *)
Connect ==
  /\ ~snd(Client).syn_sent
  /\ Emit(Client, push(peer[Client]), net)
  /\ UNCHANGED <<listening, written, received>>

(* The SYN has been sent and acknowledged, and the peer's has arrived:     *)
(* connect() or listen_and_accept() has returned to the application.       *)
Established(p) ==
  /\ snd(p).syn_sent /\ 0 \notin DOMAIN snd(p).unacked
  /\ p = Client \/ has_ackno(peer[p])

(* Rule 2 is interested.                                                   *)
MayPush(p) ==
  /\ Established(p) /\ active(peer[p])
  /\ ~outbound(peer[p]).closed
  /\ AvailableCapacity(outbound(peer[p])) > 0

Write(p, n) ==
  /\ MayPush(p)
  /\ n <= AvailableCapacity(outbound(peer[p]))
  /\ written[p] + n <= ToWrite[p]
  /\ LET bytes == [i \in 1..n |-> written[p] + i] IN
     Emit(p, push([peer[p] EXCEPT !.sender.input = Push(@, bytes)]), net)
  /\ written' = [written EXCEPT ![p] = @ + n]
  /\ UNCHANGED <<listening, received>>

(* The application has written all it wants and shuts its side down; the   *)
(* thread reads end of file, closes the outbound stream and pushes.        *)
Shutdown(p) ==
  /\ MayPush(p)
  /\ written[p] = ToWrite[p]
  /\ Emit(p, push([peer[p] EXCEPT !.sender.input = Close(@)]), net)
  /\ UNCHANGED <<listening, written, received>>

(* Rule 3: some of what peek() shows is written to the application.  No    *)
(* segment announces the space this frees.                                 *)
Read(p, n) ==
  /\ n <= PeekLength(inbound(peer[p]))
  /\ received' = [received EXCEPT ![p] = @ \o SubSeq(inbound(peer[p]).queue, 1, n)]
  /\ peer' = [peer EXCEPT ![p].receiver.reassembler.output = Pop(@, n)]
  /\ UNCHANGED <<net, listening, written, losses>>

(* The adapter's filter: while it listens only a SYN without RST passes,   *)
(* and adopts its source.                                                  *)
Admitted(p, msg) ==
  p = Server /\ listening => msg.sender.SYN /\ ~msg.sender.RST

Adopt(p, msg) ==
  listening' = (listening /\ ~(p = Server /\ Admitted(p, msg)))

(* Rule 1, interested while the peer is active.                            *)
Deliver(p, msg) ==
  /\ active(peer[p])
  /\ Admitted(p, msg)
  /\ Adopt(p, msg)
  /\ Emit(p, receive(peer[p], msg),
          IF Chaotic THEN net ELSE [net EXCEPT ![p] = @ \ {msg}])
  /\ UNCHANGED <<written, received>>

(* LossyFdAdapter::read drops the segment after the adapter below it has   *)
(* adopted its source.                                                     *)
DropOnRead(p, msg) ==
  /\ active(peer[p])
  /\ Admitted(p, msg)
  /\ Adopt(p, msg)
  /\ net' = [net EXCEPT ![p] = @ \ {msg}]
  /\ Lost(1)
  /\ UNCHANGED <<peer, written, received>>

(* Nobody reads for a peer that is no longer active, and nothing but a SYN *)
(* passes a listening adapter.                                             *)
Unread(p, msg) ==
  /\ ~active(peer[p]) \/ ~Admitted(p, msg)
  /\ net' = [net EXCEPT ![p] = @ \ {msg}]
  /\ UNCHANGED <<peer, listening, written, received, losses>>

-----------------------------------------------------------------------------
(* The socket's loop ticks its peer with the time that has passed.         *)
Ticked(p, elapsed) ==
  IF active(peer[p]) THEN tick(peer[p], elapsed)
  ELSE [peer |-> peer[p], sent |-> << >>]

TickBound(p) == snd(p).consecutive_retransmissions < MaxRetx[p]

(* Chaotic: p's clock jumps to its retransmission timeout.                 *)
Timeout(p) ==
  /\ Chaotic /\ active(peer[p]) /\ TickBound(p)
  /\ Emit(p, tick(peer[p], snd(p).RTO), net)
  /\ UNCHANGED <<listening, written, received>>

(* Otherwise: one tick passes for both peers once nothing is in flight.    *)
Tick ==
  /\ ~Chaotic /\ \A p \in Peers : net[p] = {} /\ TickBound(p)
  /\ \E p \in Peers : active(peer[p])
  /\ snd(Client).syn_sent
  /\ LET step == [p \in Peers |-> Ticked(p, 1)]
         arriving(sent) == { OnWire(sent[i]) : i \in DOMAIN sent }
     IN  \E dropped \in SUBSET Peers :
           /\ Lost(Cardinality(dropped))
           /\ net' = [p \in Peers |-> IF p \in dropped THEN {}
                                       ELSE arriving(step[Other(p)].sent)]
           /\ peer' = [p \in Peers |-> step[p].peer]
  /\ UNCHANGED <<listening, written, received>>

NetworkStep ==
  \E p \in Peers : \E msg \in net[p] :
    Deliver(p, msg) \/ DropOnRead(p, msg) \/ Unread(p, msg)

Next ==
  \/ Connect
  \/ \E p \in Peers :
       \/ \E n \in 1..SendCapacity[p] : Write(p, n)
       \/ Shutdown(p)
       \/ \E n \in 1..RecvCapacity[p] : Read(p, n)
       \/ Timeout(p)
  \/ NetworkStep
  \/ Tick

Spec == Init /\ [][Next]_vars

-----------------------------------------------------------------------------
(* The steps of the applications are those that move what they have        *)
(* written, shut or read; all others are the system's.                     *)
AppProgress ==
  <<written, received, [p \in Peers |-> outbound(peer[p]).closed]>>

AppMayStep ==
  \E p \in Peers : MayPush(p) \/ PeekLength(inbound(peer[p])) > 0

(* A tick changes p: its timer or the time it still lingers.               *)
TickCounts(p) ==
  active(peer[p]) /\ (snd(p).timer_running \/ peer[p].since_receipt < LingerTime)

SystemMayStep ==
  \/ ~snd(Client).syn_sent
  \/ \E p \in Peers : net[p] # {}
  \/ (\E p \in Peers : TickCounts(p)) /\ \A p \in Peers : TickBound(p)

(* What keeps running keeps being served: each event loop polls on and the *)
(* clock advances; and the applications do not stop writing and reading.   *)
(* Which of them goes next is left open.  (Weak fairness, its enabling     *)
(* condition spelled out: computing ENABLED of a step that runs a whole    *)
(* handler is beyond TLC.)                                                 *)
SystemFairness ==
  []<>~SystemMayStep \/ []<><<UNCHANGED AppProgress>>_vars
AppFairness ==
  []<>~AppMayStep \/ []<><<AppProgress' # AppProgress>>_vars

FairSpec == Spec /\ SystemFairness /\ AppFairness

-----------------------------------------------------------------------------
(* What has reached p's end of the stream that Other(p) writes.            *)
Arrived(p) == received[p] \o inbound(peer[p]).queue

(* Everything below it has been acknowledged to p.                         *)
OldestUnacked(p) ==
  IF DOMAIN snd(p).unacked = {} THEN snd(p).next_abs_seqno
  ELSE Sender!First(snd(p))

(* The sequence number p's receiver waits for.                             *)
Expected(p) ==
  IF rcv(p).state = "LISTEN" THEN 0 ELSE Receiver!NextAbsSeqno(rcv(p))

(* The two streams as the applications see them.                           *)
Conversation ==
  [p \in Peers |->
     [written |-> written[p], shut |-> outbound(peer[p]).closed,
      arrived |-> Arrived(Other(p)), ended |-> inbound(peer[Other(p)]).closed]]

(* Loss, duplication and reordering of the segments never show: what each  *)
(* application is given is a prefix of what the other wrote, and it sees   *)
(* the end exactly after the last byte.                                    *)
Streams2 == INSTANCE ReliableStreams WITH stream <- Conversation

ImplementsReliableStreams == Streams2!Spec

(* What a sender forgets, the other side has: nothing leaves               *)
(* unacked_messages_ before the receiver has taken it, and the receiver    *)
(* never waits for more than was sent.                                     *)
AcknowledgedHasArrived ==
  \A p \in Peers :
    /\ OldestUnacked(p) <= Expected(Other(p))
    /\ Expected(Other(p)) <= snd(p).next_abs_seqno

(* A peer that stops without error leaves no byte behind: all of what it   *)
(* wrote has arrived, and all of what was written to it.                   *)
CleanExit ==
  \A p \in Peers :
    ~active(peer[p]) /\ ~has_error(peer[p]) =>
      \A q \in Peers :
        /\ outbound(peer[q]).closed /\ inbound(peer[q]).closed
        /\ Len(Arrived(Other(q))) = written[q]

(* "No need to linger after streams finish" (src/util/tcp_peer.hh:79): a   *)
(* peer that stops without lingering leaves nobody waiting for it.         *)
NoNeedToLinger ==
  \A p \in Peers :
    ~active(peer[p]) /\ ~has_error(peer[p]) /\ ~peer[p].linger =>
      /\ IsFinished(outbound(peer[Other(p)]))
      /\ in_flight(Other(p)) = 0

(* The sender stays within what the receiver has ever offered it, and one  *)
(* number more: a FIN, or a probe of a closed window.                      *)
RespectsOffer ==
  \A p \in Peers :
    snd(p).next_abs_seqno <=
      1 + inbound(peer[Other(p)]).popped + RecvCapacity[Other(p)] + 1

(* Everything written is read, whatever was lost on the way.               *)
AllDelivered ==
  <>(\A p \in Peers : /\ Len(received[Other(p)]) = ToWrite[p]
                       /\ IsFinished(inbound(peer[Other(p)])))

(* And both peers come to rest.                                            *)
BothStop == <>[](\A p \in Peers : ~active(peer[p]))
=============================================================================
