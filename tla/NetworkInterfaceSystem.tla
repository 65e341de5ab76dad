----------------------- MODULE NetworkInterfaceSystem -----------------------
(***************************************************************************)
(* One NetworkInterface under any traffic: the layer above sends datagrams *)
(* to several next hops, the others on the link announce and ask for       *)
(* addresses as they please, frames for others pass by, and the clock is   *)
(* advanced.  (Datagrams that arrive do not touch what sending depends on; *)
(* EndToEnd.tla has them.)                                                 *)
(***************************************************************************)
EXTENDS NetworkInterface, FiniteSets

CONSTANTS
  OwnIP, OwnEthernet,
  Hop, Ethernet,    \* the other addresses on the link
  Datagram,         \* the datagrams the layer above may send
  Step,             \* the amounts of time the clock is advanced by
  MaxWaiting,       \* bound on ip_frames_out
  MaxTime           \* bound on the real time

(* A clock that wraps between two ticks past the lifetime of an entry      *)
(* would show it fresh again: with 2^32 ms that takes a tick of 49 days.   *)
ASSUME ClockAssumption ==
  /\ RetryTime \in Nat \ {0} /\ EntryTime \in Nat /\ RetryTime < EntryTime
  /\ ClockSize \in Nat \ {0}
  /\ \A ms \in Step : ms \in Nat \ {0} /\ EntryTime + ms <= ClockSize
ASSUME AddressAssumption ==
  /\ {OwnEthernet, Broadcast, NoEthernet} \cap Ethernet = {}
  /\ OwnEthernet # Broadcast /\ OwnIP \notin Hop \cup {NoIP}

VARIABLES
  nic,
  left,       \* the datagrams transmitted in the last step, and where to
  requested,  \* the addresses asked for in the last step
  time,       \* history: the real time
  heard,      \* history: what each address last announced, and when, while
              \* that may still be known
  asked       \* history: the real time of the last request for each address

vars == <<nic, left, requested, time, heard, asked>>

Init ==
  /\ nic = NewInterface(OwnEthernet, OwnIP)
  /\ left = << >> /\ requested = {} /\ time = 0
  /\ heard = << >> /\ asked = << >>

IsRequest(frame) == frame.type = "ARP" /\ frame.payload.opcode = "REQUEST"
IsDatagram(frame) == frame.type = "IPv4"

Requested(frames) ==
  {frames[i].payload.target_ip_address :
     i \in {j \in DOMAIN frames : IsRequest(frames[j])}}

Left(frames) ==
  LET dgrams == Chosen(frames, {i \in DOMAIN frames : IsDatagram(frames[i])})
  IN  [i \in DOMAIN dgrams |-> [dgram |-> dgrams[i].payload, to |-> dgrams[i].dst]]

Quiet == left' = << >> /\ requested' = {}

(* What an operation returns becomes the state and the output.             *)
Becomes(result) ==
  /\ nic' = result.nic
  /\ left' = Left(result.frames) /\ requested' = Requested(result.frames)
  /\ asked' = [ip \in DOMAIN asked \cup Requested(result.frames) |->
                 IF ip \in Requested(result.frames) THEN time ELSE asked[ip]]

Send(dgram, hop) ==
  /\ Len(nic.ip_frames_out) < MaxWaiting
  /\ Becomes(send_datagram(nic, dgram, hop))
  /\ UNCHANGED <<time, heard>>

(* What the others on the link may say by ARP: requests for this address   *)
(* and for others, replies, and messages of a kind the parser refuses.     *)
ArpMessages ==
  {message \in [opcode : {"REQUEST", "REPLY"}, supported : BOOLEAN,
                sender_ethernet_address : Ethernet, sender_ip_address : Hop,
                target_ethernet_address : {OwnEthernet},
                target_ip_address : {OwnIP, NoIP}] :
     message.opcode = "REPLY" => message.target_ip_address = OwnIP}

ArpFrom(message, dst) ==
  [src |-> message.sender_ethernet_address, dst |-> dst, type |-> "ARP",
   payload |-> message]

HearArp(message, dst) ==
  LET said == ParsedArp(message)
  IN  /\ Becomes(recv_frame(nic, ArpFrom(message, dst)))
      /\ heard' = Put(heard, said.sender_ip_address,
                      [ethernet |-> said.sender_ethernet_address, at |-> time])
      /\ UNCHANGED time

(* A frame for somebody else.                                              *)
Overhear(message, dst) ==
  /\ Becomes(recv_frame(nic, ArpFrom(message, dst)))
  /\ UNCHANGED <<time, heard>>

Turn(t) == t \div ClockSize

(* What was heard is forgotten after EntryTime, and when the clock wraps.  *)
Lasts(at, t) == Turn(at) = Turn(t) /\ t - at < EntryTime

Tick(ms) ==
  /\ time + ms <= MaxTime
  /\ time' = time + ms
  /\ nic' = tick(nic, ms) /\ Quiet
  /\ heard' = Restrict(heard, {ip \in DOMAIN heard : Lasts(heard[ip].at, time')})
  /\ UNCHANGED asked

Next ==
  \/ \E dgram \in Datagram, hop \in Hop : Send(dgram, hop)
  \/ \E message \in ArpMessages :
       \/ message.opcode = "REQUEST" /\ HearArp(message, Broadcast)
       \/ HearArp(message, OwnEthernet)
       \/ message.opcode = "REPLY" /\ \E dst \in Ethernet : Overhear(message, dst)
  \/ \E ms \in Step : Tick(ms)

Spec == Init /\ [][Next]_vars

-----------------------------------------------------------------------------
Clock == 0 .. ClockSize - 1

AllIP == Hop \cup {NoIP}
AllEthernet == Ethernet \cup {NoEthernet}

Partial(S, T) == UNION {[D -> T] : D \in SUBSET S}

(* The interface keeps its addresses, its clock and all times kept have    *)
(* the width of the clock, and it asks only for next hops it was given.    *)
TypeOK ==
  /\ nic.ethernet_address = OwnEthernet /\ nic.ip_address = OwnIP
  /\ nic.now \in Clock
  /\ nic.datagrams_received = << >>
  /\ nic.ip_frames_out \in
       Seq([dgram : Datagram, next_hop : Hop, enqueue_time : Clock])
  /\ nic.arp_cache \in
       Partial(AllIP, [address : AllEthernet, cache_time : Clock])
  /\ nic.arp_request_time \in Partial(Hop, Clock)

(* When a waiting datagram was queued, in real time.                       *)
Since(w) == time - (nic.now - w.enqueue_time)

(* A datagram waits only for a next hop whose address is not known, never  *)
(* longer than RetryTime, and when it was queued a request for that        *)
(* address was on its way that was younger than RetryTime.  (The record of *)
(* a request never expires: one from before a wrap of the clock can        *)
(* suppress a request in the next turn, and the datagram is given up       *)
(* without anybody having been asked.)                                     *)
WaitingIsAsked ==
  \A i \in DOMAIN nic.ip_frames_out :
    LET w == nic.ip_frames_out[i]
    IN  /\ w.next_hop \notin DOMAIN nic.arp_cache
        /\ w.enqueue_time <= nic.now /\ time - Since(w) <= RetryTime
        /\ w.next_hop \in DOMAIN nic.arp_request_time
        /\ \/ Since(w) - asked[w.next_hop] < RetryTime
           \/ Turn(asked[w.next_hop]) # Turn(Since(w))

(* Two requests for one address are RetryTime apart in real time, unless   *)
(* it was heard of in between, or the 32-bit clock wrapped.                *)
RequestsApart ==
  [][\A ip \in requested' \cap DOMAIN asked :
       \/ time - asked[ip] >= RetryTime
       \/ ip \in DOMAIN heard /\ heard[ip].at >= asked[ip]
       \/ Turn(time) # Turn(asked[ip])]_vars

(* The queue, with the times in real time.                                 *)
Waiting ==
  [i \in DOMAIN nic.ip_frames_out |->
     LET w == nic.ip_frames_out[i]
     IN  [dgram |-> w.dgram, hop |-> w.next_hop, since |-> Since(w)]]

Link == INSTANCE LinkSpec WITH
  IP <- AllIP, Ethernet <- AllEthernet, waiting <- Waiting

(* The interface keeps the promises of LinkSpec: each datagram leaves at   *)
(* most once, in order, for the address its next hop announced last and    *)
(* lately, as soon as that is known, and waits no longer than RetryTime.   *)
ImplementsLink == Link!Spec
=============================================================================
