-------------------------- MODULE NetworkInterface --------------------------
(***************************************************************************)
(* The NetworkInterface of src/src/network_interface.cc: it wraps IP       *)
(* datagrams in Ethernet frames for the next hop, whose address it learns  *)
(* by ARP, and keeps datagrams waiting meanwhile.  An operation returns    *)
(* [nic |-> the new interface, frames |-> the frames it transmits].        *)
(***************************************************************************)
EXTENDS Subsequences, Functions

CONSTANTS
  RetryTime,        \* 5000 ms: between requests, and how long a datagram waits
  EntryTime,        \* 30000 ms: how long a learnt address is used
  ClockSize,        \* 2^32: `now' is a uint32_t
  Broadcast,        \* ETHERNET_BROADCAST
  NoEthernet, NoIP  \* the zeros of a value-initialized ARPMessage

(* arp_cache_ and arp_request_time_ are partial functions on IP addresses. *)
NewInterface(ethernet_address, ip_address) ==
  [ethernet_address |-> ethernet_address, ip_address |-> ip_address,
   datagrams_received |-> << >>, ip_frames_out |-> << >>,
   arp_cache |-> << >>, arp_request_time |-> << >>, now |-> 0]

Put(f, x, y) == [z \in DOMAIN f \cup {x} |-> IF z = x THEN y ELSE f[z]]

(* now - time >= limit and now - time <= limit.  The subtraction has 64    *)
(* bits: a time from before the last wrap of the clock is older than any   *)
(* limit.                                                                  *)
AtLeast(now, time, limit) == time > now \/ now - time >= limit
AtMost(now, time, limit) == time <= now /\ now - time <= limit

-----------------------------------------------------------------------------
(* Frames.  The checksum of a datagram is abstracted to the one field it   *)
(* covers that changes on the way, ttl.                                    *)
ArpFrame(n, dst, opcode, target_ethernet, target_ip) ==
  [src |-> n.ethernet_address, dst |-> dst, type |-> "ARP",
   payload |-> [opcode |-> opcode, supported |-> TRUE,
                sender_ethernet_address |-> n.ethernet_address,
                sender_ip_address |-> n.ip_address,
                target_ethernet_address |-> target_ethernet,
                target_ip_address |-> target_ip]]

send_arp_request(n, next_hop) ==
  ArpFrame(n, Broadcast, "REQUEST", NoEthernet, next_hop)

send_arp_reply(n, ethernet, ip) == ArpFrame(n, ethernet, "REPLY", ethernet, ip)

send_eth_datagram(n, dgram, dst) ==
  [src |-> n.ethernet_address, dst |-> dst, type |-> "IPv4", payload |-> dgram]

(* ARPMessage::parse gives up before the addresses when it does not        *)
(* support the message, and nobody asks whether it did.                    *)
ParsedArp(message) ==
  IF message.supported THEN message
  ELSE [message EXCEPT !.sender_ethernet_address = NoEthernet,
                       !.sender_ip_address = NoIP,
                       !.target_ethernet_address = NoEthernet,
                       !.target_ip_address = NoIP]

(* IPv4Header::parse leaves the checksum it computed in the header; that   *)
(* it found another one there nobody asks either.                          *)
ParsedDatagram(dgram) == [dgram EXCEPT !.cksum = dgram.ttl]

-----------------------------------------------------------------------------
(* A Faulty... definition is a plausible bug that nothing uses: it shows   *)
(* that a property tells it from the code.  Here: the time of the last     *)
(* request is not looked at.                                               *)
FaultyMayAsk(n, next_hop) == TRUE

(* The lifetime of an entry in place of the time between requests.         *)
SlowMayAsk(n, next_hop) ==
  \/ next_hop \notin DOMAIN n.arp_request_time
  \/ AtLeast(n.now, n.arp_request_time[next_hop], EntryTime)

(* No second request for a next hop within RetryTime.                      *)
MayAsk(n, next_hop) ==
  \/ next_hop \notin DOMAIN n.arp_request_time
  \/ AtLeast(n.now, n.arp_request_time[next_hop], RetryTime)

Asked(n, next_hop) ==
  IF MayAsk(n, next_hop)
  THEN [nic |-> [n EXCEPT !.arp_request_time = Put(@, next_hop, n.now)],
        frames |-> <<send_arp_request(n, next_hop)>>]
  ELSE [nic |-> n, frames |-> << >>]

Enqueue(n, dgram, next_hop) ==
  [n EXCEPT !.ip_frames_out =
     Append(@, [dgram |-> dgram, next_hop |-> next_hop, enqueue_time |-> n.now])]

send_datagram(n, dgram, next_hop) ==
  IF next_hop \in DOMAIN n.arp_cache
  THEN [nic |-> n,
        frames |-> <<send_eth_datagram(n, dgram, n.arp_cache[next_hop].address)>>]
  ELSE [nic |-> Enqueue(Asked(n, next_hop).nic, dgram, next_hop),
        frames |-> Asked(n, next_hop).frames]

(* An address that is known is not replaced.                               *)
FaultyLearn(n, ip, ethernet) ==
  IF ip \in DOMAIN n.arp_cache THEN n
  ELSE [n EXCEPT
          !.arp_cache = Put(@, ip, [address |-> ethernet, cache_time |-> n.now]),
          !.arp_request_time = Restrict(@, DOMAIN @ \ {ip})]

(* The record of the request has done its duty.                            *)
Learn(n, ip, ethernet) ==
  [n EXCEPT
     !.arp_cache = Put(@, ip, [address |-> ethernet, cache_time |-> n.now]),
     !.arp_request_time = Restrict(@, DOMAIN @ \ {ip})]

Fresh(n, w) == AtMost(n.now, w.enqueue_time, RetryTime)

(* What leaves stays in the queue as well.                                 *)
FaultyFlush(n, ip, ethernet) ==
  LET queue == n.ip_frames_out
      mine == {i \in DOMAIN queue : queue[i].next_hop = ip}
      kept == {i \in DOMAIN queue : Fresh(n, queue[i])}
      leaving == Chosen(queue, mine)
  IN  [nic |-> [n EXCEPT !.ip_frames_out = Chosen(queue, kept)],
       frames |-> [i \in DOMAIN leaving |->
                     send_eth_datagram(n, leaving[i].dgram, ethernet)]]

(* The datagrams that waited for `ip' leave in their order, whatever their *)
(* age; of the others the expired ones are dropped.                        *)
Flush(n, ip, ethernet) ==
  LET queue == n.ip_frames_out
      mine == {i \in DOMAIN queue : queue[i].next_hop = ip}
      kept == {i \in DOMAIN queue \ mine : Fresh(n, queue[i])}
      leaving == Chosen(queue, mine)
  IN  [nic |-> [n EXCEPT !.ip_frames_out = Chosen(queue, kept)],
       frames |-> [i \in DOMAIN leaving |->
                     send_eth_datagram(n, leaving[i].dgram, ethernet)]]

Reply(n, message) ==
  IF message.opcode = "REQUEST" /\ message.target_ip_address = n.ip_address
  THEN <<send_arp_reply(n, message.sender_ethernet_address, message.sender_ip_address)>>
  ELSE << >>

(* Whoever sends an ARP message is learnt, whatever the message asks.      *)
HandleArp(n, message) ==
  LET ip       == message.sender_ip_address
      ethernet == message.sender_ethernet_address
      flushed  == Flush(Learn(n, ip, ethernet), ip, ethernet)
  IN  [nic |-> flushed.nic, frames |-> Reply(n, message) \o flushed.frames]

recv_frame(n, frame) ==
  CASE frame.dst \in {n.ethernet_address, Broadcast} /\ frame.type = "ARP" ->
         HandleArp(n, ParsedArp(frame.payload))
    [] frame.dst = n.ethernet_address /\ frame.type = "IPv4" ->
         [nic |-> [n EXCEPT !.datagrams_received =
                     Append(@, ParsedDatagram(frame.payload))],
          frames |-> << >>]
    [] OTHER -> [nic |-> n, frames |-> << >>]

(* The clock wraps; expired entries and datagrams go.                      *)
Expire(n) ==
  LET queue == n.ip_frames_out
      kept == {i \in DOMAIN queue : Fresh(n, queue[i])}
      live == {ip \in DOMAIN n.arp_cache :
                 ~AtLeast(n.now, n.arp_cache[ip].cache_time, EntryTime)}
  IN  [n EXCEPT !.arp_cache = Restrict(@, live),
                !.ip_frames_out = Chosen(queue, kept)]

(* The clock does not wrap.                                                *)
Faulty_tick(n, ms) == Expire([n EXCEPT !.now = @ + ms])

tick(n, ms) == Expire([n EXCEPT !.now = (@ + ms) % ClockSize])
=============================================================================
