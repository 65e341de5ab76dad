------------------------------ MODULE EndToEnd ------------------------------
(***************************************************************************)
(* The network of src/apps/endtoend.cc: two hosts, each behind a router of *)
(* its own, and an internet between the routers that may lose frames and   *)
(* deliver them in any order.  Hosts and routers talk over a socket pair,  *)
(* in order and without loss.  The hosts exchange a given set of datagrams *)
(* (TCP segments in the program).                                          *)
(***************************************************************************)
EXTENDS Router, Integers, FiniteSets

CONSTANTS
  Host,             \* the two hosts; each names its router, too
  HostIP,           \* [Host -> address]
  HostSideIP,       \* [Host -> address of its router's interface 1]
  InternetIP,       \* [Host -> address of its router's interface 2]
  Table,            \* [Host -> the routing table of its router]
  Loads,            \* sets of datagrams that may be sent in one behaviour, as
                    \* records [id, src, dst, ttl, cksum]
  Step,             \* the amounts of time between two ticks
  MaxLosses,
  MaxIdle           \* bound on the ticks while no datagram waits

Traffic == UNION Loads

ASSUME NetworkAssumption ==
  /\ \E g, h \in Host : g # h /\ Host = {g, h}
  /\ RetryTime \in Nat /\ EntryTime \in Nat /\ ClockSize \in Nat \ {0} /\ Step \subseteq Nat
  /\ Broadcast \in Nat /\ NoEthernet \in Nat /\ NoIP \in Nat
  /\ \A h \in Host :
       /\ HostIP[h] \in Nat /\ HostSideIP[h] \in Nat /\ InternetIP[h] \in Nat
       /\ Table[h] \in Seq([route_prefix : Nat, prefix_length : Nat,
                            next_hop : Nat \cup {Direct}, interface_num : Nat])
       /\ NoRule \notin Range(Table[h])
  /\ \A dgram \in Traffic :
       /\ dgram = [id |-> dgram.id, src |-> dgram.src, dst |-> dgram.dst,
                   ttl |-> dgram.ttl, cksum |-> dgram.cksum]
       /\ dgram.src \in Nat /\ dgram.dst \in Nat /\ dgram.ttl \in Nat /\ dgram.cksum \in Nat
  /\ \A dgram, other \in Traffic : dgram.id = other.id => dgram = other

VARIABLES
  host,       \* [Host -> NetworkInterface]
  router,     \* [Host -> Router]
  cable,      \* [Host -> [up, down |-> frames between host and router]]
  internet,   \* [Host -> the set of frames on their way to its router]
  unsent,     \* the datagrams not yet sent
  arrived,    \* [Host -> the datagrams its upper layer was given]
  losses,
  idle        \* the ticks while no datagram waited

vars == <<host, router, cable, internet, unsent, arrived, losses, idle>>

Peer(h) == CHOOSE g \in Host : g # h

Init ==
  /\ host = [h \in Host |-> NewInterface(HostIP[h], HostIP[h])]
  /\ router = [h \in Host |->
                 NewRouter(<<NewInterface(HostSideIP[h], HostSideIP[h]),
                             NewInterface(InternetIP[h], InternetIP[h])>>,
                           Table[h])]
  /\ cable = [h \in Host |-> [up |-> << >>, down |-> << >>]]
  /\ internet = [h \in Host |-> {}]
  /\ unsent \in Loads
  /\ arrived = [h \in Host |-> {}]
  /\ losses = 0 /\ idle = 0

(* A TCP segment goes to the host's router, whatever its destination.      *)
HostWrite(h, dgram) ==
  LET done == send_datagram(host[h], dgram, HostSideIP[h])
  IN  /\ dgram.src = HostIP[h]
      /\ unsent' = unsent \ {dgram}
      /\ host' = [host EXCEPT ![h] = done.nic]
      /\ cable' = [cable EXCEPT ![h].up = @ \o done.frames]
      /\ UNCHANGED <<router, internet, arrived, losses, idle>>

(* A frame carries at most one datagram, which is taken at once.           *)
HostRead(h) ==
  LET done == recv_frame(host[h], Head(cable[h].down))
      taken == done.nic.datagrams_received
  IN  /\ cable[h].down # << >>
      /\ host' = [host EXCEPT ![h] = [done.nic EXCEPT !.datagrams_received = << >>]]
      /\ arrived' = [arrived EXCEPT ![h] = @ \cup {taken[i] : i \in DOMAIN taken}]
      /\ cable' = [cable EXCEPT ![h].down = Tail(@), ![h].up = @ \o done.frames]
      /\ UNCHANGED <<router, internet, unsent, losses, idle>>

(* A router hands a frame to one of its interfaces and routes what came of *)
(* it: `sent' is what its two interfaces transmit.                         *)
Handle(h, i, frame) ==
  LET heard  == recv_frame(router[h].interfaces[i], frame)
      routed == route([router[h] EXCEPT !.interfaces[i] = heard.nic])
  IN  [router |-> routed.router,
       sent |-> [k \in DOMAIN heard.frames |->
                   [interface |-> i, frame |-> heard.frames[k]]] \o routed.sent]

To(sent, i) ==
  LET on == Chosen(sent, {k \in DOMAIN sent : sent[k].interface = i})
  IN  [k \in DOMAIN on |-> on[k].frame]

RouterTransmits(h, sent, up, here) ==
  /\ cable' = [cable EXCEPT ![h] = [up |-> up, down |-> @.down \o To(sent, 1)]]
  /\ internet' = [internet EXCEPT ![h] = here, ![Peer(h)] = @ \cup Range(To(sent, 2))]

FromHost(h) ==
  LET done == Handle(h, 1, Head(cable[h].up))
  IN  /\ cable[h].up # << >>
      /\ router' = [router EXCEPT ![h] = done.router]
      /\ RouterTransmits(h, done.sent, Tail(cable[h].up), internet[h])
      /\ UNCHANGED <<host, unsent, arrived, losses, idle>>

FromInternet(h, frame) ==
  LET done == Handle(h, 2, frame)
  IN  /\ frame \in internet[h]
      /\ router' = [router EXCEPT ![h] = done.router]
      /\ RouterTransmits(h, done.sent, cable[h].up, internet[h] \ {frame})
      /\ UNCHANGED <<host, unsent, arrived, losses, idle>>

Lose(h, frame) ==
  /\ frame \in internet[h] /\ losses < MaxLosses
  /\ losses' = losses + 1
  /\ internet' = [internet EXCEPT ![h] = @ \ {frame}]
  /\ UNCHANGED <<host, router, cable, unsent, arrived, idle>>

Waits(n) == n.ip_frames_out # << >>

SomeoneWaits ==
  \E h \in Host : Waits(host[h]) \/ \E i \in 1..2 : Waits(router[h].interfaces[i])

(* The clocks of all interfaces advance together; they all tick every few  *)
(* milliseconds in the program.                                            *)
Tick(ms) ==
  /\ \/ SomeoneWaits /\ UNCHANGED idle
     \/ ~SomeoneWaits /\ idle < MaxIdle /\ idle' = idle + 1
  /\ host' = [h \in Host |-> tick(host[h], ms)]
  /\ router' = [h \in Host |->
       [router[h] EXCEPT !.interfaces = [i \in DOMAIN @ |-> tick(@[i], ms)]]]
  /\ UNCHANGED <<cable, internet, unsent, arrived, losses>>

Next ==
  \/ \E h \in Host : \E dgram \in unsent : HostWrite(h, dgram)
  \/ \E h \in Host : HostRead(h) \/ FromHost(h)
  \/ \E h \in Host : \E frame \in internet[h] : FromInternet(h, frame) \/ Lose(h, frame)
  \/ \E ms \in Step : Tick(ms)

(* Weak fairness of HostRead, FromHost, FromInternet and Tick: the event    *)
(* loops of hosts and routers turn, and tick, and the internet delivers    *)
(* what it does not lose.  It is spelled out, because each is enabled      *)
(* whenever there is something for it to take, and only it takes that.     *)
Fairness ==
  /\ \A h \in Host :
       /\ \/ []<>(cable[h].down = << >>)
          \/ []<><<cable[h].down # << >> /\ cable'[h].down = Tail(cable[h].down)>>_vars
       /\ \/ []<>(cable[h].up = << >>)
          \/ []<><<cable[h].up # << >> /\ cable'[h].up = Tail(cable[h].up)>>_vars
       /\ \/ []<>(internet[h] = {})
          \/ []<><<~(internet[h] \subseteq internet'[h])>>_vars
  /\ \/ []<>~SomeoneWaits
     \/ []<><<\A h \in Host : host'[h].now # host[h].now>>_vars

Spec == Init /\ [][Next]_vars /\ Fairness

-----------------------------------------------------------------------------
(* Where datagrams may be: for each place the sequence or set of them.     *)
IsDatagram(frame) == frame.type = "IPv4"

Queued(n) == {n.ip_frames_out[i] : i \in DOMAIN n.ip_frames_out}
Datagrams(frames) == {frame.payload : frame \in {f \in frames : IsDatagram(f)}}

FramesOf(id, frames) ==
  Cardinality({i \in DOMAIN frames : IsDatagram(frames[i]) /\ frames[i].payload.id = id})

WaitingOf(id, n) ==
  Cardinality({i \in DOMAIN n.ip_frames_out : n.ip_frames_out[i].dgram.id = id})

CopiesAt(id, h) ==
  WaitingOf(id, host[h])
    + WaitingOf(id, router[h].interfaces[1])
    + WaitingOf(id, router[h].interfaces[2])
    + FramesOf(id, cable[h].up) + FramesOf(id, cable[h].down)
    + Cardinality({f \in internet[h] : IsDatagram(f) /\ f.payload.id = id})

(* A datagram is in at most one place: on its way, or arrived, or not yet  *)
(* sent.  It arrives where it was addressed, with a hop limit that counts  *)
(* the two routers it has passed, and with what its sender put in it.      *)
OnePlace ==
  \A dgram \in Traffic :
    LET here(h)   == {a \in arrived[h] : a.id = dgram.id}
        copies(h) == CopiesAt(dgram.id, h) + Cardinality(here(h))
    IN  /\ \A h \in Host :
             copies(h) + copies(Peer(h)) + (IF dgram \in unsent THEN 1 ELSE 0) <= 1
        /\ \A h \in Host : \A a \in here(h) :
             /\ HostIP[h] = dgram.dst
             /\ a = [dgram EXCEPT !.ttl = @ - 2, !.cksum = @ - 2]

(* `rule' is the one that should decide: no matching rule of the table has *)
(* a longer prefix.                                                        *)
Prefix(ip, length) == ip \div 2^(AddressBits - length)

Matches(rule, ip) ==
  Prefix(ip, rule.prefix_length) = Prefix(rule.route_prefix, rule.prefix_length)

Decides(rule, table, ip) ==
  /\ rule \in Range(table) /\ Matches(rule, ip)
  /\ \A other \in Range(table) :
       Matches(other, ip) => other.prefix_length <= rule.prefix_length

(* What the tables of endtoend.cc have in common: a router sends what is   *)
(* for its host to the host's side, and no rule has the host for its next  *)
(* hop.  A host writes to others, and its checksums are valid.             *)
Homeward ==
  /\ \A h \in Host : \A rule \in Range(Table[h]) :
       /\ rule.next_hop # HostIP[h]
       /\ Decides(rule, Table[h], HostIP[h]) => rule.interface_num = 0
  /\ \A dgram \in Traffic : dgram.src # dgram.dst /\ dgram.cksum = dgram.ttl

ASSUME HomeAssumption == Homeward

Leads(h, i, dgram, hop) ==
  \E rule \in Range(router[h].routing_table) :
    /\ Decides(rule, router[h].routing_table, dgram.dst)
    /\ rule.interface_num = i - 1
    /\ hop = IF rule.next_hop = Direct THEN dgram.dst ELSE rule.next_hop

(* Whatever a router has forwarded, and what waits in one of its           *)
(* interfaces, went out the way the longest matching prefix leads, to the  *)
(* next hop it names.  (A frame is addressed to the hop by its number.)    *)
OnCourse ==
  \A h \in Host :
    /\ \A i \in 1..2 : \A w \in Queued(router[h].interfaces[i]) :
         Leads(h, i, w.dgram, w.next_hop)
    /\ \A frame \in Range(cable[h].down) :
         IsDatagram(frame) => Leads(h, 1, frame.payload, frame.dst)
    /\ \A frame \in internet[Peer(h)] :
         IsDatagram(frame) => Leads(h, 2, frame.payload, frame.dst)

(* Nothing is on its way anywhere.                                          *)
NetworkEmpty == \A dgram \in Traffic, h \in Host : CopiesAt(dgram.id, h) = 0

(* The network does not keep datagrams for ever, not even where its        *)
(* routers send one in circles or nobody answers for a next hop.           *)
EventuallyGone == []<>NetworkEmpty

(* A datagram that a router transmits has a valid header checksum.         *)
ForwardedChecksumValid ==
  \A h \in Host : \A dgram \in Datagrams(Range(cable[h].down) \cup internet[h]) :
    dgram.cksum = dgram.ttl
=============================================================================
