----------------------- MODULE NetworkInterfaceProofs -----------------------
(***************************************************************************)
(* Proofs about the NetworkInterface, for every number of addresses and    *)
(* datagrams, every time between requests, every lifetime of an entry and  *)
(* every width of the clock: a datagram that waits has been asked for,     *)
(* requests for one address are apart in real time, and the interface      *)
(* implements LinkSpec, although all it has is a clock that wraps.         *)
(***************************************************************************)
EXTENDS NetworkInterfaceSystem, Lemmas

(* The clock never shows more than the time.                               *)
LEMMA RemainderBelow ==
  ASSUME NEW m \in Nat \ {0}, NEW t \in Nat
  PROVE  t % m \in 0..t
<1>1. PICK q \in Int, r \in 0..(m - 1) : t % m = r /\ t = m * q + r
  <2>1. t \in Int
    OBVIOUS
  <2>2. t % m \in 0..(m - 1)
    BY <2>1, ModRange, Zenon
  <2>3. t \div m \in Int /\ t = m * (t \div m) + (t % m)
    BY <2>1, ModDiv, Zenon
  <2> QED
    BY <2>2, <2>3, Zenon
<1>2. CASE q < 0
  <2>1. PICK k \in Nat : q = -(k + 1)
    <3>1. -q - 1 \in Nat /\ q = -((-q - 1) + 1)
      BY <1>2
    <3> QED
      BY <3>1
  <2>2. m * k \in Nat /\ m * q = -(m * k + m)
    BY <2>1
  <2> QED
    BY <1>1, <2>2
<1>3. CASE q >= 0
  <2>1. m * q \in Nat
    BY <1>3
  <2> QED
    BY <1>1, <2>1
<1> QED
  BY <1>2, <1>3

(* Turns of the clock.  They follow the time, and two times in one turn    *)
(* are as far apart as their clock readings.                               *)
LEMMA TurnFacts ==
  ASSUME NEW m \in Nat \ {0}, NEW a \in Nat, NEW b \in Nat, a <= b
  PROVE  /\ a % m \in 0..(m - 1) /\ b % m \in 0..(m - 1)
         /\ a \div m \in Int /\ b \div m \in Int
         /\ a \div m <= b \div m
         /\ a \div m = b \div m <=> a % m <= b % m /\ b - a = (b % m) - (a % m)
<1>1. PICK q \in Int, r \in 0..(m - 1) : a \div m = q /\ a % m = r /\ a = m * q + r
  BY ModDiv, ModRange
<1>2. PICK p \in Int, s \in 0..(m - 1) : b \div m = p /\ b % m = s /\ b = m * p + s
  BY ModDiv, ModRange
<1>3. m * p = m * q + m * (p - q)
  OBVIOUS
<1>4. PICK k \in Int : k = m * (p - q)
  OBVIOUS
<1>5. p - q >= 1 => k >= m
  <2>1. SUFFICES ASSUME p - q >= 1 PROVE k >= m
    OBVIOUS
  <2>2. PICK d \in Nat : p - q = d + 1
    <3>1. p - q - 1 \in Nat
      BY <2>1
    <3> QED
      BY <3>1
  <2>3. m * d \in Nat
    OBVIOUS
  <2> QED
    BY <1>4, <2>2, <2>3
<1>6. q - p >= 1 => k <= -m
  <2>1. SUFFICES ASSUME q - p >= 1 PROVE k <= -m
    OBVIOUS
  <2>2. PICK d \in Nat : q - p = d + 1
    <3>1. q - p - 1 \in Nat
      BY <2>1
    <3> QED
      BY <3>1
  <2>3. m * d \in Nat
    OBVIOUS
  <2>4. p - q = -(d + 1)
    BY <2>2
  <2>5. k = -(m * d + m)
    BY <1>4, <2>4
  <2> QED
    BY <2>3, <2>5
<1>7. q = p => k = 0
  BY <1>4
<1>8. b - a = k + s - r
  BY <1>1, <1>2, <1>3, <1>4
<1>9. q <= p
  BY <1>6, <1>8
<1>10. q = p <=> r <= s /\ b - a = s - r
  BY <1>5, <1>6, <1>7, <1>8
<1> QED
  BY <1>1, <1>2, <1>9, <1>10

(* A time that is younger than `old' in its turn, and another `ms' later,  *)
(* when the clock cannot have come round to it again: it is in the same    *)
(* turn still, at its true age, or reads as later than now.                *)
LEMMA AgeFacts ==
  ASSUME NEW m \in Nat \ {0}, NEW at \in Nat, NEW t \in Nat, at <= t,
         NEW ms \in Nat, NEW old \in Nat, old + ms <= m,
         at \div m = t \div m, t - at < old
  PROVE  /\ at % m \in Nat /\ (t + ms) % m \in Nat
         /\ at \div m = (t + ms) \div m =>
              at % m <= (t + ms) % m /\ (t + ms) - at = ((t + ms) % m) - (at % m)
         /\ at \div m # (t + ms) \div m => at % m > (t + ms) % m
<1>1. PICK u \in Nat : u = t + ms
  OBVIOUS
<1>2. /\ at % m \in 0..(m - 1) /\ t % m \in 0..(m - 1) /\ u % m \in 0..(m - 1)
      /\ at % m <= t % m /\ t - at = (t % m) - (at % m)
      /\ at \div m = u \div m <=> at % m <= u % m /\ u - at = (u % m) - (at % m)
  <2>1. at <= u
    BY <1>1
  <2> QED
    BY <2>1, TurnFacts
<1>3. PICK x \in 0..(m - 1), y \in 0..(m - 1), z \in 0..(m - 1) :
        x = at % m /\ y = t % m /\ z = u % m
  BY <1>2
<1>4. z = IF y + ms < m THEN y + ms ELSE y + ms - m
  <2>1. z = (y + ms) % m
    <3>1. t \in Int /\ ms \in Int
      OBVIOUS
    <3>2. (t + ms) % m = ((t % m) + ms) % m
      BY <3>1, ModAdd, Zenon
    <3> QED
      BY <1>1, <1>3, <3>2
  <2>2. ms \in 0..m
    OBVIOUS
  <2> QED
    BY <2>1, <2>2, ModStep
<1>5. x <= y /\ t - at = y - x
  BY <1>2, <1>3
<1>6. CASE y + ms < m
  <2>1. x <= z /\ u - at = z - x
    BY <1>1, <1>4, <1>5, <1>6
  <2> QED
    BY <1>1, <1>2, <1>3, <2>1
<1>7. CASE y + ms >= m
  <2>1. x > z
    BY <1>4, <1>5, <1>7
  <2> QED
    BY <1>1, <1>2, <1>3, <2>1
<1> QED
  BY <1>6, <1>7

-----------------------------------------------------------------------------
(* A sequence with every element changed in the same way.                  *)
Seen(s, G) == [i \in DOMAIN s |-> G[s[i]]]

(* To choose of what is changed is to change what is chosen.               *)
LEMMA ChosenSeen ==
  ASSUME NEW S, NEW s \in Seq(S), NEW I, NEW G
  PROVE  Chosen(Seen(s, G), I) = Seen(Chosen(s, I), G)
<1>1. PICK n \in Nat : n = Len(s) /\ DOMAIN s = 1..n
  BY LenProperties
<1>2. PICK at : at = Ascending(I, n) /\ at \in Seq(I \cap (1..n))
  BY <1>1, AscendingType
<1>3. PICK t : t = Seen(s, G)
  OBVIOUS
<1>4. Len(t) = n /\ \A i \in 1..n : t[i] = G[s[i]]
  BY <1>1, <1>3 DEF Seen
<1>5. Chosen(s, I) = [j \in DOMAIN at |-> s[at[j]]]
  BY <1>1, <1>2 DEF Chosen
<1>6. Chosen(t, I) = [j \in DOMAIN at |-> t[at[j]]]
  BY <1>2, <1>4 DEF Chosen
<1>7. \A j \in DOMAIN at : at[j] \in 1..n
  BY <1>2
<1>8. PICK c : c = Chosen(s, I)
  OBVIOUS
<1>9. DOMAIN c = DOMAIN at /\ \A j \in DOMAIN at : c[j] = s[at[j]]
  BY <1>5, <1>8
<1>10. Chosen(t, I) = [j \in DOMAIN c |-> G[c[j]]]
  BY <1>4, <1>6, <1>7, <1>9
<1>11. Chosen(t, I) = Seen(c, G)
  BY <1>10 DEF Seen
<1> QED
  BY <1>3, <1>8, <1>11

-----------------------------------------------------------------------------
Waiter == [dgram : Datagram, next_hop : Hop, enqueue_time : Clock]
Entry  == [address : AllEthernet, cache_time : Clock]

Interface ==
  [ethernet_address : {OwnEthernet}, ip_address : {OwnIP},
   datagrams_received : {<< >>}, ip_frames_out : Seq(Waiter),
   arp_cache : Partial(AllIP, Entry), arp_request_time : Partial(Hop, Clock),
   now : Clock]

(* The clock shows the real time, but for its turns.                       *)
OnTime == time \in Nat /\ nic.now = time % ClockSize

(* The cache holds what was heard, for as long as it lasts.                *)
Remembers ==
  /\ heard \in Partial(AllIP, [ethernet : AllEthernet, at : 0..time])
  /\ DOMAIN nic.arp_cache = DOMAIN heard
  /\ \A ip \in DOMAIN heard :
       /\ Lasts(heard[ip].at, time)
       /\ nic.arp_cache[ip] = [address |-> heard[ip].ethernet,
                               cache_time |-> heard[ip].at % ClockSize]

(* An address that may be asked for again, whatever the interface recalls. *)
Past(ip) ==
  \/ ip \in DOMAIN heard /\ heard[ip].at >= asked[ip]
  \/ time - asked[ip] >= RetryTime
  \/ Turn(asked[ip]) # Turn(time)

(* The record of a request is right but for the turn of the clock; one     *)
(* that is gone has been answered, or is past.                             *)
Asks ==
  /\ asked \in Partial(Hop, 0..time)
  /\ DOMAIN nic.arp_request_time \subseteq DOMAIN asked
  /\ \A ip \in DOMAIN asked :
       IF ip \in DOMAIN nic.arp_request_time
       THEN nic.arp_request_time[ip] = asked[ip] % ClockSize
       ELSE Past(ip)

IInv == nic \in Interface /\ OnTime /\ Remembers /\ Asks /\ WaitingIsAsked

(* Partial functions.                                                      *)
LEMMA PartialFacts ==
  ASSUME NEW S, NEW T, NEW f
  PROVE  f \in Partial(S, T) <=>
           /\ DOMAIN f \subseteq S
           /\ f = [x \in DOMAIN f |-> f[x]]
           /\ \A x \in DOMAIN f : f[x] \in T
BY DEF Partial

(* The function without arguments is one of them.                          *)
LEMMA EmptyPartial ==
  ASSUME NEW S, NEW T
  PROVE  << >> \in Partial(S, T)
<1>1. << >> \in [{} -> T] /\ {} \in SUBSET S
  OBVIOUS
<1> QED
  BY <1>1 DEF Partial

(* One more value, and fewer.                                              *)
LEMMA PutFacts ==
  ASSUME NEW S, NEW T, NEW f \in Partial(S, T), NEW x \in S, NEW y \in T
  PROVE  /\ Put(f, x, y) \in Partial(S, T)
         /\ DOMAIN Put(f, x, y) = DOMAIN f \cup {x}
         /\ Put(f, x, y)[x] = y
         /\ \A z \in DOMAIN f : z # x => Put(f, x, y)[z] = f[z]
<1> DEFINE g == Put(f, x, y)
<1>1. g = [z \in DOMAIN f \cup {x} |-> IF z = x THEN y ELSE f[z]]
  BY DEF Put
<1>2. DOMAIN f \subseteq S /\ \A z \in DOMAIN f : f[z] \in T
  BY PartialFacts
<1> HIDE DEF g
<1>3. DOMAIN g = DOMAIN f \cup {x} /\ g[x] = y /\ g = [z \in DOMAIN g |-> g[z]]
      /\ \A z \in DOMAIN f : z # x => g[z] = f[z]
  BY <1>1
<1>4. g \in Partial(S, T)
  BY <1>2, <1>3, PartialFacts
<1> QED
  BY <1>3, <1>4 DEF g

(* A part of a partial function.                                           *)
LEMMA RestrictFacts ==
  ASSUME NEW S, NEW T, NEW f \in Partial(S, T), NEW D \in SUBSET (DOMAIN f)
  PROVE  /\ Restrict(f, D) \in Partial(S, T)
         /\ DOMAIN Restrict(f, D) = D
         /\ \A z \in D : Restrict(f, D)[z] = f[z]
<1> DEFINE g == Restrict(f, D)
<1>1. g = [z \in D |-> f[z]]
  BY DEF Restrict
<1>2. DOMAIN f \subseteq S /\ \A z \in DOMAIN f : f[z] \in T
  BY PartialFacts
<1> HIDE DEF g
<1>3. DOMAIN g = D /\ g = [z \in DOMAIN g |-> g[z]] /\ \A z \in D : g[z] = f[z]
  BY <1>1
<1>4. g \in Partial(S, T)
  BY <1>2, <1>3, PartialFacts
<1> QED
  BY <1>3, <1>4 DEF g

(* The datagrams in the frames after the first `a', and where they go.     *)
Departing(frames, a) ==
  [j \in 1..(Len(frames) - a) |->
     [dgram |-> frames[a + j].payload, to |-> frames[a + j].dst]]

(* All that leaves, when all frames but the first `a' are datagrams.       *)
LEMMA LeftFacts ==
  ASSUME NEW F, NEW frames \in Seq(F), NEW a \in 0..Len(frames),
         \A i \in 1..Len(frames) : IsDatagram(frames[i]) <=> i > a
  PROVE  Left(frames) = Departing(frames, a)
<1>1. PICK n \in Nat : n = Len(frames) /\ DOMAIN frames = 1..n
  BY LenProperties
<1>2. PICK I : I = {i \in DOMAIN frames : IsDatagram(frames[i])}
  OBVIOUS
<1>3. \A i \in 1..n : i \in I <=> i > a
  BY <1>1, <1>2
<1>4. PICK dgrams : dgrams = Chosen(frames, I)
  OBVIOUS
<1>5. dgrams = [j \in 1..(n - a) |-> frames[a + j]]
  BY <1>1, <1>3, <1>4, ChosenRest
<1>6. Left(frames) = [i \in DOMAIN dgrams |->
                        [dgram |-> dgrams[i].payload, to |-> dgrams[i].dst]]
  BY <1>2, <1>4 DEF Left
<1>7. DOMAIN dgrams = 1..(n - a) /\ \A j \in 1..(n - a) : dgrams[j] = frames[a + j]
  BY <1>5
<1> QED
  BY <1>1, <1>6, <1>7 DEF Departing

(* Nothing transmitted, nothing left, nothing asked.                       *)
LEMMA NothingTransmitted ==
  Left(<< >>) = << >> /\ Requested(<< >>) = {}
<1>1. Requested(<< >>) = {}
  BY DEF Requested
<1>2. PICK frames : frames = << >>
  OBVIOUS
<1>3. frames \in Seq({}) /\ Len(frames) = 0
  BY <1>2
<1>4. Left(frames) = Departing(frames, 0)
  <2>1. 0 \in 0..Len(frames) /\ \A i \in 1..Len(frames) : IsDatagram(frames[i]) <=> i > 0
    BY <1>3
  <2>2. PICK F : frames \in Seq(F)
    BY <1>3
  <2> QED
    BY <2>1, <2>2, LeftFacts
<1>5. Departing(frames, 0) = << >>
  BY <1>3 DEF Departing
<1> QED
  BY <1>1, <1>2, <1>4, <1>5

(* send_datagram() for a next hop whose address is known: the datagram     *)
(* leaves.                                                                 *)
LEMMA SendKnown ==
  ASSUME NEW n, NEW dgram, NEW hop, hop \in DOMAIN n.arp_cache
  PROVE  LET r == send_datagram(n, dgram, hop)
         IN  /\ r.nic = n
             /\ Left(r.frames) = <<[dgram |-> dgram, to |-> n.arp_cache[hop].address]>>
             /\ Requested(r.frames) = {}
<1> DEFINE frame == send_eth_datagram(n, dgram, n.arp_cache[hop].address)
           r == send_datagram(n, dgram, hop)
<1>1. r = [nic |-> n, frames |-> <<frame>>]
  BY DEF send_datagram
<1>2. frame.type = "IPv4" /\ frame.payload = dgram /\ frame.dst = n.arp_cache[hop].address
  BY DEF send_eth_datagram
<1> HIDE DEF frame
<1>3. PICK frames : frames = <<frame>>
  OBVIOUS
<1>4. frames \in Seq({frame}) /\ Len(frames) = 1 /\ frames[1] = frame
      /\ DOMAIN frames = 1..1
  BY <1>3
<1>5. \A i \in 1..1 : IsDatagram(frames[i]) <=> i > 0
  BY <1>2, <1>4 DEF IsDatagram
<1>6. Left(frames) = Departing(frames, 0)
  BY <1>4, <1>5, LeftFacts
<1>7. Left(frames) = <<[dgram |-> frame.payload, to |-> frame.dst]>>
  BY <1>4, <1>6 DEF Departing
<1>8. Requested(frames) = {}
  BY <1>2, <1>4 DEF Requested, IsRequest
<1> QED
  BY <1>1, <1>2, <1>3, <1>7, <1>8

(* The record of a request that is sent, or not.                           *)
LEMMA AskedFacts ==
  ASSUME NEW n \in Interface, NEW hop \in Hop
  PROVE  LET p == Asked(n, hop).nic
             frames == Asked(n, hop).frames
         IN  /\ p \in Interface
             /\ p.now = n.now /\ p.arp_cache = n.arp_cache
             /\ p.ip_frames_out = n.ip_frames_out
             /\ Left(frames) = << >>
             /\ IF MayAsk(n, hop)
                THEN /\ Requested(frames) = {hop}
                     /\ p.arp_request_time = Put(n.arp_request_time, hop, n.now)
                ELSE /\ Requested(frames) = {}
                     /\ p.arp_request_time = n.arp_request_time
<1>1. CASE ~MayAsk(n, hop)
  BY <1>1, NothingTransmitted DEF Asked
<1>2. CASE MayAsk(n, hop)
  <2> DEFINE times == Put(n.arp_request_time, hop, n.now)
             p == [n EXCEPT !.arp_request_time = times]
             frame == send_arp_request(n, hop)
  <2>1. Asked(n, hop) = [nic |-> p, frames |-> <<frame>>]
    BY <1>2 DEF Asked
  <2>2. times \in Partial(Hop, Clock)
    <3>1. n.arp_request_time \in Partial(Hop, Clock) /\ n.now \in Clock
      BY DEF Interface
    <3> QED
      BY <3>1, PutFacts
  <2> HIDE DEF times
  <2>3. /\ p \in Interface
        /\ p.now = n.now /\ p.arp_cache = n.arp_cache
        /\ p.ip_frames_out = n.ip_frames_out /\ p.arp_request_time = times
    BY <2>2 DEF Interface
  <2>4. /\ frame.type = "ARP" /\ frame.payload.opcode = "REQUEST"
        /\ frame.payload.target_ip_address = hop
    BY DEF send_arp_request, ArpFrame
  <2> HIDE DEF p, frame
  <2>5. PICK frames : frames = <<frame>>
    OBVIOUS
  <2>6. frames \in Seq({frame}) /\ Len(frames) = 1 /\ frames[1] = frame
        /\ DOMAIN frames = 1..1
    BY <2>5
  <2>7. \A i \in 1..1 : IsDatagram(frames[i]) <=> i > 1
    BY <2>4, <2>6 DEF IsDatagram
  <2>8. Left(frames) = Departing(frames, 1)
    BY <2>6, <2>7, LeftFacts
  <2>9. Left(frames) = << >>
    BY <2>6, <2>8 DEF Departing
  <2>10. Requested(frames) = {hop}
    BY <2>4, <2>6 DEF Requested, IsRequest
  <2> QED
    BY <1>2, <2>1, <2>3, <2>5, <2>9, <2>10 DEF times
<1> QED
  BY <1>1, <1>2

(* send_datagram() for any other: the datagram waits, and the next hop is  *)
(* asked for its address, or has been.                                     *)
LEMMA SendUnknown ==
  ASSUME NEW n \in Interface, NEW dgram \in Datagram, NEW hop \in Hop,
         hop \notin DOMAIN n.arp_cache
  PROVE  LET p == send_datagram(n, dgram, hop).nic
             frames == send_datagram(n, dgram, hop).frames
         IN  /\ p \in Interface
             /\ p.now = n.now /\ p.arp_cache = n.arp_cache
             /\ p.ip_frames_out = Append(n.ip_frames_out,
                  [dgram |-> dgram, next_hop |-> hop, enqueue_time |-> n.now])
             /\ Left(frames) = << >>
             /\ IF MayAsk(n, hop)
                THEN /\ Requested(frames) = {hop}
                     /\ p.arp_request_time = Put(n.arp_request_time, hop, n.now)
                ELSE /\ Requested(frames) = {}
                     /\ p.arp_request_time = n.arp_request_time
<1>1. PICK m : m = Asked(n, hop).nic
  OBVIOUS
<1>2. PICK frames : frames = Asked(n, hop).frames
  OBVIOUS
<1>3. /\ m \in Interface
      /\ m.now = n.now /\ m.arp_cache = n.arp_cache
      /\ m.ip_frames_out = n.ip_frames_out
      /\ Left(frames) = << >>
      /\ IF MayAsk(n, hop)
         THEN /\ Requested(frames) = {hop}
              /\ m.arp_request_time = Put(n.arp_request_time, hop, n.now)
         ELSE /\ Requested(frames) = {}
              /\ m.arp_request_time = n.arp_request_time
  BY <1>1, <1>2, AskedFacts
<1> DEFINE w == [dgram |-> dgram, next_hop |-> hop, enqueue_time |-> m.now]
           queue == Append(m.ip_frames_out, w)
           p == [m EXCEPT !.ip_frames_out = queue]
<1>4. send_datagram(n, dgram, hop) = [nic |-> p, frames |-> frames]
  BY <1>1, <1>2 DEF send_datagram, Enqueue
<1>5. queue \in Seq(Waiter)
  <2>1. m.ip_frames_out \in Seq(Waiter) /\ w \in Waiter
    BY <1>3 DEF Interface, Waiter
  <2> HIDE DEF w
  <2> QED
    BY <2>1
<1> HIDE DEF queue
<1>6. /\ p \in Interface
      /\ p.now = m.now /\ p.arp_cache = m.arp_cache
      /\ p.ip_frames_out = queue /\ p.arp_request_time = m.arp_request_time
  BY <1>3, <1>5 DEF Interface
<1> HIDE DEF p
<1> QED
  BY <1>3, <1>4, <1>6 DEF queue

(* recv_frame() of an ARP frame for this interface: the sender is learnt,  *)
(* what waited for it leaves, and of the others the fresh ones stay.       *)
Kept(n, ip) == {i \in DOMAIN n.ip_frames_out :
                  n.ip_frames_out[i].next_hop # ip /\ Fresh(n, n.ip_frames_out[i])}

Mine(n, ip) == {i \in DOMAIN n.ip_frames_out : n.ip_frames_out[i].next_hop = ip}

(* What is learnt.                                                         *)
LEMMA LearnFacts ==
  ASSUME NEW n \in Interface, NEW ip \in AllIP, NEW ethernet \in AllEthernet
  PROVE  LET p == Learn(n, ip, ethernet)
         IN  /\ p \in Interface
             /\ p.now = n.now /\ p.ip_frames_out = n.ip_frames_out
             /\ p.arp_cache = Put(n.arp_cache, ip,
                                  [address |-> ethernet, cache_time |-> n.now])
             /\ p.arp_request_time =
                  Restrict(n.arp_request_time, DOMAIN n.arp_request_time \ {ip})
<1> DEFINE cache == Put(n.arp_cache, ip, [address |-> ethernet, cache_time |-> n.now])
           times == Restrict(n.arp_request_time, DOMAIN n.arp_request_time \ {ip})
           p == [n EXCEPT !.arp_cache = cache, !.arp_request_time = times]
<1>1. Learn(n, ip, ethernet) = p
  BY DEF Learn
<1>2. cache \in Partial(AllIP, Entry)
  <2>1. n.arp_cache \in Partial(AllIP, Entry)
        /\ [address |-> ethernet, cache_time |-> n.now] \in Entry
    BY DEF Interface, Entry
  <2> QED
    BY <2>1, PutFacts
<1>3. times \in Partial(Hop, Clock)
  <2>1. n.arp_request_time \in Partial(Hop, Clock)
    BY DEF Interface
  <2> QED
    BY <2>1, RestrictFacts
<1> HIDE DEF cache, times
<1>4. /\ p \in Interface
      /\ p.now = n.now /\ p.ip_frames_out = n.ip_frames_out
      /\ p.arp_cache = cache /\ p.arp_request_time = times
  BY <1>2, <1>3 DEF Interface
<1> QED
  BY <1>1, <1>4 DEF cache, times

(* What leaves, and what stays.                                            *)
LEMMA FlushFacts ==
  ASSUME NEW n \in Interface, NEW ip, NEW ethernet
  PROVE  LET p == Flush(n, ip, ethernet).nic
             frames == Flush(n, ip, ethernet).frames
             leaving == Chosen(n.ip_frames_out, Mine(n, ip))
         IN  /\ p \in Interface
             /\ p.now = n.now /\ p.arp_cache = n.arp_cache
             /\ p.arp_request_time = n.arp_request_time
             /\ p.ip_frames_out = Chosen(n.ip_frames_out, Kept(n, ip))
             /\ leaving \in Seq(Waiter)
             /\ frames = [i \in DOMAIN leaving |->
                            send_eth_datagram(n, leaving[i].dgram, ethernet)]
<1>1. PICK queue : queue = n.ip_frames_out /\ queue \in Seq(Waiter)
  BY DEF Interface
<1>2. PICK leaving : leaving = Chosen(queue, Mine(n, ip)) /\ leaving \in Seq(Waiter)
  BY <1>1, ChosenFacts
<1>3. PICK rest : rest = Chosen(queue, Kept(n, ip)) /\ rest \in Seq(Waiter)
  BY <1>1, ChosenFacts
<1> DEFINE p == [n EXCEPT !.ip_frames_out = rest]
           frames == [i \in DOMAIN leaving |->
                        send_eth_datagram(n, leaving[i].dgram, ethernet)]
<1>4. Flush(n, ip, ethernet) = [nic |-> p, frames |-> frames]
  <2>1. {i \in DOMAIN queue : queue[i].next_hop = ip} = Mine(n, ip)
    BY <1>1 DEF Mine
  <2>2. {i \in DOMAIN queue \ Mine(n, ip) : Fresh(n, queue[i])} = Kept(n, ip)
    BY <1>1 DEF Mine, Kept
  <2> QED
    BY <1>1, <1>2, <1>3, <2>1, <2>2 DEF Flush
<1>5. /\ p \in Interface
      /\ p.now = n.now /\ p.arp_cache = n.arp_cache
      /\ p.arp_request_time = n.arp_request_time /\ p.ip_frames_out = rest
  BY <1>3 DEF Interface
<1> HIDE DEF p
<1> QED
  BY <1>1, <1>2, <1>3, <1>4, <1>5

(* A frame with a datagram.                                                *)
LEMMA EthFrame ==
  ASSUME NEW n, NEW dgram, NEW dst
  PROVE  LET frame == send_eth_datagram(n, dgram, dst)
         IN  IsDatagram(frame) /\ ~IsRequest(frame)
             /\ frame.payload = dgram /\ frame.dst = dst
BY DEF send_eth_datagram, IsDatagram, IsRequest

(* A reply, or none, is not a request.                                     *)
LEMMA ReplyFacts ==
  ASSUME NEW n, NEW message
  PROVE  \E F : /\ Reply(n, message) \in Seq(F)
                /\ \A frame \in F : ~IsDatagram(frame) /\ ~IsRequest(frame)
<1> DEFINE frame == send_arp_reply(n, message.sender_ethernet_address,
                                   message.sender_ip_address)
<1>1. frame.type = "ARP" /\ frame.payload.opcode = "REPLY"
  BY DEF send_arp_reply, ArpFrame
<1>2. Reply(n, message) = <<frame>> \/ Reply(n, message) = << >>
  BY DEF Reply
<1> HIDE DEF frame
<1>3. ~IsDatagram(frame) /\ ~IsRequest(frame)
  BY <1>1 DEF IsDatagram, IsRequest
<1>4. Reply(n, message) \in Seq({frame})
  <2>1. <<frame>> \in Seq({frame}) /\ << >> \in Seq({frame})
    OBVIOUS
  <2> QED
    BY <1>2, <2>1
<1> QED
  BY <1>3, <1>4

(* The datagrams of what leaves, and where to.                             *)
LeavingTo(leaving, ethernet) ==
  [i \in DOMAIN leaving |-> [dgram |-> leaving[i].dgram, to |-> ethernet]]

(* All that an ARP frame for this interface does.                          *)
LEMMA HandleFacts ==
  ASSUME NEW n \in Interface, NEW message,
         message.sender_ip_address \in AllIP,
         message.sender_ethernet_address \in AllEthernet
  PROVE  LET p == HandleArp(n, message).nic
             frames == HandleArp(n, message).frames
             ip == message.sender_ip_address
             ethernet == message.sender_ethernet_address
             leaving == Chosen(n.ip_frames_out, Mine(n, ip))
         IN  /\ p \in Interface
             /\ p.now = n.now
             /\ p.arp_cache = Put(n.arp_cache, ip,
                                  [address |-> ethernet, cache_time |-> n.now])
             /\ p.arp_request_time =
                  Restrict(n.arp_request_time, DOMAIN n.arp_request_time \ {ip})
             /\ p.ip_frames_out = Chosen(n.ip_frames_out, Kept(n, ip))
             /\ Left(frames) = LeavingTo(leaving, ethernet)
             /\ Requested(frames) = {}
<1>1. PICK ip \in AllIP : ip = message.sender_ip_address
  OBVIOUS
<1>2. PICK ethernet \in AllEthernet : ethernet = message.sender_ethernet_address
  OBVIOUS
<1>3. PICK m : m = Learn(n, ip, ethernet)
  OBVIOUS
<1>4. /\ m \in Interface /\ m.now = n.now /\ m.ip_frames_out = n.ip_frames_out
      /\ m.arp_cache = Put(n.arp_cache, ip, [address |-> ethernet, cache_time |-> n.now])
      /\ m.arp_request_time =
           Restrict(n.arp_request_time, DOMAIN n.arp_request_time \ {ip})
  BY <1>3, LearnFacts
<1>5. Mine(m, ip) = Mine(n, ip) /\ Kept(m, ip) = Kept(n, ip)
  BY <1>4 DEF Mine, Kept, Fresh
<1>6. PICK leaving : leaving = Chosen(m.ip_frames_out, Mine(m, ip))
  OBVIOUS
<1>7. PICK p : p = Flush(m, ip, ethernet).nic
  OBVIOUS
<1>8. PICK flushed : flushed = Flush(m, ip, ethernet).frames
  OBVIOUS
<1>9. /\ p \in Interface
      /\ p.now = m.now /\ p.arp_cache = m.arp_cache
      /\ p.arp_request_time = m.arp_request_time
      /\ p.ip_frames_out = Chosen(m.ip_frames_out, Kept(m, ip))
      /\ leaving \in Seq(Waiter)
      /\ flushed = [i \in DOMAIN leaving |->
                      send_eth_datagram(m, leaving[i].dgram, ethernet)]
  BY <1>4, <1>6, <1>7, <1>8, FlushFacts
<1>10. PICK answer : answer = Reply(n, message)
  OBVIOUS
<1>11. HandleArp(n, message) = [nic |-> p, frames |-> answer \o flushed]
  BY <1>1, <1>2, <1>3, <1>7, <1>8, <1>10 DEF HandleArp
<1>12. PICK F : /\ answer \in Seq(F)
                /\ \A frame \in F : ~IsDatagram(frame) /\ ~IsRequest(frame)
  BY <1>10, ReplyFacts
<1>13. PICK a \in Nat : a = Len(answer) /\ DOMAIN answer = 1..a
  BY <1>12, LenProperties
<1>14. PICK k \in Nat : k = Len(leaving) /\ DOMAIN leaving = 1..k
  BY <1>9, LenProperties
<1>15. PICK G : G = {send_eth_datagram(m, leaving[i].dgram, ethernet) : i \in 1..k}
  OBVIOUS
<1>16. /\ flushed \in Seq(G) /\ Len(flushed) = k
       /\ \A i \in 1..k : flushed[i] = send_eth_datagram(m, leaving[i].dgram, ethernet)
  <2>1. flushed \in [1..k -> G]
    BY <1>9, <1>14, <1>15
  <2> QED
    BY <1>9, <1>14, <2>1
<1>17. PICK frames : frames = answer \o flushed
  OBVIOUS
<1>18. /\ frames \in Seq(F \cup G) /\ Len(frames) = a + k /\ DOMAIN frames = 1..(a + k)
       /\ \A i \in 1..a : frames[i] = answer[i] /\ answer[i] \in F
       /\ \A i \in (a + 1)..(a + k) : frames[i] = flushed[i - a] /\ i - a \in 1..k
  <2>1. answer \in Seq(F \cup G) /\ flushed \in Seq(F \cup G)
    BY <1>12, <1>16
  <2>2. frames \in Seq(F \cup G) /\ Len(frames) = a + k
    BY <1>13, <1>16, <1>17, <2>1
  <2>3. DOMAIN frames = 1..(a + k)
    BY <2>2
  <2>4. ASSUME NEW i \in 1..a PROVE frames[i] = answer[i] /\ answer[i] \in F
    BY <1>12, <1>13, <1>16, <1>17
  <2>5. ASSUME NEW i \in (a + 1)..(a + k)
        PROVE  frames[i] = flushed[i - a] /\ i - a \in 1..k
    BY <1>12, <1>13, <1>16, <1>17
  <2> QED
    BY <2>2, <2>3, <2>4, <2>5
<1>19. ASSUME NEW i \in 1..(a + k)
       PROVE  /\ IsDatagram(frames[i]) <=> i > a
              /\ ~IsRequest(frames[i])
  <2>1. CASE i <= a
    <3>1. i \in 1..a
      BY <2>1
    <3> QED
      BY <2>1, <3>1, <1>12, <1>18
  <2>2. CASE i > a
    <3>1. i \in (a + 1)..(a + k)
      BY <2>2
    <3>2. frames[i] = send_eth_datagram(m, leaving[i - a].dgram, ethernet)
      BY <3>1, <1>16, <1>18
    <3> QED
      BY <2>2, <3>2, EthFrame
  <2> QED
    BY <2>1, <2>2
<1>20. Requested(frames) = {}
  BY <1>18, <1>19 DEF Requested
<1>21. Left(frames) = Departing(frames, a)
  BY <1>18, <1>19, LeftFacts
<1>22. Left(frames) = LeavingTo(leaving, ethernet)
  <2>1. ASSUME NEW j \in 1..k
        PROVE  frames[a + j].payload = leaving[j].dgram /\ frames[a + j].dst = ethernet
    <3>1. a + j \in (a + 1)..(a + k) /\ (a + j) - a = j
      OBVIOUS
    <3>2. frames[a + j] = send_eth_datagram(m, leaving[j].dgram, ethernet)
      BY <3>1, <1>16, <1>18
    <3> QED
      BY <3>2, EthFrame
  <2>2. Departing(frames, a) = [j \in 1..k |-> [dgram |-> frames[a + j].payload,
                                                to |-> frames[a + j].dst]]
    <3>1. (a + k) - a = k
      OBVIOUS
    <3> QED
      BY <1>18, <3>1 DEF Departing
  <2> QED
    BY <1>14, <1>21, <2>1, <2>2 DEF LeavingTo
<1> QED
  BY <1>1, <1>2, <1>4, <1>5, <1>6, <1>9, <1>11, <1>17, <1>20, <1>22

(* recv_frame() of what others on the link say to this interface.          *)
LEMMA HearFacts ==
  ASSUME NEW n \in Interface, NEW message \in ArpMessages,
         NEW dst \in {OwnEthernet, Broadcast}
  PROVE  /\ recv_frame(n, ArpFrom(message, dst)) = HandleArp(n, ParsedArp(message))
         /\ ParsedArp(message).sender_ip_address \in AllIP
         /\ ParsedArp(message).sender_ethernet_address \in AllEthernet
<1>1. PICK frame : frame = ArpFrom(message, dst)
  OBVIOUS
<1>2. frame.dst = dst /\ frame.type = "ARP" /\ frame.payload = message
  BY <1>1 DEF ArpFrom
<1>3. n.ethernet_address = OwnEthernet
  BY DEF Interface
<1>4. recv_frame(n, frame) = HandleArp(n, ParsedArp(message))
  BY <1>2, <1>3 DEF recv_frame
<1>5. /\ message.sender_ip_address \in Hop /\ message.sender_ethernet_address \in Ethernet
      /\ DOMAIN message = {"opcode", "supported", "sender_ethernet_address",
                           "sender_ip_address", "target_ethernet_address",
                           "target_ip_address"}
  BY DEF ArpMessages
<1>6. /\ ParsedArp(message).sender_ip_address \in AllIP
      /\ ParsedArp(message).sender_ethernet_address \in AllEthernet
  BY <1>5 DEF ParsedArp, AllIP, AllEthernet
<1> QED
  BY <1>1, <1>4, <1>6

(* Frames for others change nothing.                                       *)
LEMMA OverhearFacts ==
  ASSUME NEW n \in Interface, NEW message, NEW dst \in Ethernet
  PROVE  recv_frame(n, ArpFrom(message, dst)) = [nic |-> n, frames |-> << >>]
<1>1. PICK frame : frame = ArpFrom(message, dst)
  OBVIOUS
<1>2. frame.dst = dst /\ frame.type = "ARP"
  BY <1>1 DEF ArpFrom
<1>3. dst \notin {n.ethernet_address, Broadcast}
  BY AddressAssumption DEF Interface
<1> QED
  BY <1>1, <1>2, <1>3 DEF recv_frame

(* tick(): the clock moves, and what is too old by it goes.                *)
FreshAt(n, now) ==
  {i \in DOMAIN n.ip_frames_out : AtMost(now, n.ip_frames_out[i].enqueue_time, RetryTime)}

LiveAt(n, now) ==
  {ip \in DOMAIN n.arp_cache : ~AtLeast(now, n.arp_cache[ip].cache_time, EntryTime)}

(* What is left of the interface.                                          *)
LEMMA TickFacts ==
  ASSUME NEW n \in Interface, NEW ms \in Nat
  PROVE  LET p == tick(n, ms)
             now == (n.now + ms) % ClockSize
         IN  /\ p \in Interface /\ p.now = now
             /\ p.arp_cache = Restrict(n.arp_cache, LiveAt(n, now))
             /\ p.arp_request_time = n.arp_request_time
             /\ p.ip_frames_out = Chosen(n.ip_frames_out, FreshAt(n, now))
<1>1. n.now \in Nat /\ ClockSize \in Nat \ {0}
  BY ClockAssumption DEF Interface, Clock
<1>2. PICK now \in Clock : now = (n.now + ms) % ClockSize
  BY <1>1, ModRange DEF Clock
<1> DEFINE m == [n EXCEPT !.now = now]
<1>3. /\ m \in Interface /\ m.now = now
      /\ m.arp_cache = n.arp_cache /\ m.arp_request_time = n.arp_request_time
      /\ m.ip_frames_out = n.ip_frames_out
  BY <1>2 DEF Interface
<1>4. tick(n, ms) = Expire(m)
  BY <1>2 DEF tick
<1> HIDE DEF m
<1>5. PICK queue : queue = Chosen(n.ip_frames_out, FreshAt(n, now)) /\ queue \in Seq(Waiter)
  BY ChosenFacts DEF Interface
<1>6. PICK cache : /\ cache = Restrict(n.arp_cache, LiveAt(n, now))
                   /\ cache \in Partial(AllIP, Entry)
  <2>1. n.arp_cache \in Partial(AllIP, Entry) /\ LiveAt(n, now) \subseteq DOMAIN n.arp_cache
    BY DEF Interface, LiveAt
  <2> QED
    BY <2>1, RestrictFacts
<1> DEFINE p == [m EXCEPT !.arp_cache = cache, !.ip_frames_out = queue]
<1>7. Expire(m) = p
  <2>1. {i \in DOMAIN m.ip_frames_out : Fresh(m, m.ip_frames_out[i])} = FreshAt(n, now)
    BY <1>3 DEF FreshAt, Fresh
  <2>2. {ip \in DOMAIN m.arp_cache : ~AtLeast(m.now, m.arp_cache[ip].cache_time, EntryTime)}
          = LiveAt(n, now)
    BY <1>3 DEF LiveAt
  <2> QED
    BY <1>3, <1>5, <1>6, <2>1, <2>2 DEF Expire
<1>8. /\ p \in Interface /\ p.now = m.now /\ p.arp_cache = cache
      /\ p.arp_request_time = m.arp_request_time /\ p.ip_frames_out = queue
  BY <1>3, <1>5, <1>6 DEF Interface
<1> HIDE DEF p
<1> QED
  BY <1>2, <1>3, <1>4, <1>5, <1>6, <1>7, <1>8

-----------------------------------------------------------------------------
(* What WaitingIsAsked says of one datagram.                               *)
AskedFor(w) ==
  /\ w.next_hop \notin DOMAIN nic.arp_cache
  /\ w.enqueue_time <= nic.now /\ time - Since(w) <= RetryTime
  /\ w.next_hop \in DOMAIN nic.arp_request_time
  /\ \/ Since(w) - asked[w.next_hop] < RetryTime
     \/ Turn(asked[w.next_hop]) # Turn(Since(w))

(* It is said of all that wait.                                            *)
LEMMA WaitingSplits ==
  WaitingIsAsked <=> \A i \in DOMAIN nic.ip_frames_out : AskedFor(nic.ip_frames_out[i])
BY DEF WaitingIsAsked, AskedFor

(* The numbers in the state are what they should be.                       *)
LEMMA StateFacts ==
  ASSUME IInv
  PROVE  /\ nic.now \in Nat /\ nic.now <= time /\ time \in Nat
         /\ ClockSize \in Nat \ {0} /\ RetryTime \in Nat \ {0}
         /\ EntryTime \in Nat /\ RetryTime < EntryTime
         /\ nic.arp_request_time \in Partial(Hop, Clock)
         /\ nic.arp_cache \in Partial(AllIP, Entry)
         /\ nic.ip_frames_out \in Seq(Waiter)
         /\ \A ip \in DOMAIN asked : ip \in Hop /\ asked[ip] \in Nat /\ asked[ip] <= time
         /\ \A ip \in DOMAIN heard : heard[ip].at \in Nat /\ heard[ip].at <= time
<1>1. ClockSize \in Nat \ {0} /\ RetryTime \in Nat \ {0}
      /\ EntryTime \in Nat /\ RetryTime < EntryTime
  BY ClockAssumption
<1>2. time \in Nat /\ nic.now = time % ClockSize
  BY DEF IInv, OnTime
<1>3. nic.now \in Nat /\ nic.now <= time
  <2>1. PICK t \in Nat : t = time
    BY <1>2
  <2>2. t % ClockSize \in 0..t
    BY <1>1, RemainderBelow
  <2> QED
    BY <1>2, <2>1, <2>2
<1>4. /\ nic.arp_request_time \in Partial(Hop, Clock)
      /\ nic.arp_cache \in Partial(AllIP, Entry)
      /\ nic.ip_frames_out \in Seq(Waiter)
  BY DEF IInv, Interface
<1>5. \A ip \in DOMAIN asked : ip \in Hop /\ asked[ip] \in 0..time
  BY PartialFacts DEF IInv, Asks
<1>6. \A ip \in DOMAIN heard : heard[ip].at \in 0..time
  <2>1. PICK T : T = [ethernet : AllEthernet, at : 0..time]
    OBVIOUS
  <2>2. heard \in Partial(AllIP, T)
    BY <2>1 DEF IInv, Remembers
  <2>3. \A ip \in DOMAIN heard : heard[ip] \in T
    BY <2>2, PartialFacts
  <2> QED
    BY <2>1, <2>3
<1> QED
  BY <1>1, <1>2, <1>3, <1>4, <1>5, <1>6

(* A new interface.                                                        *)
LEMMA InitHolds == Init => IInv
<1>1. SUFFICES ASSUME Init PROVE IInv
  OBVIOUS
<1>2. ClockSize \in Nat \ {0}
  BY ClockAssumption
<1>3. << >> \in Partial(AllIP, Entry) /\ << >> \in Partial(Hop, Clock)
  BY EmptyPartial
<1>4. nic \in Interface
  <2>1. << >> \in Seq(Waiter) /\ 0 \in Clock
    BY <1>2 DEF Clock
  <2> QED
    BY <1>1, <1>3, <2>1 DEF Init, NewInterface, Interface
<1>5. /\ nic.now = 0 /\ nic.arp_cache = << >> /\ nic.arp_request_time = << >>
      /\ nic.ip_frames_out = << >> /\ time = 0 /\ heard = << >> /\ asked = << >>
  BY <1>1 DEF Init, NewInterface
<1>6. OnTime
  <2>1. 0 % ClockSize = 0
    BY <1>2
  <2> QED
    BY <1>5, <2>1 DEF OnTime
<1>7. Remembers
  <2>1. PICK T : T = [ethernet : AllEthernet, at : 0..time]
    OBVIOUS
  <2>2. << >> \in Partial(AllIP, T)
    BY EmptyPartial
  <2> QED
    BY <1>5, <2>1, <2>2 DEF Remembers
<1>8. Asks
  <2>1. << >> \in Partial(Hop, 0..time)
    BY EmptyPartial
  <2> QED
    BY <1>5, <2>1 DEF Asks
<1>9. WaitingIsAsked
  BY <1>5 DEF WaitingIsAsked
<1> QED
  BY <1>4, <1>6, <1>7, <1>8, <1>9 DEF IInv

(* A request is recorded with its time; a new one may be sent only when    *)
(* the last is past.                                                       *)
LEMMA MayAskFacts ==
  ASSUME IInv, NEW hop \in Hop
  PROVE  /\ MayAsk(nic, hop) /\ hop \in DOMAIN asked => Past(hop)
         /\ ~MayAsk(nic, hop) =>
              /\ hop \in DOMAIN nic.arp_request_time /\ hop \in DOMAIN asked
              /\ time - asked[hop] < RetryTime \/ Turn(asked[hop]) # Turn(time)
<1>1. CASE hop \notin DOMAIN nic.arp_request_time
  BY <1>1 DEF MayAsk, IInv, Asks
<1>2. CASE hop \in DOMAIN nic.arp_request_time
  <2>1. hop \in DOMAIN asked /\ nic.arp_request_time[hop] = asked[hop] % ClockSize
    BY <1>2 DEF IInv, Asks
  <2>2. PICK at \in Nat : at = asked[hop] /\ at <= time
    BY <2>1, StateFacts
  <2>3. PICK t \in Nat : t = time
    BY StateFacts
  <2>4. /\ at % ClockSize \in Nat /\ t % ClockSize \in Nat
        /\ at \div ClockSize = t \div ClockSize <=>
             at % ClockSize <= t % ClockSize
               /\ t - at = (t % ClockSize) - (at % ClockSize)
    <3>1. PICK m \in Nat \ {0} : m = ClockSize
      BY ClockAssumption
    <3>2. at <= t
      BY <2>2, <2>3
    <3>3. /\ at % m \in 0..(m - 1) /\ t % m \in 0..(m - 1)
          /\ at \div m = t \div m <=> at % m <= t % m /\ t - at = (t % m) - (at % m)
      BY <3>2, TurnFacts
    <3> QED
      BY <3>1, <3>3
  <2>5. PICK x \in Nat, y \in Nat : x = at % ClockSize /\ y = t % ClockSize
    BY <2>4
  <2>6. Turn(asked[hop]) = Turn(time) <=> x <= y /\ t - at = y - x
    BY <2>2, <2>3, <2>4, <2>5 DEF Turn
  <2>7. nic.now = y /\ nic.arp_request_time[hop] = x
    BY <2>1, <2>2, <2>3, <2>5 DEF IInv, OnTime
  <2>8. MayAsk(nic, hop) <=> x > y \/ y - x >= RetryTime
    BY <1>2, <2>7 DEF MayAsk, AtLeast
  <2>9. RetryTime \in Nat
    BY StateFacts
  <2>10. CASE Turn(asked[hop]) # Turn(time)
    BY <1>2, <2>1, <2>10 DEF Past
  <2>11. CASE Turn(asked[hop]) = Turn(time)
    <3>1. MayAsk(nic, hop) <=> time - asked[hop] >= RetryTime
      BY <2>2, <2>3, <2>6, <2>8, <2>9, <2>11
    <3>2. time - asked[hop] \in Int
      BY <2>2, <2>3
    <3> QED
      BY <1>2, <2>1, <2>9, <3>1, <3>2 DEF Past
  <2> QED
    BY <2>10, <2>11
<1> QED
  BY <1>1, <1>2

(* What a step that transmits requests for `hops' leaves of the record.    *)
LEMMA AskedNext ==
  ASSUME IInv, NEW result, Becomes(result)
  PROVE  /\ nic' = result.nic /\ left' = Left(result.frames)
         /\ requested' = Requested(result.frames)
         /\ requested' = {} => asked' = asked
         /\ \A hop : requested' = {hop} => asked' = Put(asked, hop, time)
<1>1. asked = [ip \in DOMAIN asked |-> asked[ip]]
  BY PartialFacts DEF IInv, Asks
<1>2. PICK hops : hops = Requested(result.frames)
  OBVIOUS
<1>3. asked' = [ip \in DOMAIN asked \cup hops |-> IF ip \in hops THEN time ELSE asked[ip]]
      /\ requested' = hops
  BY <1>2 DEF Becomes
<1>4. hops = {} => asked' = asked
  BY <1>1, <1>3
<1>5. ASSUME NEW hop, hops = {hop} PROVE asked' = Put(asked, hop, time)
  BY <1>3, <1>5 DEF Put
<1> QED
  BY <1>3, <1>4, <1>5 DEF Becomes

(* A datagram that is sent.                                                *)
LEMMA SendHolds ==
  ASSUME IInv, NEW dgram \in Datagram, NEW hop \in Hop, Send(dgram, hop)
  PROVE  IInv'
<1>1. PICK result : result = send_datagram(nic, dgram, hop)
  OBVIOUS
<1>2. Becomes(result) /\ time' = time /\ heard' = heard
  BY <1>1 DEF Send
<1>3. /\ nic' = result.nic /\ requested' = Requested(result.frames)
      /\ requested' = {} => asked' = asked
      /\ \A h : requested' = {h} => asked' = Put(asked, h, time)
  BY <1>2, AskedNext
<1>4. nic \in Interface
  BY DEF IInv
<1>5. CASE hop \in DOMAIN nic.arp_cache
  <2>1. nic' = nic /\ asked' = asked
    BY <1>1, <1>3, <1>5, SendKnown
  <2> QED
    BY <1>2, <2>1 DEF IInv, OnTime, Remembers, Asks, Past, WaitingIsAsked, Since
<1>6. CASE hop \notin DOMAIN nic.arp_cache
  <2>3. PICK w : w = [dgram |-> dgram, next_hop |-> hop, enqueue_time |-> nic.now]
    OBVIOUS
  <2>1. /\ nic' \in Interface /\ nic'.now = nic.now /\ nic'.arp_cache = nic.arp_cache
        /\ nic'.ip_frames_out = Append(nic.ip_frames_out, w)
    BY <1>1, <1>3, <1>4, <1>6, <2>3, SendUnknown
  <2>2. IF MayAsk(nic, hop)
        THEN requested' = {hop} /\ nic'.arp_request_time = Put(nic.arp_request_time, hop, nic.now)
        ELSE requested' = {} /\ nic'.arp_request_time = nic.arp_request_time
    BY <1>1, <1>3, <1>4, <1>6, SendUnknown
  <2>9. w.dgram = dgram /\ w.next_hop = hop /\ w.enqueue_time = nic.now
    BY <2>3
  <2>4. OnTime' /\ Remembers'
    BY <1>2, <2>1 DEF IInv, OnTime, Remembers
  <2>5. /\ asked \in Partial(Hop, 0..time)
        /\ nic.arp_request_time \in Partial(Hop, Clock) /\ nic.now \in Clock
        /\ time \in 0..time
    BY <1>4, StateFacts DEF IInv, Asks, Interface
  <2>6. /\ asked' \in Partial(Hop, 0..time)
        /\ DOMAIN asked' = DOMAIN asked \cup {hop}
        /\ DOMAIN nic'.arp_request_time = DOMAIN nic.arp_request_time \cup {hop}
        /\ \A ip \in DOMAIN asked : ip # hop => asked'[ip] = asked[ip]
        /\ \A ip \in DOMAIN nic.arp_request_time : ip # hop =>
             nic'.arp_request_time[ip] = nic.arp_request_time[ip]
        /\ IF MayAsk(nic, hop)
           THEN asked'[hop] = time /\ nic'.arp_request_time[hop] = nic.now
           ELSE /\ asked'[hop] = asked[hop]
                /\ nic'.arp_request_time[hop] = nic.arp_request_time[hop]
    <3>1. CASE MayAsk(nic, hop)
      <4>1. /\ asked' = Put(asked, hop, time)
            /\ nic'.arp_request_time = Put(nic.arp_request_time, hop, nic.now)
        BY <1>3, <2>2, <3>1
      <4>2. PICK a : a = Put(asked, hop, time)
        OBVIOUS
      <4>3. PICK r : r = Put(nic.arp_request_time, hop, nic.now)
        OBVIOUS
      <4>4. /\ a \in Partial(Hop, 0..time)
            /\ DOMAIN a = DOMAIN asked \cup {hop} /\ a[hop] = time
            /\ \A ip \in DOMAIN asked : ip # hop => a[ip] = asked[ip]
        <5>1. PICK f, T, t : f = asked /\ T = 0..time /\ t = time
          OBVIOUS
        <5>2. f \in Partial(Hop, T) /\ t \in T
          BY <2>5, <5>1
        <5>3. /\ Put(f, hop, t) \in Partial(Hop, T)
              /\ DOMAIN Put(f, hop, t) = DOMAIN f \cup {hop}
              /\ Put(f, hop, t)[hop] = t
              /\ \A z \in DOMAIN f : z # hop => Put(f, hop, t)[z] = f[z]
          <6>1. Put(f, hop, t) \in Partial(Hop, T)
            BY <5>2, PutFacts
          <6> QED
            BY <6>1 DEF Put
        <5> QED
          BY <4>2, <5>1, <5>3
      <4>5. /\ DOMAIN r = DOMAIN nic.arp_request_time \cup {hop} /\ r[hop] = nic.now
            /\ \A ip \in DOMAIN nic.arp_request_time :
                 ip # hop => r[ip] = nic.arp_request_time[ip]
        <5>1. PICK f, t : f = nic.arp_request_time /\ t = nic.now
          OBVIOUS
        <5>2. f \in Partial(Hop, Clock) /\ t \in Clock
          BY <2>5, <5>1
        <5>3. /\ DOMAIN Put(f, hop, t) = DOMAIN f \cup {hop}
              /\ Put(f, hop, t)[hop] = t
              /\ \A z \in DOMAIN f : z # hop => Put(f, hop, t)[z] = f[z]
          BY DEF Put
        <5> QED
          BY <4>3, <5>1, <5>3
      <4> QED
        BY <3>1, <4>1, <4>2, <4>3, <4>4, <4>5
    <3>2. CASE ~MayAsk(nic, hop)
      <4>1. hop \in DOMAIN nic.arp_request_time /\ hop \in DOMAIN asked
        BY <3>2, MayAskFacts
      <4>2. asked' = asked /\ nic'.arp_request_time = nic.arp_request_time
        BY <1>3, <2>2, <3>2
      <4> QED
        BY <2>5, <3>2, <4>1, <4>2
    <3> QED
      BY <3>1, <3>2
  <2>7. Asks'
    <3>1. DOMAIN nic'.arp_request_time \subseteq DOMAIN asked'
      BY <2>6 DEF IInv, Asks
    <3>2. ASSUME NEW ip \in DOMAIN asked', ip # hop
          PROVE  IF ip \in DOMAIN nic'.arp_request_time
                 THEN nic'.arp_request_time[ip] = asked'[ip] % ClockSize
                 ELSE Past(ip)'
      <4>1. ip \in DOMAIN asked /\ asked'[ip] = asked[ip]
        BY <2>6, <3>2
      <4>2. IF ip \in DOMAIN nic.arp_request_time
            THEN nic.arp_request_time[ip] = asked[ip] % ClockSize
            ELSE Past(ip)
        BY <4>1 DEF IInv, Asks
      <4>3. Past(ip) => Past(ip)'
        BY <1>2, <4>1 DEF Past
      <4> QED
        BY <2>6, <3>2, <4>1, <4>2, <4>3
    <3>3. nic'.arp_request_time[hop] = asked'[hop] % ClockSize
      <4>1. CASE MayAsk(nic, hop)
        BY <2>6, <4>1 DEF IInv, OnTime
      <4>2. CASE ~MayAsk(nic, hop)
        <5>1. hop \in DOMAIN nic.arp_request_time /\ hop \in DOMAIN asked
          BY <4>2, MayAskFacts
        <5> QED
          BY <2>6, <4>2, <5>1 DEF IInv, Asks
      <4> QED
        BY <4>1, <4>2
    <3>4. \A ip \in DOMAIN asked' :
            IF ip \in DOMAIN nic'.arp_request_time
            THEN nic'.arp_request_time[ip] = asked'[ip] % ClockSize
            ELSE Past(ip)'
      BY <2>6, <3>2, <3>3
    <3> QED
      BY <1>2, <2>6, <3>1, <3>4 DEF Asks
  <2>8. WaitingIsAsked'
    <3>1. ASSUME NEW v, v \in Waiter, AskedFor(v)
          PROVE  AskedFor(v)'
      <4>1. Since(v)' = Since(v)
        BY <1>2, <2>1 DEF Since
      <4>2. v.next_hop \in DOMAIN asked /\ v.next_hop \in DOMAIN nic.arp_request_time
        BY <3>1 DEF AskedFor, IInv, Asks
      <4>3. Since(v) \in Int /\ Since(v) <= time
        <5>1. v.enqueue_time \in Nat /\ v.enqueue_time <= nic.now
          <6>1. v.enqueue_time \in Clock
            BY <3>1 DEF Waiter
          <6> QED
            BY <3>1, <6>1 DEF Clock, AskedFor
        <5> QED
          BY <5>1, StateFacts DEF Since
      <4>4. asked'[v.next_hop] = asked[v.next_hop] \/ asked'[v.next_hop] = time
        BY <2>6, <4>2
      <4>5. \/ Since(v) - asked'[v.next_hop] < RetryTime
            \/ Turn(asked'[v.next_hop]) # Turn(Since(v))
        <5>1. CASE asked'[v.next_hop] = asked[v.next_hop]
          BY <3>1, <5>1 DEF AskedFor
        <5>2. CASE asked'[v.next_hop] = time
          BY <4>3, <5>2, StateFacts
        <5> QED
          BY <4>4, <5>1, <5>2
      <4> QED
        BY <1>2, <2>1, <2>6, <3>1, <4>1, <4>2, <4>5 DEF AskedFor
    <3>2. AskedFor(w)'
      <4>1. Since(w)' = time
        BY <1>2, <2>1, <2>9, StateFacts DEF Since
      <4>2. \/ time - asked'[hop] < RetryTime
            \/ Turn(asked'[hop]) # Turn(time)
        <5>1. CASE MayAsk(nic, hop)
          BY <2>6, <5>1, StateFacts
        <5>2. CASE ~MayAsk(nic, hop)
          BY <2>6, <5>2, MayAskFacts
        <5> QED
          BY <5>1, <5>2
      <4>3. nic.now <= nic.now /\ time - time <= RetryTime
        BY StateFacts
      <4> QED
        BY <1>2, <1>6, <2>1, <2>9, <2>6, <4>1, <4>2, <4>3 DEF AskedFor
    <3>3. PICK queue : queue = nic.ip_frames_out
      OBVIOUS
    <3>4. queue \in Seq(Waiter) /\ nic'.ip_frames_out = Append(queue, w)
      BY <2>1, <3>3, StateFacts
    <3>5. \A i \in DOMAIN queue : AskedFor(queue[i])
      BY <3>3, WaitingSplits DEF IInv
    <3>6. ASSUME NEW i \in DOMAIN nic'.ip_frames_out
          PROVE  AskedFor(nic.ip_frames_out[i])'
      <4>3. PICK v : v = nic'.ip_frames_out[i]
        OBVIOUS
      <4>1. \/ i \in DOMAIN queue /\ nic'.ip_frames_out[i] = queue[i]
            \/ nic'.ip_frames_out[i] = w
        BY <3>4, <3>6
      <4>2. ASSUME i \in DOMAIN queue
            PROVE  AskedFor(queue[i])'
        BY <3>1, <3>4, <3>5, <4>2
      <4> QED
        <5>1. AskedFor(v)'
          BY <3>2, <4>1, <4>2, <4>3
        <5> QED
          BY <4>3, <5>1 DEF AskedFor, Since
    <3> QED
      BY <3>6 DEF WaitingIsAsked, AskedFor
  <2> QED
    BY <2>1, <2>4, <2>7, <2>8 DEF IInv
<1> QED
  BY <1>5, <1>6

(* What a step in which something is heard by ARP does.                    *)
LEMMA HearEffect ==
  ASSUME IInv, NEW message \in ArpMessages, NEW dst \in {OwnEthernet, Broadcast},
         HearArp(message, dst)
  PROVE  \E ip \in AllIP, ethernet \in AllEthernet :
           /\ heard' = Put(heard, ip, [ethernet |-> ethernet, at |-> time])
           /\ time' = time /\ asked' = asked /\ requested' = {}
           /\ nic' \in Interface /\ nic'.now = nic.now
           /\ nic'.arp_cache = Put(nic.arp_cache, ip,
                                   [address |-> ethernet, cache_time |-> nic.now])
           /\ nic'.arp_request_time =
                Restrict(nic.arp_request_time, DOMAIN nic.arp_request_time \ {ip})
           /\ nic'.ip_frames_out = Chosen(nic.ip_frames_out, Kept(nic, ip))
           /\ left' = LeavingTo(Chosen(nic.ip_frames_out, Mine(nic, ip)), ethernet)
<1>1. PICK result : result = recv_frame(nic, ArpFrom(message, dst))
  OBVIOUS
<1>2. PICK said : said = ParsedArp(message)
  OBVIOUS
<1>3. PICK ip : ip = said.sender_ip_address
  OBVIOUS
<1>4. PICK ethernet : ethernet = said.sender_ethernet_address
  OBVIOUS
<1>5. /\ Becomes(result) /\ time' = time
      /\ heard' = Put(heard, ip, [ethernet |-> ethernet, at |-> time])
  BY <1>1, <1>2, <1>3, <1>4 DEF HearArp
<1>6. nic \in Interface
  BY DEF IInv
<1>7. result = HandleArp(nic, said) /\ ip \in AllIP /\ ethernet \in AllEthernet
  BY <1>1, <1>2, <1>3, <1>4, <1>6, HearFacts
<1>8. /\ nic' = result.nic /\ requested' = Requested(result.frames)
      /\ left' = Left(result.frames)
      /\ requested' = {} => asked' = asked
  BY <1>5, AskedNext
<1>9. /\ nic' \in Interface /\ nic'.now = nic.now
      /\ nic'.arp_cache = Put(nic.arp_cache, ip,
                              [address |-> ethernet, cache_time |-> nic.now])
      /\ nic'.arp_request_time =
           Restrict(nic.arp_request_time, DOMAIN nic.arp_request_time \ {ip})
      /\ nic'.ip_frames_out = Chosen(nic.ip_frames_out, Kept(nic, ip))
      /\ requested' = {}
      /\ left' = LeavingTo(Chosen(nic.ip_frames_out, Mine(nic, ip)), ethernet)
  <2>1. said.sender_ip_address \in AllIP /\ said.sender_ethernet_address \in AllEthernet
    BY <1>3, <1>4, <1>7
  <2> QED
    BY <1>3, <1>4, <1>6, <1>7, <1>8, <2>1, HandleFacts
<1> QED
  BY <1>5, <1>7, <1>8, <1>9

(* What is heard by ARP.                                                   *)
LEMMA HearHolds ==
  ASSUME IInv, NEW message \in ArpMessages, NEW dst \in {OwnEthernet, Broadcast},
         HearArp(message, dst)
  PROVE  IInv'
<1>1. PICK ip \in AllIP, ethernet \in AllEthernet :
        /\ heard' = Put(heard, ip, [ethernet |-> ethernet, at |-> time])
        /\ time' = time /\ asked' = asked
        /\ nic' \in Interface /\ nic'.now = nic.now
        /\ nic'.arp_cache = Put(nic.arp_cache, ip,
                                [address |-> ethernet, cache_time |-> nic.now])
        /\ nic'.arp_request_time =
             Restrict(nic.arp_request_time, DOMAIN nic.arp_request_time \ {ip})
        /\ nic'.ip_frames_out = Chosen(nic.ip_frames_out, Kept(nic, ip))
  BY HearEffect
<1>2. OnTime'
  BY <1>1 DEF IInv, OnTime
<1>3. /\ DOMAIN nic'.arp_cache = DOMAIN nic.arp_cache \cup {ip}
      /\ nic'.arp_cache[ip] = [address |-> ethernet, cache_time |-> nic.now]
      /\ \A z \in DOMAIN nic.arp_cache : z # ip => nic'.arp_cache[z] = nic.arp_cache[z]
  BY <1>1 DEF Put
<1>4. /\ DOMAIN heard' = DOMAIN heard \cup {ip}
      /\ heard'[ip] = [ethernet |-> ethernet, at |-> time]
      /\ \A z \in DOMAIN heard : z # ip => heard'[z] = heard[z]
  BY <1>1 DEF Put
<1>5. Remembers'
  <2>1. PICK T : T = [ethernet : AllEthernet, at : 0..time]
    OBVIOUS
  <2>2. PICK h : h = [ethernet |-> ethernet, at |-> time]
    OBVIOUS
  <2>3. h \in T
    <3>1. time \in 0..time
      BY StateFacts
    <3> QED
      BY <1>1, <2>1, <2>2, <3>1
  <2>4. heard \in Partial(AllIP, T)
    BY <2>1 DEF IInv, Remembers
  <2>5. heard' \in Partial(AllIP, T)
    <3>1. PICK f : f = heard
      OBVIOUS
    <3>2. Put(f, ip, h) \in Partial(AllIP, T)
      BY <1>1, <2>3, <2>4, <3>1, PutFacts
    <3> QED
      BY <1>1, <2>2, <3>1, <3>2
  <2>6. heard' \in Partial(AllIP, [ethernet : AllEthernet, at : 0..time'])
    BY <1>1, <2>1, <2>5
  <2>7. DOMAIN nic'.arp_cache = DOMAIN heard'
    BY <1>3, <1>4 DEF IInv, Remembers
  <2>8. Lasts(heard'[ip].at, time)
    BY <1>4, StateFacts DEF Lasts
  <2>9. nic'.arp_cache[ip] = [address |-> heard'[ip].ethernet,
                              cache_time |-> heard'[ip].at % ClockSize]
    BY <1>3, <1>4 DEF IInv, OnTime
  <2>10. ASSUME NEW z \in DOMAIN heard', z # ip
         PROVE  /\ Lasts(heard'[z].at, time)
                /\ nic'.arp_cache[z] = [address |-> heard'[z].ethernet,
                                        cache_time |-> heard'[z].at % ClockSize]
    <3>1. z \in DOMAIN heard /\ heard'[z] = heard[z] /\ z \in DOMAIN nic.arp_cache
      BY <1>4, <2>10 DEF IInv, Remembers
    <3> QED
      BY <1>3, <2>10, <3>1 DEF IInv, Remembers
  <2>11. \A z \in DOMAIN heard' :
           /\ Lasts(heard'[z].at, time')
           /\ nic'.arp_cache[z] = [address |-> heard'[z].ethernet,
                                   cache_time |-> heard'[z].at % ClockSize]
    BY <1>1, <2>8, <2>9, <2>10
  <2> QED
    BY <2>6, <2>7, <2>11 DEF Remembers, Lasts
<1>6. /\ DOMAIN nic'.arp_request_time = DOMAIN nic.arp_request_time \ {ip}
      /\ \A z \in DOMAIN nic'.arp_request_time :
           nic'.arp_request_time[z] = nic.arp_request_time[z]
  BY <1>1 DEF Restrict
<1>7. Asks'
  <2>1. asked' \in Partial(Hop, 0..time') /\ DOMAIN nic'.arp_request_time \subseteq DOMAIN asked'
    BY <1>1, <1>6 DEF IInv, Asks
  <2>2. ip \in DOMAIN asked => Past(ip)'
    BY <1>1, <1>4, StateFacts DEF Past
  <2>3. ASSUME NEW z \in DOMAIN asked, z # ip, Past(z)
        PROVE  Past(z)'
    BY <1>1, <1>4, <2>3 DEF Past
  <2>4. ASSUME NEW z \in DOMAIN asked'
        PROVE  IF z \in DOMAIN nic'.arp_request_time
               THEN nic'.arp_request_time[z] = asked'[z] % ClockSize
               ELSE Past(z)'
    <3>1. CASE z = ip
      BY <1>1, <1>6, <2>2, <3>1
    <3>2. CASE z # ip
      BY <1>1, <1>6, <2>3, <3>2 DEF IInv, Asks
    <3> QED
      BY <3>1, <3>2
  <2> QED
    BY <2>1, <2>4 DEF Asks
<1>8. WaitingIsAsked'
  <2>1. PICK queue : queue = nic.ip_frames_out /\ queue \in Seq(Waiter)
    BY StateFacts
  <2>2. PICK rest : rest = Chosen(queue, Kept(nic, ip))
    OBVIOUS
  <2>3. \A j \in DOMAIN rest : \E i \in DOMAIN queue : i \in Kept(nic, ip) /\ rest[j] = queue[i]
    BY <2>1, <2>2, ChosenFacts
  <2>4. ASSUME NEW j \in DOMAIN rest
        PROVE  AskedFor(rest[j])'
    <3>1. PICK i \in DOMAIN queue : i \in Kept(nic, ip) /\ rest[j] = queue[i]
      BY <2>3
    <3>2. PICK v : v = queue[i]
      OBVIOUS
    <3>3. AskedFor(v) /\ v.next_hop # ip
      BY <2>1, <3>1, <3>2, WaitingSplits DEF IInv, Kept
    <3>4. Since(v)' = Since(v)
      BY <1>1 DEF Since
    <3>5. AskedFor(v)'
      BY <1>1, <1>3, <1>6, <3>3, <3>4 DEF AskedFor
    <3> QED
      BY <3>1, <3>2, <3>5
  <2>5. nic'.ip_frames_out = rest
    BY <1>1, <2>1, <2>2
  <2> QED
    BY <2>4, <2>5 DEF WaitingIsAsked, AskedFor, Since
<1> QED
  BY <1>1, <1>2, <1>5, <1>7, <1>8 DEF IInv

(* Frames for others.                                                      *)
LEMMA OverhearHolds ==
  ASSUME IInv, NEW message, NEW dst \in Ethernet, Overhear(message, dst)
  PROVE  IInv' /\ UNCHANGED <<nic, time, heard, asked>> /\ requested' = {} /\ left' = << >>
<1>1. PICK result : result = recv_frame(nic, ArpFrom(message, dst))
  OBVIOUS
<1>2. Becomes(result) /\ time' = time /\ heard' = heard
  BY <1>1 DEF Overhear
<1>3. result = [nic |-> nic, frames |-> << >>]
  BY <1>1, OverhearFacts DEF IInv
<1>4. nic' = nic /\ asked' = asked /\ requested' = {} /\ left' = << >>
  BY <1>2, <1>3, AskedNext, NothingTransmitted
<1> QED
  BY <1>2, <1>4 DEF IInv, OnTime, Remembers, Asks, Past, WaitingIsAsked, Since

(* Back from the time by less than the clock shows: the same turn.         *)
LEMMA BackFacts ==
  ASSUME NEW m \in Nat \ {0}, NEW t \in Nat, NEW x \in 0..(t % m)
  PROVE  LET s == t - ((t % m) - x)
         IN  /\ s \in Nat /\ s <= t /\ t - s = (t % m) - x
             /\ s % m = x /\ s \div m = t \div m
<1>1. t \in Int
  OBVIOUS
<1>2. t % m \in 0..(m - 1)
  BY <1>1, ModRange, Zenon
<1>3. t \div m \in Int /\ t = m * (t \div m) + (t % m)
  BY <1>1, ModDiv, Zenon
<1>4. t % m \in 0..t
  BY RemainderBelow
<1>5. PICK q \in Int, r \in 0..(m - 1) : q = t \div m /\ r = t % m /\ t = m * q + r /\ r <= t
  BY <1>2, <1>3, <1>4
<1>6. PICK s \in Nat : s = t - (r - x) /\ s <= t /\ t - s = r - x
  <2>1. t - (r - x) \in Nat /\ t - (r - x) <= t /\ t - (t - (r - x)) = r - x
    BY <1>5
  <2> QED
    BY <2>1
<1>7. PICK k \in Int : k = m * q
  OBVIOUS
<1>8. s = k + x /\ x \in 0..(m - 1)
  BY <1>5, <1>6, <1>7
<1>9. s % m = x
  <2>1. s = m * q + x /\ s \in Int
    BY <1>7, <1>8
  <2> QED
    BY <1>8, <2>1, ModUnique
<1>10. s \div m = t \div m
  <2>1. s % m <= t % m /\ t - s = (t % m) - (s % m)
    BY <1>5, <1>6, <1>9
  <2> QED
    BY <1>6, <2>1, TurnFacts
<1> QED
  BY <1>5, <1>6, <1>9, <1>10

(* When a datagram that waits was queued.                                  *)
LEMMA SinceFacts ==
  ASSUME IInv, NEW v \in Waiter, AskedFor(v)
  PROVE  /\ Since(v) \in Nat /\ Since(v) <= time /\ time - Since(v) <= RetryTime
         /\ Turn(Since(v)) = Turn(time)
         /\ Since(v) % ClockSize = v.enqueue_time
<1>1. PICK m \in Nat \ {0}, t \in Nat : m = ClockSize /\ t = time
  BY StateFacts
<1>2. PICK x : x = v.enqueue_time
  OBVIOUS
<1>3. nic.now = t % m
  BY <1>1 DEF IInv, OnTime
<1>4. x \in 0..(t % m)
  <2>1. x \in Nat /\ x <= nic.now /\ nic.now \in Nat
    BY <1>2, StateFacts DEF Waiter, Clock, AskedFor
  <2> QED
    BY <1>3, <2>1
<1>5. PICK s : s = t - ((t % m) - x)
  OBVIOUS
<1>6. s \in Nat /\ s <= t /\ s % m = x /\ s \div m = t \div m
  BY <1>4, <1>5, BackFacts
<1>7. Since(v) = s
  BY <1>1, <1>2, <1>3, <1>5 DEF Since
<1> QED
  BY <1>1, <1>2, <1>6, <1>7 DEF AskedFor, Turn

(* Whether an entry survives a tick, by the clock and by the time.         *)
LEMMA EntrySurvives ==
  ASSUME IInv, NEW ms \in Step, NEW ip \in DOMAIN heard
  PROVE  AtLeast((nic.now + ms) % ClockSize, nic.arp_cache[ip].cache_time, EntryTime)
           <=> ~Lasts(heard[ip].at, time + ms)
<1>1. PICK m \in Nat \ {0}, t \in Nat : m = ClockSize /\ t = time
  BY StateFacts
<1>2. PICK at \in Nat : at = heard[ip].at /\ at <= t
  BY <1>1, StateFacts
<1>3. at \div m = t \div m /\ t - at < EntryTime
  BY <1>1, <1>2 DEF IInv, Remembers, Lasts, Turn
<1>4. ms \in Nat /\ EntryTime \in Nat /\ EntryTime + ms <= m
  BY <1>1, ClockAssumption
<1>5. /\ at % m \in Nat /\ (t + ms) % m \in Nat
      /\ at \div m = (t + ms) \div m =>
           at % m <= (t + ms) % m /\ (t + ms) - at = ((t + ms) % m) - (at % m)
      /\ at \div m # (t + ms) \div m => at % m > (t + ms) % m
  <2>1. PICK d \in Nat, old \in Nat : d = ms /\ old = EntryTime
    BY <1>4
  <2>2. at <= t /\ old + d <= m /\ at \div m = t \div m /\ t - at < old
    BY <1>2, <1>3, <1>4, <2>1
  <2>3. /\ at % m \in Nat /\ (t + d) % m \in Nat
        /\ at \div m = (t + d) \div m =>
             at % m <= (t + d) % m /\ (t + d) - at = ((t + d) % m) - (at % m)
        /\ at \div m # (t + d) \div m => at % m > (t + d) % m
    BY <2>2, AgeFacts
  <2> QED
    BY <2>1, <2>3
<1>6. (nic.now + ms) % ClockSize = (t + ms) % m
  <2>1. t \in Int /\ ms \in Int
    BY <1>4
  <2>2. (t + ms) % m = ((t % m) + ms) % m
    BY <2>1, ModAdd, Zenon
  <2> QED
    BY <1>1, <2>2 DEF IInv, OnTime
<1>7. nic.arp_cache[ip].cache_time = at % m
  <2>1. nic.arp_cache[ip].cache_time = heard[ip].at % ClockSize
    <3>1. nic.arp_cache[ip] = [address |-> heard[ip].ethernet,
                               cache_time |-> heard[ip].at % ClockSize]
      BY Zenon DEF IInv, Remembers
    <3>2. PICK c : c = heard[ip].at % ClockSize
      OBVIOUS
    <3> QED
      BY <3>1, <3>2
  <2> QED
    BY <1>1, <1>2, <2>1
<1>8. PICK u \in Nat, x \in Nat, y \in Nat :
        u = t + ms /\ x = at % m /\ y = (t + ms) % m
  BY <1>4, <1>5
<1>9. /\ at \div m = u \div m => x <= y /\ u - at = y - x
      /\ at \div m # u \div m => x > y
  BY <1>5, <1>8
<1>10. AtLeast(y, x, EntryTime) <=> ~(at \div m = u \div m /\ u - at < EntryTime)
  BY <1>4, <1>9 DEF AtLeast
<1> QED
  BY <1>1, <1>2, <1>6, <1>7, <1>8, <1>10 DEF Lasts, Turn

(* Whether a datagram goes on waiting, by the clock and by the time.       *)
LEMMA DatagramSurvives ==
  ASSUME IInv, NEW ms \in Step, NEW v \in Waiter, AskedFor(v),
         NEW now, now = (nic.now + ms) % ClockSize
  PROVE  /\ AtMost(now, v.enqueue_time, RetryTime) <=>
              /\ Turn(Since(v)) = Turn(time + ms)
              /\ (time + ms) - Since(v) <= RetryTime
         /\ AtMost(now, v.enqueue_time, RetryTime) =>
              /\ v.enqueue_time <= now
              /\ (time + ms) - (now - v.enqueue_time) = Since(v)
<1>1. PICK m \in Nat \ {0}, t \in Nat : m = ClockSize /\ t = time
  BY StateFacts
<1>2. PICK at \in Nat : at = Since(v) /\ at <= t
  BY <1>1, SinceFacts
<1>3. at \div m = t \div m /\ t - at <= RetryTime /\ at % m = v.enqueue_time
  BY <1>1, <1>2, SinceFacts DEF Turn
<1>4. ms \in Nat /\ EntryTime \in Nat /\ EntryTime + ms <= m
      /\ RetryTime \in Nat /\ RetryTime < EntryTime
  BY <1>1, ClockAssumption
<1>5. t - at < EntryTime
  BY <1>3, <1>4
<1>6. /\ at % m \in Nat /\ (t + ms) % m \in Nat
      /\ at \div m = (t + ms) \div m =>
           at % m <= (t + ms) % m /\ (t + ms) - at = ((t + ms) % m) - (at % m)
      /\ at \div m # (t + ms) \div m => at % m > (t + ms) % m
  <2>1. PICK d \in Nat, old \in Nat : d = ms /\ old = EntryTime
    BY <1>4
  <2>2. at <= t /\ old + d <= m /\ at \div m = t \div m /\ t - at < old
    BY <1>2, <1>3, <1>4, <1>5, <2>1
  <2>3. /\ at % m \in Nat /\ (t + d) % m \in Nat
        /\ at \div m = (t + d) \div m =>
             at % m <= (t + d) % m /\ (t + d) - at = ((t + d) % m) - (at % m)
        /\ at \div m # (t + d) \div m => at % m > (t + d) % m
    BY <2>2, AgeFacts
  <2> QED
    BY <2>1, <2>3
<1>7. now = (t + ms) % m
  <2>1. t \in Int /\ ms \in Int
    BY <1>4
  <2>2. (t + ms) % m = ((t % m) + ms) % m
    BY <2>1, ModAdd, Zenon
  <2> QED
    BY <1>1, <2>2 DEF IInv, OnTime
<1>8. PICK u \in Nat, x \in Nat, y \in Nat :
        u = t + ms /\ x = at % m /\ y = (t + ms) % m
  BY <1>4, <1>6
<1>9. /\ at \div m = u \div m => x <= y /\ u - at = y - x
      /\ at \div m # u \div m => x > y
  BY <1>6, <1>8
<1>10. AtMost(y, x, RetryTime) <=> at \div m = u \div m /\ u - at <= RetryTime
  BY <1>4, <1>9 DEF AtMost
<1>11. AtMost(y, x, RetryTime) => x <= y /\ u - (y - x) = at
  BY <1>9, <1>10
<1> QED
  BY <1>1, <1>2, <1>3, <1>7, <1>8, <1>10, <1>11 DEF Turn

(* What is past stays past.                                                *)
LEMMA PastStays ==
  ASSUME IInv, NEW ms \in Step, NEW ip \in DOMAIN asked, Past(ip),
         ~(ip \in DOMAIN heard /\ Lasts(heard[ip].at, time + ms)
             /\ heard[ip].at >= asked[ip])
  PROVE  \/ (time + ms) - asked[ip] >= RetryTime
         \/ Turn(asked[ip]) # Turn(time + ms)
<1>1. PICK m \in Nat \ {0}, t \in Nat : m = ClockSize /\ t = time
  BY StateFacts
<1>2. PICK r \in Nat : r = asked[ip] /\ r <= t
  BY <1>1, StateFacts
<1>3. PICK u \in Nat : u = t + ms /\ t <= u
  BY ClockAssumption
<1>4. r \div m \in Int /\ t \div m \in Int /\ u \div m \in Int
      /\ r \div m <= t \div m /\ t \div m <= u \div m
  BY <1>2, <1>3, TurnFacts
<1>5. RetryTime \in Nat /\ EntryTime \in Nat /\ RetryTime < EntryTime
  BY ClockAssumption
<1>6. CASE time - asked[ip] >= RetryTime
  BY <1>1, <1>2, <1>3, <1>5, <1>6
<1>7. CASE Turn(asked[ip]) # Turn(time)
  BY <1>1, <1>2, <1>3, <1>4, <1>7 DEF Turn
<1>8. CASE ip \in DOMAIN heard /\ heard[ip].at >= asked[ip]
  <2>1. PICK at \in Nat : at = heard[ip].at /\ at <= t /\ r <= at
    BY <1>1, <1>2, <1>8, StateFacts
  <2>2. ~(at \div m = u \div m /\ u - at < EntryTime)
    BY <1>1, <1>3, <1>8, <2>1 DEF Lasts, Turn
  <2>3. at \div m \in Int /\ r \div m <= at \div m /\ at \div m <= t \div m
    BY <2>1, TurnFacts
  <2>4. CASE u - at >= EntryTime
    <3>1. u - r >= RetryTime
      BY <1>5, <2>1, <2>4
    <3> QED
      BY <1>1, <1>2, <1>3, <3>1
  <2>5. CASE at \div m # u \div m
    <3>1. r \div m # u \div m
      BY <1>4, <2>3, <2>5
    <3> QED
      BY <1>1, <1>2, <1>3, <3>1 DEF Turn
  <2>6. u - at \in Int
    BY <2>1
  <2> QED
    BY <1>5, <2>2, <2>4, <2>5, <2>6
<1> QED
  BY <1>6, <1>7, <1>8 DEF Past

(* A tick of the clock.                                                    *)
LEMMA TickHolds ==
  ASSUME IInv, NEW ms \in Step, Tick(ms)
  PROVE  IInv'
<1>1. /\ time' = time + ms /\ nic' = tick(nic, ms) /\ asked' = asked
      /\ heard' = Restrict(heard, {ip \in DOMAIN heard : Lasts(heard[ip].at, time')})
  BY DEF Tick
<1>2. ms \in Nat /\ time \in Nat /\ time' \in Nat /\ time <= time'
      /\ ClockSize \in Nat \ {0}
  BY <1>1, StateFacts, ClockAssumption
<1>3. PICK now : now = (nic.now + ms) % ClockSize
  OBVIOUS
<1>4. /\ nic' \in Interface /\ nic'.now = now
      /\ nic'.arp_cache = Restrict(nic.arp_cache, LiveAt(nic, now))
      /\ nic'.arp_request_time = nic.arp_request_time
      /\ nic'.ip_frames_out = Chosen(nic.ip_frames_out, FreshAt(nic, now))
  <2>1. nic \in Interface
    BY DEF IInv
  <2> QED
    BY <1>1, <1>2, <1>3, <2>1, TickFacts
<1>5. OnTime'
  <2>1. PICK t \in Int, d \in Int, m \in Nat \ {0} : t = time /\ d = ms /\ m = ClockSize
    BY <1>2
  <2>2. (t + d) % m = ((t % m) + d) % m
    BY ModAdd
  <2>3. nic.now = t % m
    BY <2>1 DEF IInv, OnTime
  <2> QED
    BY <1>1, <1>2, <1>3, <1>4, <2>1, <2>2, <2>3 DEF OnTime
<1>6. PICK alive : alive = {ip \in DOMAIN heard : Lasts(heard[ip].at, time + ms)}
  OBVIOUS
<1>7. LiveAt(nic, now) = alive
  <2>1. DOMAIN nic.arp_cache = DOMAIN heard
    BY DEF IInv, Remembers
  <2>2. \A ip \in DOMAIN heard :
          AtLeast(now, nic.arp_cache[ip].cache_time, EntryTime)
            <=> ~Lasts(heard[ip].at, time + ms)
    BY <1>3, EntrySurvives
  <2> QED
    BY <1>6, <2>1, <2>2 DEF LiveAt
<1>8. /\ DOMAIN heard' = alive /\ DOMAIN nic'.arp_cache = alive
      /\ \A ip \in alive : heard'[ip] = heard[ip] /\ nic'.arp_cache[ip] = nic.arp_cache[ip]
      /\ heard' = [ip \in DOMAIN heard' |-> heard'[ip]]
      /\ alive \subseteq DOMAIN heard
  <2>1. heard' = Restrict(heard, alive)
    BY <1>1, <1>6
  <2>2. nic'.arp_cache = Restrict(nic.arp_cache, alive)
    BY <1>4, <1>7
  <2> QED
    BY <1>6, <2>1, <2>2 DEF Restrict
<1>9. Remembers'
  <2>1. PICK S, T : S = [ethernet : AllEthernet, at : 0..time]
                    /\ T = [ethernet : AllEthernet, at : 0..time']
    OBVIOUS
  <2>2. S \subseteq T
    <3>1. 0..time \subseteq 0..time'
      BY <1>2
    <3> QED
      BY <2>1, <3>1
  <2>3. heard \in Partial(AllIP, S)
    BY <2>1 DEF IInv, Remembers
  <2>4. DOMAIN heard \subseteq AllIP /\ \A ip \in DOMAIN heard : heard[ip] \in T
    BY <2>2, <2>3, PartialFacts
  <2>5. heard' \in Partial(AllIP, T)
    <3>1. PICK f : f = heard'
      OBVIOUS
    <3>2. DOMAIN f \subseteq AllIP /\ f = [ip \in DOMAIN f |-> f[ip]]
          /\ \A ip \in DOMAIN f : f[ip] \in T
      BY <1>8, <2>4, <3>1
    <3> QED
      BY <3>1, <3>2, PartialFacts
  <2>6. ASSUME NEW ip \in DOMAIN heard'
        PROVE  /\ Lasts(heard'[ip].at, time')
               /\ nic'.arp_cache[ip] = [address |-> heard'[ip].ethernet,
                                        cache_time |-> heard'[ip].at % ClockSize]
    <3>1. ip \in DOMAIN heard /\ heard'[ip] = heard[ip]
          /\ nic'.arp_cache[ip] = nic.arp_cache[ip]
      BY <1>8
    <3>2. Lasts(heard[ip].at, time')
      BY <1>1, <1>6, <1>8
    <3>3. nic.arp_cache[ip] = [address |-> heard[ip].ethernet,
                               cache_time |-> heard[ip].at % ClockSize]
      BY <3>1, Zenon DEF IInv, Remembers
    <3> QED
      BY <3>1, <3>2, <3>3
  <2> QED
    BY <1>8, <2>1, <2>5, <2>6 DEF Remembers, Lasts
<1>10. Asks'
  <2>1. asked' \in Partial(Hop, 0..time')
    <3>1. PICK S, T : S = 0..time /\ T = 0..time'
      OBVIOUS
    <3>2. S \subseteq T
      BY <1>2, <3>1
    <3>3. asked \in Partial(Hop, S)
      BY <3>1 DEF IInv, Asks
    <3>4. asked \in Partial(Hop, T)
      BY <3>2, <3>3, PartialFacts
    <3> QED
      BY <1>1, <3>1, <3>4
  <2>2. DOMAIN nic'.arp_request_time \subseteq DOMAIN asked'
    BY <1>1, <1>4 DEF IInv, Asks
  <2>3. ASSUME NEW ip \in DOMAIN asked, Past(ip)
        PROVE  Past(ip)'
    <3>1. CASE /\ ip \in DOMAIN heard /\ Lasts(heard[ip].at, time + ms)
               /\ heard[ip].at >= asked[ip]
      <4>1. ip \in alive
        BY <1>6, <3>1
      <4> QED
        BY <1>1, <1>8, <3>1, <4>1 DEF Past
    <3>2. CASE ~(/\ ip \in DOMAIN heard /\ Lasts(heard[ip].at, time + ms)
                 /\ heard[ip].at >= asked[ip])
      <4>1. \/ (time + ms) - asked[ip] >= RetryTime
            \/ Turn(asked[ip]) # Turn(time + ms)
        BY <2>3, <3>2, PastStays
      <4> QED
        BY <1>1, <4>1 DEF Past
    <3> QED
      BY <3>1, <3>2
  <2>4. ASSUME NEW ip \in DOMAIN asked'
        PROVE  IF ip \in DOMAIN nic'.arp_request_time
               THEN nic'.arp_request_time[ip] = asked'[ip] % ClockSize
               ELSE Past(ip)'
    <3>1. IF ip \in DOMAIN nic.arp_request_time
          THEN nic.arp_request_time[ip] = asked[ip] % ClockSize
          ELSE Past(ip)
      BY <1>1 DEF IInv, Asks
    <3> QED
      BY <1>1, <1>4, <2>3, <3>1
  <2> QED
    BY <2>1, <2>2, <2>4 DEF Asks
<1>11. WaitingIsAsked'
  <2>1. PICK queue : queue = nic.ip_frames_out /\ queue \in Seq(Waiter)
    BY StateFacts
  <2>2. PICK rest : rest = Chosen(queue, FreshAt(nic, now))
    OBVIOUS
  <2>3. /\ rest \in Seq(Waiter)
        /\ \A j \in DOMAIN rest :
             \E i \in DOMAIN queue : i \in FreshAt(nic, now) /\ rest[j] = queue[i]
    BY <2>1, <2>2, ChosenFacts
  <2>4. ASSUME NEW j \in DOMAIN rest
        PROVE  AskedFor(rest[j])'
    <3>1. PICK i \in DOMAIN queue : i \in FreshAt(nic, now) /\ rest[j] = queue[i]
      BY <2>3
    <3>2. PICK v \in Waiter : v = queue[i]
      BY <2>1
    <3>3. AskedFor(v) /\ AtMost(now, v.enqueue_time, RetryTime)
      BY <2>1, <3>1, <3>2, WaitingSplits DEF IInv, FreshAt
    <3>4. /\ Turn(Since(v)) = Turn(time + ms)
          /\ (time + ms) - Since(v) <= RetryTime
          /\ v.enqueue_time <= now
          /\ (time + ms) - (now - v.enqueue_time) = Since(v)
      BY <1>3, <3>3, DatagramSurvives
    <3>5. Since(v)' = Since(v)
      BY <1>1, <1>4, <3>4 DEF Since
    <3>6. v.next_hop \notin DOMAIN nic'.arp_cache
      BY <1>8, <3>3 DEF AskedFor, IInv, Remembers
    <3>7. AskedFor(v)'
      BY <1>1, <1>4, <3>3, <3>4, <3>5, <3>6 DEF AskedFor
    <3> QED
      BY <3>1, <3>2, <3>7
  <2>5. nic'.ip_frames_out = rest
    BY <1>4, <2>1, <2>2
  <2> QED
    BY <2>4, <2>5 DEF WaitingIsAsked, AskedFor, Since
<1> QED
  BY <1>4, <1>5, <1>9, <1>10, <1>11 DEF IInv

(* Every step preserves the invariant.                                     *)
LEMMA StepHolds ==
  ASSUME IInv, [Next]_vars
  PROVE  IInv'
<1>1. CASE \E dgram \in Datagram, hop \in Hop : Send(dgram, hop)
  BY <1>1, SendHolds
<1>2. CASE \E message \in ArpMessages : \E dst \in {OwnEthernet, Broadcast} :
             HearArp(message, dst)
  BY <1>2, HearHolds
<1>3. CASE \E message \in ArpMessages : \E dst \in Ethernet : Overhear(message, dst)
  BY <1>3, OverhearHolds
<1>4. CASE \E ms \in Step : Tick(ms)
  BY <1>4, TickHolds
<1>5. CASE UNCHANGED vars
  BY <1>5 DEF vars, IInv, OnTime, Remembers, Asks, Past, WaitingIsAsked, Since
<1> QED
  BY <1>1, <1>2, <1>3, <1>4, <1>5 DEF Next

(* The inductive invariant: the clock is the time but for its turns, the   *)
(* cache is what was heard and still lasts, the records of requests are    *)
(* those of the last ones or are past.                                     *)
THEOREM Invariant == Spec => []IInv
BY InitHolds, StepHolds, PTL DEF Spec

(* Type correctness: all the NetworkInterface keeps has the width of its   *)
(* clock, and it asks only for next hops it was given.                     *)
THEOREM TypeCorrect == Spec => []TypeOK
<1>1. IInv => TypeOK
  <2>1. SUFFICES ASSUME IInv PROVE TypeOK
    OBVIOUS
  <2>2. PICK W : W = [dgram : Datagram, next_hop : Hop, enqueue_time : Clock]
    OBVIOUS
  <2>3. PICK E : E = [address : AllEthernet, cache_time : Clock]
    OBVIOUS
  <2>4. Waiter = W /\ Entry = E
    BY <2>2, <2>3 DEF Waiter, Entry
  <2>5. /\ nic.ethernet_address = OwnEthernet /\ nic.ip_address = OwnIP
        /\ nic.now \in Clock /\ nic.datagrams_received = << >>
        /\ nic.ip_frames_out \in Seq(Waiter)
        /\ nic.arp_cache \in Partial(AllIP, Entry)
        /\ nic.arp_request_time \in Partial(Hop, Clock)
    BY <2>1 DEF IInv, Interface
  <2> QED
    BY <2>2, <2>3, <2>4, <2>5 DEF TypeOK
<1> QED
  BY <1>1, Invariant, PTL

(* A datagram that waits in ip_frames_out waits for an address that is not *)
(* known, for RetryTime at most, and that address was asked for in the     *)
(* RetryTime before it was queued, or in another turn of the clock.        *)
THEOREM WaitingWasAskedFor == Spec => []WaitingIsAsked
<1>1. IInv => WaitingIsAsked
  BY DEF IInv
<1> QED
  BY <1>1, Invariant, PTL

(* send_datagram() repeats a request for an address only when the last one *)
(* is RetryTime ago in real time, was answered, or was made in another     *)
(* turn of the clock.                                                      *)
THEOREM RequestsStayApart == Spec => RequestsApart
<1> DEFINE Apart(ip) == \/ time - asked[ip] >= RetryTime
                        \/ ip \in DOMAIN heard /\ heard[ip].at >= asked[ip]
                        \/ Turn(time) # Turn(asked[ip])
<1>1. ASSUME IInv, Next
      PROVE  \A ip \in requested' \cap DOMAIN asked : Apart(ip)
  <2>1. CASE \E dgram \in Datagram, hop \in Hop : Send(dgram, hop)
    <3>1. PICK dgram \in Datagram, hop \in Hop : Send(dgram, hop)
      BY <2>1
    <3>2. PICK result : result = send_datagram(nic, dgram, hop)
      OBVIOUS
    <3>3. requested' = Requested(result.frames)
      BY <1>1, <3>1, <3>2, AskedNext DEF Send
    <3>4. nic \in Interface
      BY <1>1 DEF IInv
    <3>5. requested' = {} \/ (requested' = {hop} /\ MayAsk(nic, hop))
      BY <3>2, <3>3, <3>4, SendKnown, SendUnknown
    <3>6. MayAsk(nic, hop) /\ hop \in DOMAIN asked => Past(hop)
      BY <1>1, MayAskFacts
    <3> QED
      BY <3>5, <3>6 DEF Past
  <2>2. CASE \E message \in ArpMessages : \E dst \in {OwnEthernet, Broadcast} :
               HearArp(message, dst)
    <3>1. requested' = {}
      BY <1>1, <2>2, HearEffect
    <3> QED
      BY <3>1
  <2>3. CASE \E message \in ArpMessages : \E dst \in Ethernet : Overhear(message, dst)
    <3>1. requested' = {}
      BY <1>1, <2>3, OverhearHolds
    <3> QED
      BY <3>1
  <2>4. CASE \E ms \in Step : Tick(ms)
    BY <2>4 DEF Tick, Quiet
  <2> QED
    BY <1>1, <2>1, <2>2, <2>3, <2>4 DEF Next
<1>2. IInv /\ [Next]_vars =>
        [\A ip \in requested' \cap DOMAIN asked : Apart(ip)]_vars
  BY <1>1
<1> QED
  BY <1>2, Invariant, PTL DEF Spec, RequestsApart
-----------------------------------------------------------------------------
(* The datagrams that wait, as LinkSpec sees them: in real time.           *)
AsSeen(now, t) ==
  [v \in Waiter |-> [dgram |-> v.dgram, hop |-> v.next_hop,
                     since |-> t - (now - v.enqueue_time)]]

(* Waiting is the queue, each datagram seen in real time.                  *)
LEMMA WaitingFacts ==
  nic \in Interface => Waiting = Seen(nic.ip_frames_out, AsSeen(nic.now, time))
<1>1. SUFFICES ASSUME nic \in Interface
               PROVE  Waiting = Seen(nic.ip_frames_out, AsSeen(nic.now, time))
  OBVIOUS
<1>2. PICK queue : queue = nic.ip_frames_out /\ queue \in Seq(Waiter)
  BY <1>1 DEF Interface
<1>3. PICK now, t : now = nic.now /\ t = time
  OBVIOUS
<1>4. ASSUME NEW i \in DOMAIN queue
      PROVE  AsSeen(now, t)[queue[i]] =
               [dgram |-> queue[i].dgram, hop |-> queue[i].next_hop,
                since |-> t - (now - queue[i].enqueue_time)]
  <2>1. queue[i] \in Waiter
    BY <1>2
  <2> QED
    BY <2>1 DEF AsSeen
<1>5. Waiting = [i \in DOMAIN queue |->
                   [dgram |-> queue[i].dgram, hop |-> queue[i].next_hop,
                    since |-> t - (now - queue[i].enqueue_time)]]
  BY <1>2, <1>3 DEF Waiting, Since
<1> QED
  BY <1>2, <1>3, <1>4, <1>5 DEF Seen

(* A datagram as it is seen.                                               *)
LEMMA SeenFacts ==
  ASSUME NEW queue \in Seq(Waiter), NEW now, NEW t
  PROVE  /\ DOMAIN Seen(queue, AsSeen(now, t)) = DOMAIN queue
         /\ \A i \in DOMAIN queue :
              /\ queue[i] \in Waiter
              /\ Seen(queue, AsSeen(now, t))[i].dgram = queue[i].dgram
              /\ Seen(queue, AsSeen(now, t))[i].hop = queue[i].next_hop
              /\ Seen(queue, AsSeen(now, t))[i].since
                   = t - (now - queue[i].enqueue_time)
<1>1. \A i \in DOMAIN queue : queue[i] \in Waiter
  OBVIOUS
<1> QED
  BY <1>1 DEF Seen, AsSeen

(* LinkSpec chooses as the interface does.                                 *)
LEMMA LinkChooses ==
  ASSUME NEW s, NEW I
  PROVE  Link!Chosen(s, I) = Chosen(s, I)
BY DEF Link!Chosen, Link!Ascending, Chosen, Ascending

(* The same of the next state.                                             *)
LEMMA WaitingNext ==
  ASSUME nic' \in Interface
  PROVE  Waiting' = Seen(nic'.ip_frames_out, AsSeen(nic'.now, time'))
<1>1. (nic \in Interface => Waiting = Seen(nic.ip_frames_out, AsSeen(nic.now, time)))'
  BY WaitingFacts, PTL
<1> QED
  BY <1>1

(* A new interface is a new link.                                          *)
LEMMA InitImplements == Init => Link!Init
<1>1. SUFFICES ASSUME Init PROVE Link!Init
  OBVIOUS
<1>2. nic.ip_frames_out = << >> /\ time = 0 /\ heard = << >> /\ left = << >>
  BY <1>1 DEF Init, NewInterface
<1>3. Waiting = << >>
  BY <1>2 DEF Waiting
<1> QED
  BY <1>2, <1>3 DEF Link!Init

(* A datagram that is sent leaves, or waits.                               *)
LEMMA SendImplements ==
  ASSUME IInv, NEW dgram \in Datagram, NEW hop \in Hop, Send(dgram, hop)
  PROVE  Link!Leave(hop) \/ Link!Wait(hop)
<1>1. PICK result : result = send_datagram(nic, dgram, hop)
  OBVIOUS
<1>2. Becomes(result) /\ time' = time /\ heard' = heard
  BY <1>1 DEF Send
<1>3. nic' = result.nic /\ left' = Left(result.frames)
  BY <1>2, AskedNext
<1>4. nic \in Interface /\ DOMAIN nic.arp_cache = DOMAIN heard
  BY DEF IInv, Remembers
<1>5. CASE hop \in DOMAIN nic.arp_cache
  <2>1. nic' = nic /\ left' = <<[dgram |-> dgram, to |-> nic.arp_cache[hop].address]>>
    BY <1>1, <1>3, <1>5, SendKnown
  <2>2. nic.arp_cache[hop].address = heard[hop].ethernet
    <3>1. nic.arp_cache[hop] = [address |-> heard[hop].ethernet,
                                cache_time |-> heard[hop].at % ClockSize]
      BY <1>4, <1>5, Zenon DEF IInv, Remembers
    <3>2. PICK c : c = heard[hop].at % ClockSize
      OBVIOUS
    <3> QED
      BY <3>1, <3>2
  <2>3. Waiting' = Waiting
    BY <1>2, <2>1 DEF Waiting, Since
  <2>4. Link!Known(hop)
    BY <1>4, <1>5 DEF Link!Known
  <2> QED
    BY <1>2, <2>1, <2>2, <2>3, <2>4 DEF Link!Leave
<1>6. CASE hop \notin DOMAIN nic.arp_cache
  <2>1. PICK w : w = [dgram |-> dgram, next_hop |-> hop, enqueue_time |-> nic.now]
    OBVIOUS
  <2>2. /\ nic' \in Interface /\ nic'.now = nic.now
        /\ nic'.ip_frames_out = Append(nic.ip_frames_out, w)
        /\ left' = << >>
    BY <1>1, <1>3, <1>4, <1>6, <2>1, SendUnknown
  <2>3. PICK queue, F : /\ queue = nic.ip_frames_out /\ queue \in Seq(Waiter)
                        /\ F = AsSeen(nic.now, time)
    BY <1>4 DEF Interface
  <2>4. Waiting = Seen(queue, F)
    BY <1>4, <2>3, WaitingFacts
  <2>5. Waiting' = Seen(Append(queue, w), F)
    <3>1. Waiting' = Seen(nic'.ip_frames_out, AsSeen(nic'.now, time'))
      BY <2>2, WaitingNext
    <3> QED
      BY <1>2, <2>2, <2>3, <3>1
  <2>6. w \in Waiter /\ F[w] = [dgram |-> dgram, hop |-> hop, since |-> time]
    <3>1. w \in Waiter
      BY <1>4, <2>1 DEF Waiter, Interface
    <3>2. time - (nic.now - w.enqueue_time) = time
      BY <2>1, StateFacts
    <3>3. w.dgram = dgram /\ w.next_hop = hop
      BY <2>1
    <3> QED
      BY <2>3, <3>1, <3>2, <3>3 DEF AsSeen
  <2>7. Seen(Append(queue, w), F) = Append(Seen(queue, F), F[w])
    <3>1. PICK n \in Nat : n = Len(queue) /\ DOMAIN queue = 1..n
      BY <2>3, LenProperties
    <3>2. PICK longer : longer = Append(queue, w)
      OBVIOUS
    <3>3. /\ DOMAIN longer = 1..(n + 1) /\ longer[n + 1] = w
          /\ \A i \in 1..n : longer[i] = queue[i]
      BY <2>3, <2>6, <3>1, <3>2
    <3>4. PICK seen : seen = Seen(queue, F)
      OBVIOUS
    <3>5. /\ seen = [i \in 1..n |-> F[queue[i]]]
          /\ DOMAIN seen = 1..n /\ Len(seen) = n
          /\ \A i \in 1..n : seen[i] = F[queue[i]]
      BY <3>1, <3>4 DEF Seen
    <3>6. Append(seen, F[w]) = [i \in 1..(n + 1) |-> IF i <= n THEN seen[i] ELSE F[w]]
      BY <3>5
    <3>7. Seen(longer, F) = [i \in 1..(n + 1) |-> F[longer[i]]]
      BY <3>3 DEF Seen
    <3>8. ASSUME NEW k \in 1..(n + 1)
          PROVE  F[longer[k]] = IF k <= n THEN seen[k] ELSE F[w]
      BY <3>3, <3>5
    <3> QED
      BY <3>2, <3>4, <3>6, <3>7, <3>8
  <2>8. ~Link!Known(hop)
    BY <1>4, <1>6 DEF Link!Known
  <2> QED
    BY <1>2, <2>2, <2>4, <2>5, <2>6, <2>7, <2>8 DEF Link!Wait
<1> QED
  BY <1>5, <1>6

(* An address that is learnt: what waited for it leaves, in its order, and *)
(* all the rest goes on waiting, for none of it is too old.                *)
LEMMA HearImplements ==
  ASSUME IInv, NEW message \in ArpMessages, NEW dst \in {OwnEthernet, Broadcast},
         HearArp(message, dst)
  PROVE  \E ip \in AllIP, ethernet \in AllEthernet : Link!Announce(ip, ethernet)
<1>1. PICK ip \in AllIP, ethernet \in AllEthernet :
        /\ heard' = Put(heard, ip, [ethernet |-> ethernet, at |-> time])
        /\ time' = time /\ nic' \in Interface /\ nic'.now = nic.now
        /\ nic'.ip_frames_out = Chosen(nic.ip_frames_out, Kept(nic, ip))
        /\ left' = LeavingTo(Chosen(nic.ip_frames_out, Mine(nic, ip)), ethernet)
  BY HearEffect
<1>2. PICK queue, now, t, F :
        /\ queue = nic.ip_frames_out /\ queue \in Seq(Waiter)
        /\ now = nic.now /\ t = time /\ F = AsSeen(now, t)
  BY StateFacts
<1>3. PICK seen : seen = Seen(queue, F)
  OBVIOUS
<1>4. Waiting = seen
  BY <1>2, <1>3, WaitingFacts DEF IInv
<1>5. /\ DOMAIN seen = DOMAIN queue
      /\ \A i \in DOMAIN queue : /\ queue[i] \in Waiter
                                 /\ seen[i].hop = queue[i].next_hop
  BY <1>2, <1>3, SeenFacts
<1>6. PICK its : its = {i \in DOMAIN seen : seen[i].hop = ip}
  OBVIOUS
<1>7. Mine(nic, ip) = its
  BY <1>2, <1>5, <1>6 DEF Mine
<1>8. Kept(nic, ip) = DOMAIN seen \ its
  <2>1. ASSUME NEW i \in DOMAIN queue
        PROVE  Fresh(nic, queue[i])
    <3>1. PICK v \in Waiter : v = queue[i]
      BY <1>5
    <3>2. AskedFor(v)
      BY <1>2, <3>1, WaitingSplits DEF IInv
    <3>3. v.enqueue_time \in Nat
      BY StateFacts DEF Waiter, Clock
    <3>4. time - (nic.now - v.enqueue_time) = Since(v)
      BY DEF Since
    <3>5. nic.now - v.enqueue_time <= RetryTime /\ v.enqueue_time <= nic.now
      BY <3>2, <3>3, <3>4, StateFacts DEF AskedFor
    <3> QED
      BY <3>1, <3>5 DEF Fresh, AtMost
  <2> QED
    BY <1>2, <1>5, <1>6, <2>1 DEF Kept
<1>9. Waiting' = Chosen(seen, DOMAIN seen \ its)
  <2>1. Waiting' = Seen(nic'.ip_frames_out, AsSeen(nic'.now, time'))
    BY <1>1, WaitingNext
  <2>2. Waiting' = Seen(Chosen(queue, DOMAIN seen \ its), F)
    BY <1>1, <1>2, <1>8, <2>1
  <2> QED
    BY <1>2, <1>3, <2>2, ChosenSeen
<1>10. left' = LeavingTo(Chosen(seen, its), ethernet)
  <2>1. PICK leaving : leaving = Chosen(queue, its)
    OBVIOUS
  <2>2. leaving \in Seq(Waiter)
    BY <1>2, <2>1, ChosenFacts
  <2>3. Chosen(seen, its) = Seen(leaving, F)
    BY <1>2, <1>3, <2>1, ChosenSeen
  <2>4. PICK going : going = Seen(leaving, F)
    OBVIOUS
  <2>5. /\ DOMAIN going = DOMAIN leaving
        /\ \A i \in DOMAIN leaving : going[i].dgram = leaving[i].dgram
    BY <1>2, <2>2, <2>4, SeenFacts
  <2>6. LeavingTo(going, ethernet) = LeavingTo(leaving, ethernet)
    BY <2>5 DEF LeavingTo
  <2> QED
    BY <1>1, <1>2, <1>7, <2>1, <2>3, <2>4, <2>6
<1>11. PICK leaving : leaving = Chosen(seen, its)
  OBVIOUS
<1>12. /\ Link!Chosen(seen, its) = leaving
       /\ Link!Chosen(seen, DOMAIN seen \ its) = Chosen(seen, DOMAIN seen \ its)
  BY <1>11, LinkChooses
<1>13. left' = [i \in DOMAIN leaving |-> [dgram |-> leaving[i].dgram, to |-> ethernet]]
  BY <1>10, <1>11 DEF LeavingTo
<1>14. heard' = [h \in DOMAIN heard \cup {ip} |->
                   IF h = ip THEN [ethernet |-> ethernet, at |-> time] ELSE heard[h]]
  BY <1>1 DEF Put
<1>15. Link!Announce(ip, ethernet)
  <2>1. its = {i \in DOMAIN Waiting : Waiting[i].hop = ip}
    BY <1>4, <1>6
  <2>2. leaving = Link!Chosen(Waiting, its)
    BY <1>4, <1>12
  <2>3. Waiting' = Link!Chosen(Waiting, DOMAIN Waiting \ its)
    BY <1>4, <1>9, <1>12
  <2>4. UNCHANGED time
    BY <1>1
  <2> QED
    BY <1>13, <1>14, <2>1, <2>2, <2>3, <2>4, Zenon DEF Link!Announce
<1> QED
  BY <1>15

(* A frame for somebody else concerns nobody here.                         *)
LEMMA OverhearImplements ==
  ASSUME IInv, NEW message, NEW dst \in Ethernet, Overhear(message, dst)
  PROVE  Link!Idle
<1>1. UNCHANGED <<nic, time, heard>> /\ left' = << >>
  BY OverhearHolds
<1>2. Waiting' = Waiting
  BY <1>1 DEF Waiting, Since
<1> QED
  BY <1>1, <1>2 DEF Link!Idle

(* Time passes: what is too old by the clock is too old by the time.       *)
LEMMA TickImplements ==
  ASSUME IInv, NEW ms \in Step, Tick(ms)
  PROVE  Link!Pass
<1>1. /\ time' = time + ms /\ nic' = tick(nic, ms) /\ left' = << >>
      /\ heard' = Restrict(heard, {ip \in DOMAIN heard : Lasts(heard[ip].at, time')})
  BY DEF Tick, Quiet
<1>2. ms \in Nat \ {0} /\ time \in Nat /\ ClockSize \in Nat \ {0}
  BY StateFacts, ClockAssumption
<1>3. PICK later, t, now, before :
        /\ later = (nic.now + ms) % ClockSize
        /\ t = time + ms /\ now = time /\ before = nic.now
  OBVIOUS
<1>4. /\ nic' \in Interface /\ nic'.now = later
      /\ nic'.ip_frames_out = Chosen(nic.ip_frames_out, FreshAt(nic, later))
  <2>1. nic \in Interface
    BY DEF IInv
  <2> QED
    BY <1>1, <1>2, <1>3, <2>1, TickFacts
<1>5. PICK queue, F, G :
        /\ queue = nic.ip_frames_out /\ queue \in Seq(Waiter)
        /\ F = AsSeen(before, now) /\ G = AsSeen(later, t)
  BY StateFacts
<1>6. PICK seen : seen = Seen(queue, F)
  OBVIOUS
<1>7. Waiting = seen
  BY <1>3, <1>5, <1>6, WaitingFacts DEF IInv
<1>8. /\ DOMAIN seen = DOMAIN queue
      /\ \A i \in DOMAIN queue :
           /\ queue[i] \in Waiter
           /\ seen[i].since = now - (before - queue[i].enqueue_time)
  BY <1>5, <1>6, SeenFacts
<1>9. PICK staying :
        staying = {i \in DOMAIN seen :
                     /\ Link!SameTurn(seen[i].since, time')
                     /\ time' - seen[i].since <= RetryTime}
  OBVIOUS
<1>10. ASSUME NEW i \in DOMAIN queue
       PROVE  /\ i \in FreshAt(nic, later) <=> i \in staying
              /\ i \in staying => F[queue[i]] = G[queue[i]]
  <2>1. PICK v \in Waiter : v = queue[i]
    BY <1>8
  <2>2. AskedFor(v)
    BY <1>5, <2>1, WaitingSplits DEF IInv
  <2>3. seen[i].since = Since(v)
    BY <1>3, <1>8, <2>1 DEF Since
  <2>4. AtMost(later, v.enqueue_time, RetryTime) <=>
          /\ Turn(Since(v)) = Turn(time + ms)
          /\ (time + ms) - Since(v) <= RetryTime
    BY <1>3, <2>2, DatagramSurvives
  <2>5. AtMost(later, v.enqueue_time, RetryTime) =>
          (time + ms) - (later - v.enqueue_time) = Since(v)
    BY <1>3, <2>2, DatagramSurvives
  <2>6. i \in FreshAt(nic, later) <=> AtMost(later, v.enqueue_time, RetryTime)
    BY <1>5, <2>1 DEF FreshAt
  <2>7. i \in staying <=> /\ Turn(Since(v)) = Turn(time + ms)
                          /\ (time + ms) - Since(v) <= RetryTime
    BY <1>1, <1>8, <1>9, <2>3 DEF Link!SameTurn, Turn
  <2>8. i \in staying => t - (later - v.enqueue_time) = now - (before - v.enqueue_time)
    BY <1>3, <2>4, <2>5, <2>7 DEF Since
  <2> QED
    BY <1>5, <2>1, <2>4, <2>6, <2>7, <2>8 DEF AsSeen
<1>11. FreshAt(nic, later) = staying
  BY <1>5, <1>8, <1>9, <1>10 DEF FreshAt
<1>12. Waiting' = Chosen(seen, staying)
  <2>1. Waiting' = Seen(nic'.ip_frames_out, AsSeen(nic'.now, time'))
    BY <1>4, WaitingNext
  <2>2. PICK rest : rest = Chosen(queue, staying)
    OBVIOUS
  <2>3. Waiting' = Seen(rest, G)
    BY <1>1, <1>3, <1>4, <1>5, <1>11, <2>1, <2>2
  <2>4. \A j \in DOMAIN rest : \E i \in DOMAIN queue : i \in staying /\ rest[j] = queue[i]
    BY <1>5, <2>2, ChosenFacts
  <2>5. \A j \in DOMAIN rest : F[rest[j]] = G[rest[j]]
    BY <1>10, <2>4
  <2>6. Seen(rest, G) = Seen(rest, F)
    BY <2>5 DEF Seen
  <2> QED
    BY <1>5, <1>6, <2>2, <2>3, <2>6, ChosenSeen
<1>13. PICK lasting :
         lasting = {hop \in DOMAIN heard :
                      /\ Link!SameTurn(heard[hop].at, time')
                      /\ time' - heard[hop].at < EntryTime}
  OBVIOUS
<1>14. heard' = [hop \in lasting |-> heard[hop]]
  <2>1. lasting = {ip \in DOMAIN heard : Lasts(heard[ip].at, time')}
    BY <1>13 DEF Lasts, Turn, Link!SameTurn
  <2> QED
    BY <1>1, <2>1 DEF Restrict
<1>15. time' > time
  BY <1>1, <1>2
<1>16. Link!Chosen(seen, staying) = Chosen(seen, staying)
  BY LinkChooses
<1> QED
  BY <1>1, <1>7, <1>9, <1>12, <1>13, <1>14, <1>15, <1>16 DEF Link!Pass

(* The NetworkInterface, with a clock of 32 bits that wraps, keeps what    *)
(* LinkSpec promises in real time: a datagram leaves at once for the       *)
(* address its next hop announced last and lately, or waits, and leaves in *)
(* turn as soon as the next hop announces itself or is given up after      *)
(* RetryTime; nothing is sent twice, to anybody else or past another.      *)
THEOREM InterfaceImplementsLink == Spec => ImplementsLink
<1>1. ASSUME IInv, Next
      PROVE  Link!Next
  <2>1. CASE \E dgram \in Datagram, hop \in Hop : Send(dgram, hop)
    <3>1. PICK dgram \in Datagram, hop \in Hop : Send(dgram, hop)
      BY <2>1
    <3>2. hop \in AllIP
      BY DEF AllIP
    <3>3. Link!Leave(hop) \/ Link!Wait(hop)
      BY <1>1, <3>1, SendImplements
    <3> QED
      BY <3>2, <3>3 DEF Link!Next
  <2>2. CASE \E message \in ArpMessages : \E dst \in {OwnEthernet, Broadcast} :
               HearArp(message, dst)
    <3>1. \E ip \in AllIP, ethernet \in AllEthernet : Link!Announce(ip, ethernet)
      BY <1>1, <2>2, HearImplements
    <3> QED
      BY <3>1 DEF Link!Next
  <2>3. CASE \E message \in ArpMessages : \E dst \in Ethernet : Overhear(message, dst)
    <3>1. Link!Idle
      BY <1>1, <2>3, OverhearImplements
    <3> QED
      BY <3>1 DEF Link!Next
  <2>4. CASE \E ms \in Step : Tick(ms)
    <3>1. Link!Pass
      BY <1>1, <2>4, TickImplements
    <3> QED
      BY <3>1 DEF Link!Next
  <2> QED
    BY <1>1, <2>1, <2>2, <2>3, <2>4 DEF Next
<1>2. UNCHANGED vars => UNCHANGED <<time, heard, Waiting, left>>
  BY DEF vars, Waiting, Since
<1>3. IInv /\ [Next]_vars => [Link!Next]_(Link!vars)
  BY <1>1, <1>2 DEF Link!vars
<1> QED
  BY <1>3, InitImplements, Invariant, PTL DEF Spec, ImplementsLink, Link!Spec
=============================================================================
