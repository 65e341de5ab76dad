# A verification project for minnow

This directory holds TLA+ models of the TCP/IP stack of this repository, the TLC
configurations that check them, and proofs for TLAPS. Every definition is translated from
the C++ source; `PROJECT.json` says which lines each stands for. Paths below are relative
to the repository, which `PROJECT.json` calls `src/`.

## The system

```
 application  <-- socket pair -->  TCPMinnowSocket (event loop, own thread)
                                     |  push / tick / receive / active
                                   TCPPeer ---------------------------------+
                                     | TCPSender (outbound ByteStream)      |
                                     | TCPReceiver -> Reassembler -> inbound ByteStream
                                     |  TCPMessage                          |
                                   datagram adapter (listen filter, optional loss)
                                     |  TCPSegment in IP
                                   NetworkInterface (ARP)  --  Router
```

| Component | State | Operations | What makes it correct |
|---|---|---|---|
| ByteStream (`src/byte_stream.*`) | ring buffer, two cursors, two counts, closed, error | push, close, peek, pop, set_error, `read()` | behaves as a bounded FIFO queue; peek never empty while bytes are buffered; nothing after the end |
| Wrap32 (`src/wrapping_integers.*`) | none | wrap, unwrap, + | unwrap returns the nearest number; undoes wrap within half a circle |
| Reassembler (`src/reassembler.*`) | output stream, map of waiting substrings, next index, end of stream | insert | bytes come out in order, once; bounded by the capacity; nothing invented, nothing forgotten; closed exactly at the end |
| TCPSender (`src/tcp_sender.*`) | outbound stream, window, seqnos, outstanding map, timer | push, receive, tick, make_empty_message | outstanding messages tile the sequence space; window respected; timer runs exactly when needed; backoff |
| TCPReceiver (`src/tcp_receiver.*`) | state, isn, Reassembler | receive, send | acknowledges only what is assembled |
| TCPPeer (`util/tcp_peer.hh`) | sender, receiver, need_send, linger | push, tick, receive, active | replies when it must, stops neither early nor never |
| TCPMinnowSocket (`util/tcp_minnow_socket*.hh`) | a peer, an adapter, an event loop, a thread | connect, listen_and_accept, three rules, wait_until_closed, destructor | the application sees a reliable byte stream each way |
| Adapters (`util/tcp_over_ip.*`, `util/lossy_fd_adapter.hh`, `util/tcp_segment.*`) | listening, addresses | read, write | only the adopted connection's segments pass: no stray datagram reaches the peer |
| NetworkInterface (`src/network_interface.*`) | ARP cache, requests, waiting datagrams, clock | send_datagram, recv_frame, tick | datagrams leave for the right neighbour, in bounded time; no request storm |
| Router (`src/router.*`) | interfaces, routing table | add_route, route | longest prefix match, TTL |
| EventLoop (`util/eventloop.*`) | rules, polled descriptors | add_rule, wait_next_event, cancel | exits only when nothing more can happen; a rule is erased only when it is of no more use; no busy wait |
| FileDescriptor, Socket (`util/file_descriptor.*`, `util/socket.*`) | eof, closed, counts of reads and writes; behind them the kernel's buffers | read, write, shutdown, close | the end of a stream is told from nothing being there yet |
| Stream copy (`apps/bidirectional_stream_copy.cc`) | two ByteStreams, two flags, an event loop of four rules | four callbacks | everything said on one side comes out at the other, the ends of the streams included |
| `tcp_ipv4` (`apps/tcp_ipv4.cc`) | the socket and its thread | connect or listen, copy, wait | it ends, and what it passed on is complete |

How they interact: calls go down and up one thread's stack (rule callback, `TCPPeer::receive`,
`TCPReceiver::receive`, `Reassembler::insert`, `Writer::push`, and back through
`TCPSender::push` and the transmit callback to the adapter). The application's thread shares
only the socket pair and the `_abort` flag with the TCP thread. Each of the two threads runs an
event loop of its own over both ends of that pair: what one does (a read, a write, a shutdown of
either direction) changes what the other's `poll` reports. Two hosts share only the
network, which loses, duplicates, delays and reorders segments.

The hard behaviours are therefore: reordering, loss and duplication against three redundant
encodings of one position (ring cursor, stream index, 32-bit sequence number); a window
that is a stale copy of the receiver's state; retransmission timers against late answers;
closed windows that nobody reopens by message; and two streams that end independently while
each side decides alone when to stop; two threads, each of which acts on what `poll` told it
before the other moved, and which end by reading the hangups and ends of file that the
other leaves behind; and below TCP, datagrams that wait for an answer that
may never come, while requests, entries and the waiting datagrams age on one 32-bit clock,
and tables that may send a datagram in circles. `PROJECT.json` lists each under `hazards`, at its line.

## The modules

| Module | Models | Kind |
|---|---|---|
| `ByteStream` | the ring buffer, one action per member function | state machine |
| `StreamSpec` | a bounded queue, what a ByteStream promises | abstract specification |
| `Streams` | the same queue as operators on a value, for the layers above | operators |
| `Wrap32`, `Wrap32System` | sequence number arithmetic; every input over a moving checkpoint | operators; state machine |
| `Reassembler`, `ReassemblerSystem` | `insert` as the sets it computes; segments in any order and a reader | operators; state machine |
| `ReassemblerLoops` | `insert` as the code's loops (recursive), compared with `Reassembler` | operators |
| `TCPSender`, `TCPSenderSystem` | push/receive/tick whole; a sender in an arbitrary environment | operators; state machine |
| `TCPReceiver`, `TCPPeer` | receive/send; the exchange of segments and the linger rule | operators |
| `TCPConnection` | two peers, their sockets' rules, listening, and the network | state machine |
| `ReliableStreams` | what a connection promises two applications | abstract specification |
| `FileDescriptor` | read/write/shutdown/close and what `poll` reports, over the kernel's buffers | operators |
| `EventLoop` | `wait_next_event` for any rules (given as operators), split where `poll` returns | operators |
| `TCPOverIPv4` | wrap/unwrap of the adapter with its filters; what the wire keeps of a message | operators |
| `TCPMinnowSocket` | the three rules with interest, cancel and error callbacks; tick; connect and listen | operators |
| `StreamCopy` | the four rules of `bidirectional_stream_copy` | operators |
| `TCPProgram` | `apps/tcp_ipv4.cc`: both threads, the socket pair, a remote host | state machine |
| `NetworkInterface`, `NetworkInterfaceSystem` | send_datagram/recv_frame/tick whole; one interface on an arbitrary link | operators; state machine |
| `LinkSpec` | what an interface promises the layer above, in real time | abstract specification |
| `Subsequences` | the part of a sequence at given positions: what filtering a queue leaves | operators |
| `Router`, `EndToEnd` | route() whole; the network of `apps/endtoend.cc` | operators; state machine |
| `MC*` | bounds and value sets for TLC | model checking |
| `ByteStreamProofs`, `Wrap32Proofs`, `ReassemblerProofs`, `SenderProofs`, `NetworkInterfaceProofs`, `ConnectionProofs`, `EndToEndProofs` | theorems about the module of that name | proofs |
| `Lemmas` | remainders, least and greatest numbers; the operators of `Streams` and of `Subsequences` | lemmas |

**State.** A C++ object is a record whose fields have the source's names (without the
trailing `_`); a component's module has one operator per member function that maps the old
record to the new one, so that a composite handler is a composition of operators and runs in
one step, as it does on the thread's stack. A function that transmits returns the new record
and the sequence of messages. `bytes_pushed_` of a ByteStream is recovered as
`popped + Len(queue)`; the proof that the ring implements the queue justifies it. The
code's `std::map`s are a set of substrings with disjoint ranges (`substrings_`) and a
function on absolute sequence numbers (`unacked_messages_`). Stored substrings carry their
bytes as a function on the indices they cover.

**Actions of `TCPConnection`.** `Connect` is `connect()` up to its loop. `Deliver` is rule 1
with all of `TCPPeer::receive`; `Write` and `Shutdown` are rule 2 (bytes from the
application, end of file); `Read` is rule 3 (a partial write of what `peek` shows).
`Timeout` and `Tick` are the loop's tick. `DropOnRead` and the dropping in `Emit` are the two
halves of `LossyFdAdapter`; `Admitted` and `Adopt` are the listening filter. `Unread` removes
a segment nobody will read. Rules 2 and 3 do not touch the application before `connect` or
`listen_and_accept` has returned (`Established`).

**Actions of `TCPProgram`.** `Start` is `connect()` or `listen_and_accept()` up to its loop, which
the owner then runs itself until the connection is established (`Established` starts the thread).
Each thread's loop alternates two steps: `TcpPoll`, `OwnerPoll` erase defunct rules, ask for
interest, and take the snapshot `poll(2)` returns; `TcpDispatch`, `OwnerDispatch` act on the
snapshot, whatever the other thread has done in between, and (TCP thread) tick. When there is
nothing left to poll a loop is over: the TCP thread shuts the owner's end down (`LoopEnds`), the owner goes on
to `wait_until_closed` and `Join`. A poll of the TCP thread that finds nothing is a tick of its clock; one of the owner
changes nothing and is a stuttering step. `TCPMinnowSocket` is the same code as the rules in
`TCPConnection`, here with the descriptors under it. The remote host is a `TCPPeer` too, behind a link without
delay: what the TCP thread sends is handled in the same step, and the answers go to the inbox of
`tun`, where they wait for as long as the thread likes. Its clock runs with the TCP thread's. `Type` and `EndStdin` are standard input,
from when the copy looks at it; `RemoteWrite` and `RemoteShut` the remote application.
At most one mishap per behaviour: `LossyFdAdapter` drops one datagram, up or down (`Drops`); the
remote host resets the connection (`RemoteReset`); a datagram arrives that would reset the
connection if it were ours (`Stray`, six kinds, into an empty inbox); nobody reads standard
output any more (`BreakStdout`); the copy throws, and the socket's destructor
raises `_abort` (`Throw`). A program that dies (an exception out of a loop, SIGPIPE) stops with the
reason in `failure`.

**Actions of `NetworkInterfaceSystem`.** `Send` and `Tick` are the two calls from above,
`HearArp` and `Overhear` are `recv_frame` for a frame addressed to the interface (or to all)
and for one addressed to somebody else. The history variables `time`, `heard` and `asked` are what an observer of the link
knows: the properties are stated against them and not against the interface's own records.

**Actions of `EndToEnd`.** `HostWrite` and `HostRead` are `NetworkInterfaceAdapter::write` and
`read`; `FromHost` and `FromInternet` are two event loop rules of the network thread,
`recv_frame` of one interface followed by `route()` over both. The other two rules move a
frame from an output queue to a descriptor; a queue, its descriptor and the socket buffer
behind it are one sequence (`cable`, in order and without loss: a socket pair) or one set (`internet`: UDP
through the bouncer). `Tick` advances all clocks together. An interface's Ethernet address is
the number of its IP address. A header checksum is the hop limit it was computed for, the only
field it covers that changes on the way.

**The two networks.** With `Chaotic` every segment ever sent stays deliverable for ever, so
loss, duplication and reordering are all included, and a peer's clock may jump to its timeout
at any moment. Without `Chaotic` at most `MaxLosses` segments are lost, each other one is delivered
once, and time passes only when nothing is in flight: the assumption under which progress can
be promised at all.

**Abstractions.** Bytes are small numbers (in the connection the k-th byte is the number k,
so a misplaced byte is a wrong byte). `Mod` and `U64` stand for 2^32 and 2^64. Time is
counted in ticks of `InitialRTO`. `cumulative_time_ - time_of_last_receipt_` is kept as one
saturating number because only its comparison with `10 * rt_timeout` is used. A
`TCPMessage`'s two `Ref`s are values.

## The runs

| Run | Configuration | States | Shows |
|---|---|---|---|
| `bytestream` | `MCByteStream` | 14 420 | type, cursors against counts, peek across the wrap, and refinement of `StreamSpec`: the strings pushed and read included, and nothing after the end |
| `wrap32` | `MCWrap32` | 2 624 | `unwrap` is nearest and inverts `wrap` |
| `reassembler` | `MCReassembler` | 56 860 | an honest stream of 9 bytes, closed exactly when complete; contradictory segments: bookkeeping, budget, nothing invented or forgotten, loops = sets |
| `sender` | `MCSender` | 8 378 | the sender's bookkeeping under any receiver whose first window is not closed |
| `connection_chaotic` | `MCChaotic` | 145 254 | refinement of `ReliableStreams`; what is acknowledged has arrived; no early exit; the linger rule |
| `connection_lossy` | `MCLossy` | 133 271 | under fairness: all is delivered, both peers stop |
| `network_interface` | `MCNetworkInterface` | 40 812 | refinement of `LinkSpec`; what waits was asked for; requests are apart in real time |
| `endtoend` | `MCEndToEnd` | 195 457 | each datagram in one place, on the way of the longest prefix, and under fairness gone in the end |
| `tcp_program` | `MCTCPProgram` | 439 523 | the program and its two threads: refinement of `ReliableStreams`, no busy wait and no SIGPIPE, an orderly end is a complete one; under fairness the program ends |
| `sender_ack_before_syn` | `MCAckBeforeSyn` | violation | see Findings |
| `stale_window` | `MCStaleWindow` | violation | see Findings |
| `router_checksum` | `MCForwardedChecksum` | violation | see Findings |

Each property of a passing run comes with a mutant in `PROJECT.json`: an operator named
`Faulty...` (or `Overlapping...`, `Endless...`, `Slow...`, `Hasty...`), a plausible bug in one definition, kept
beside the definition it replaces. With it in place the property fails, so that none of them
holds by the shape of the model alone.

**Bounds and why they are enough.**

- `MCByteStream`: capacity 3 with strings of up to 4 bytes over 2 values, 7 bytes pushed:
  a write, a read and a `read()` that wrap, a string longer than the ring, a full and an
  empty ring, and both cursors around twice.
- `MCWrap32`: circle of 8, checkpoint up to 40: every offset on five turns, the first turn
  (no candidate below it) included.
- `MCReassembler` has two worlds. Honest: capacity 5 under a stream of 9, so that the window moves over cut-off
  bytes; every substring, with and without the end mark. Any: capacity 3,
  strings of up to 3 bytes over 2 values, every index of the stream, ends that contradict one
  another, and the index 2^64 - 1 that `TCPReceiver` passes for a segment that carries the
  initial sequence number without SYN.
- `MCSender`: 4 bytes through a stream of 3 with payloads of at most 2, windows 0, 1, 2, 4,
  and acknowledgments of every number from 0 to one beyond the last sent; sequence numbers
  wrap (`ISN = 14` of 16). Every partial acknowledgment, zero window and probe occurs. What is left
  out is a message that closes the window before the SYN was sent (`ReceiveMessage`). With data buffered,
  `push()` (`src/tcp_sender.cc:28` to `:45`) would then send the SYN and a byte into that window. No program of
  this repository gets there: `connect()` sends its SYN before it hears anything, and one that
  listens writes nothing before the connection is established.
- `MCChaotic`: the client sends two bytes and closes, the server only closes; at most two
  segments to the server and one to the client can be re-delivered at any time (older ones
  may be dropped to make room), one timeout of the client at a time. What the bounds hide: longer reorderings, and
  timeouts of the server (a retransmission of its differs from a second delivery of the same
  segment only in the acknowledgment it carries; `MCLossy` has them). With one segment to the client at a
  time no acknowledgment of the server is overtaken by a later one: that the sender survives
  outdated acknowledgments is shown by `OutstandingTiles` in `sender`, and for every network by the theorem
  `Acknowledged`.
- `MCLossy`: one byte of send and receive buffer, so that the window closes after every byte;
  any two losses, handshake, probe and FIN included. At most five segments are ever on their
  way to one side and no peer retransmits five times in a row, so that `MaxInFlight` and
  `MaxRetx` cut nothing off, and `FairSpec` excludes no run because of them.

- `MCTCPProgram`: every buffer is of a byte or two (the socket pair 1, the copy's streams 2, the
  local receive stream 2, the send streams 1), so that each of them fills and `poll`
  withholds readiness at each. Calling: one byte each way, with one lost datagram or a reset;
  called: two bytes from the remote side and none from standard input, with strays, a broken
  output or an exception. `MaxRetx` stops the remote clock after two retransmissions in a row; with one
  loss no more are needed, and a peer that waits for a local side that has been aborted
  would retransmit for ever. The remote receive stream (3) never fills: a
  closed window is the subject of `MCLossy`.
- `MCNetworkInterface`: two next hops, one of them 0.0.0.0 (which `tests/router.cc` uses, and
  which the zeros of a refused ARP message announce), two Ethernet addresses that either may
  announce, two waiting datagrams, ages of 2 (5 s) and 3 (30 s) and a clock of 6 that wraps
  once before real time ends at 8: a tick may pass one deadline, both, or the wrap.
- `MCEndToEnd`: addresses of 4 bits; a table with a default route, two prefixes of which the
  longer one overrides the shorter, in an order in which neither the first nor the last match
  is the right one for all destinations; hop limit 4, so that the datagram that two routers
  send to each other crosses the internet three times; two datagrams at once, in both
  directions; one lost frame (request, reply or datagram); a clock of 3 that wraps. Time passes while a datagram waits, and `MaxIdle` times otherwise,
  so that entries expire between two datagrams. Two identical frames on the way to one router
  count as one, which only ARP frames can be.

`CHECK_DEADLOCK FALSE` stands where the system really stops: the checkpoint at its
bound, a connection both of whose ends have finished, a program that has ended or died, real time at its
bound, and a network with nothing left to carry.

**Fairness** (`FairSpec`). Two assumptions, both about who is scheduled. `SystemFairness`:
as long as a segment is in flight or an active peer waits for its clock, something other than
an application's own step happens again and again: each event loop's thread polls with a
10 ms timeout and ticks after every event. `AppFairness`: as long as an application can write,
shut down or read, one does again and again; a reader that stops, or a writer that never
shuts down, can of course keep the connection open for ever. Which segment, which
peer and which application goes next is left open; loss is bounded by `MaxLosses`, not by
fairness. A tick that changes nothing (no timer runs, nothing lingers) does not count as
something happening (`TickCounts`). The enabling conditions are spelled out as state predicates, because TLC cannot
afford `ENABLED` of a step that runs a whole handler.

**Fairness of `TCPProgram`.** `WF_pc` for each of the two threads: one that can run, because it is
not waiting in `join()` or for the other to establish the connection, makes a step again; the
scheduler does that. `poll` has a timeout of 10 ms in the TCP thread, so that its step is always
possible; the owner's `poll` has none, and its step on a snapshot in which nothing is
ready goes back to `poll`. And `WF_said` for each of the two writers: one that can end its stream does, some
time; a user who never ends standard input keeps the program open for ever. A reset, a loss
and the other mishaps are never assumed to happen, nor not to.

**Fairness of `EndToEnd`.** Each router and host takes a frame again and again as long as one
is there, the internet delivers what it does not lose, and clocks advance as long as a
datagram waits for an address: `endtoend.cc` polls both descriptors and ticks every
10 ms. It is weak fairness of the four actions, spelled out as above.

## Findings

1. **An ackno of isn + 1 before the SYN** (`src/tcp_sender.cc:86`). `receive` marks the SYN as
   sent before it checks that the acknowledged number was sent at all. A message that arrives
   before the first push then makes the stream start without a SYN. The comment at line 92 and
   `tests/send_ack.cc:63` say that such an ackno is ignored. Run `sender_ack_before_syn`.
   (`MCSender` keeps that message out, so that everything else is checked without it.)
2. **The window of an outdated acknowledgment** (`src/tcp_sender.cc:83`). `window_size_` is
   taken from every message. An old acknowledgment that arrives late reopens the window it
   carried then, measured from what is in flight now, and the sender transmits sequence numbers
   that no window ever offered. The receiver drops them, so that no property of the streams is
   lost; but `tests/send_extra.cc:446` calls outdated acknowledgments harmless, and
   `util/tcp_receiver_message.hh:15` counts the window from the ackno. Run `stale_window`.

3. **The checksum of a forwarded header** (`src/router.cc:43`). `route` decrements the hop
   limit and nobody computes the header checksum again: `IPv4Header::serialize` does not
   (`util/ipv4_header.cc:54`). Every datagram leaves a router with a checksum that does not
   match. `tests/router.cc:277` expects the decremented limit with the checksum computed anew, and
   passes because `IPv4Header::parse` leaves the checksum it computed in the header, and
   `recv_frame` ignores the error the parser reports for it. That is also why the model's
   datagrams arrive: `OnePlace` holds, with a repaired checksum, through both routers. Run
   `router_checksum`.

Observed, and written into the properties rather than into a run of their own:

- After a reset the TCP thread's loop ends and shuts down the owner's end of the socket pair
  (`util/tcp_minnow_socket_impl.hh:279`); if that falls between the owner's `poll` and its
  write, the write raises SIGPIPE, which nobody ignores, and the program dies without a word
  (`NeverDies` allows it after a reset only). The same happens when standard output breaks.
- A reset looks to the copy like the end of the stream: standard output is closed in order
  (`ProgramImplementsReliableStreams` holds `Ended` to its meaning for orderly connections only).
- When nobody reads standard output any more, the copy no longer takes bytes from the socket. When
  its end of the pair has then been shut down, rule 3 is erased by the hangup, bytes that still arrive fill
  the inbound stream and `wait_until_closed` may never return (`ProgramEnds` leaves this case out; the
  comment at `util/tcp_minnow_socket.hh:25` warns of it).
- The destructor raises `_abort` and joins. No RST is sent, although
  `util/tcp_minnow_socket.hh:34` and `:117` say so; `ProgramEnds` says only that the local
  side ends. `MAX_RETX_ATTEMPTS` (`util/tcp_config.hh:16`, "before giving up") is used by
  tests only: a peer whose other side is gone retransmits for ever.
- `arp_request_time_` is never purged, and ages are differences of a 32-bit clock
  taken in 64 bits. After 49 days, when the clock has wrapped, a request may follow another one
  sooner than five seconds, and a record of the turn before may suppress a request, so that the
  datagram that waits is given up without anybody having been asked (`WaitingIsAsked`,
  `RequestsApart`).
- The expiry of waiting datagrams in `recv_frame` (`src/network_interface.cc:94`) never applies: `tick` has
  dropped what is too old already (proved, see `HearImplements`).

## The proofs

All theorems hold for every value of the constants allowed by the named assumptions, which
TLC evaluates on every run of the module they stand in:

- `CapacityAssumption`, `DataAssumption` (`ByteStream`): a capacity above zero, strings of bytes.
- `WrapAssumption` (`Wrap32`), `CheckpointAssumption`: an even modulus that divides the machine
  word, and sequence numbers that stay two circles below its end.
- `ReassemblerAssumption`, `WrapAssumption` (`ReassemblerSystem`): segments have 64-bit indices
  and bytes; a segment that runs past index 2^64 - 1 lies beyond every window that can be reached. The latter is
  real (`TCPReceiver` passes 2^64 - 1 for a byte that carries the initial sequence number
  without SYN) and its end mark wraps to a small number; no stream has 2^64 bytes.
- `SenderAssumption` (`TCPSenderSystem`): sizes above zero, a stream that ends a circle below
  2^64, and `NoAckno` (an empty `optional`) is no sequence number. Every theorem about the
  sender also has the hypothesis `~AckBeforeSyn`, that nobody acknowledges the SYN before it was
  sent: Finding 1, and its run, show what happens otherwise. That the first window is not closed (see
  `MCSender` above) is a guard of `ReceiveMessage` and so a hypothesis too. In a connection neither is a
  hypothesis but both are proved: the other peer acknowledges only what it has received, and as long as it has
  received nothing its window is open (`Reported`).
- `ConnectionAssumption` (`TCPConnection`): two different peers, sizes above zero, the widths as
  above. `ShortStreams`: with its SYN and FIN a stream fits half the circle, 2^31 numbers. It
  is there because the proofs are about the chaotic network too, which keeps a segment for ever:
  `unwrap` finds the number nearest to the one it waits for, and a segment that is more than half a circle
  old would be read as one to come. TCP excludes such segments by their lifetime, which no code of this
  repository enforces. The assumption is needed: with `Mod = 4` and four bytes TLC finds a
  first segment, delivered again a turn later, whose byte takes the place of the fourth and is acknowledged
  as such (`AcknowledgedHasArrived` fails after 19 steps). Nothing is assumed of
  the capacities but that they are above zero, and nothing of losses, copies, order, clocks or speeds.
- `ClockAssumption`, `AddressAssumption` (`NetworkInterfaceSystem`): the clock is wide enough
  that a tick plus `EntryTime` does not exceed its size, so that a longer gap between two ticks (49 days
  less 30 s) is excluded; broadcast, zero and own addresses are not those of neighbours.
- `NetworkAssumption` (`EndToEnd`): two hosts, addresses and times that are numbers, routing tables whose entries
  have the types of `Router::add_route`, and datagrams that can be told apart by their `id`. The tables may
  be any tables, in any order, with routes that overlap, contradict one another or lead in circles.
- `HomeAssumption` (`EndToEnd`): what the tables of `apps/endtoend.cc:191` to `:201` have in common. A router's
  table leads datagrams for its own host to the host's side, and no rule names the host as a next hop; and hosts write
  to others, with a valid checksum. Only `NothingTwice` uses it.

| Module | Theorems |
|---|---|
| `ByteStreamProofs` | `TypeCorrect`, `CursorsCorrect`, `PeekCorrect`, `ReadCorrect`, `EndIsFinal`, `RingImplementsQueue` |
| `Wrap32Proofs` | `SurvivesTheWire`, `ReturnsNearest` |
| `ReassemblerProofs` | `Invariant`, `TypeCorrect`, `InStep`, `PendingInWindow`, `NoByteInvented`, `NoByteForgotten`, `ClosedAtEof` |
| `SenderProofs` | `Invariant`, `TypeCorrect`, `NoHole`, `EachInPlace`, `TimerMatches`, `BackoffMatches`, `NothingKept`, `FitsTheWindow` |
| `NetworkInterfaceProofs` | `Invariant`, `TypeCorrect`, `WaitingWasAskedFor`, `RequestsStayApart`, `InterfaceImplementsLink` |
| `ConnectionProofs` | `Invariant`, `Acknowledged`, `Clean`, `NobodyWaits`, `Reliable` |
| `EndToEndProofs` | `Invariant`, `LongestPrefixLeads`, `NothingTwice` |

**`ByteStreamProofs`.** The inductive invariant is `IInv == TypeOK /\ CursorsFollowCounts`:
type correctness alone is not inductive, for a push could overrun the counts, and peek and
read are only right because each cursor is its count modulo the capacity. Lemmas about
`Advance` and `Offset` (from `Lemmas`) carry the ring arithmetic; `QueueFacts` says that the
ring holds a sequence; `PushQueue` and `ReleaseQueue` say what a push and a release do to it.
From these the safety theorems, and `RingImplementsQueue`: every step of the ring is a step of
`StreamSpec`, with the string that `push` was given or `read` returned (`passed`) visible in both.

**`Wrap32Proofs`.** The candidate lies on the checkpoint's turn of the circle (`CandidateFacts`);
one turn up or down is the only correction needed (`UnwrapCases`); numbers that wrap to the
same raw value are whole turns apart (`TurnsAway`). Hence `SurvivesTheWire` and
`ReturnsNearest`.

**`ReassemblerProofs`.** The properties speak of what an observer sees, and none of them is inductive: what
`insert` does next depends on where everything that waits lies. Two notions carry the
proof: which indices are `Reached` (written or stored) and which byte `Stands` at an index.
`IInv` has five parts. `InWindow`: output and map are well formed, the stored substrings are
apart and inside the window, the next index is the count of bytes pushed, and nothing that
waits could be written already (`Tight`). `StandsAsOffered` and
`ReachedWhatOffered`: what stands somewhere was offered there, and what was offered in the window has been
reached. `BelowWrap`: the window stays clear of the segment that wraps. `EofAtEnd`: of an
honest stream the noted end is the right one. A lemma for each stage of `insert` (note the end, trim, merge and
store, drain, close) says what the stage does to any Reassembler whatever, so that the lemma about the whole
handler, and the induction step, are short. They rest on `MergedFacts`: merging leaves no hole and takes each byte
from one of the substrings it overlaps. Contradictory segments are included.

**`SenderProofs`.** `IInv` says of the sender that it is `Good` and `Settled`. `Good`: the
stream holds what was written and not sent (`InStream`), flags and counters tell one story
(`Counted`), the outstanding messages tile the sequence space (`Tiles`), each is made
of the bytes at its place (`InPlace`), timer, timeout and retransmission counter agree
(`Timed`). `Settled`: nothing that fits the window is held back. Each operation keeps
`Good`, only `push` establishes `Settled`; a tick, which touches only the timer, keeps it, and every other
operation of the system ends with a push.
Three arguments are behind it. What `sequence_numbers_in_flight` sums up is the distance from the oldest
outstanding number to the next (`InFlightFacts`, by a bijection), because the messages tile it. The loop
of `push` ends, for every turn that goes on takes at least one number of a finite window (`PushedFacts`, over
the sequence of its states that `LoopExists` provides), and each turn keeps `Good` (`TurnFacts`). And an acknowledgment, unwrapped
near the last one, lands where the invariant can speak of it (`AcknoFacts`, from the arithmetic of
`Wrap32`), and removes whole messages from the front (`ForgetFacts`).

**`NetworkInterfaceProofs`.** The difficulty is the clock, which wraps while everything promised is in
real time. `IInv` relates the two: `OnTime` (the clock is the time modulo its size), `Remembers` (the
cache holds exactly what was announced less than `EntryTime` ago in this turn of the clock), `Asks` (a
record in `arp_request_time` is the time of the last request, in some turn; one that is gone was
answered or is past), and `WaitingIsAsked`. `AgeFacts` is the heart: after a tick that is not longer than
`ClockSize - EntryTime`, something that was fresh before reads either at its true age or, when the clock has
wrapped, as later than now, which the code's 64-bit subtraction takes for old. So what the clock expires is
what the time expires (`EntrySurvives`, `DatagramSurvives`); and in `InterfaceImplementsLink` each `send_datagram`
is a `Leave` or a `Wait` of `LinkSpec`, each `recv_frame` an `Announce` or `Idle`, and each `tick` is a
`Pass`. In particular the expiry in `recv_frame` itself (`src/network_interface.cc:94`) never drops
anything: whatever waits is fresh since the last tick (`HearImplements`).

**`ConnectionProofs`.** The theorems about two peers and a network that loses, copies, delays and
reorders: what is acknowledged has arrived, no peer stops with anything undone, one that need not linger
leaves nobody waiting, and the connection implements `ReliableStreams`. What is proved about a single sender and a
single Reassembler is proved about their operators, in any environment, and none of it had to be proved
again; but what those proofs took for granted had to be shown:
that acknowledgments come from somewhere, and that the 32-bit numbers mean what they meant when they were sent.

The module has two parts. The first, which is the argument, relies on senders and Reassemblers only
through `Laws`: what `push`, `write`, `receive` and `tick` do to a running sender, what an insertion and a read do to a
sound Reassembler, and how they begin. The second derives the laws (`LawsHold`) from the theorems and
lemmas of `SenderProofs`, instantiated once for each peer (`Cli`, `Srv`), and of `ReassemblerProofs` (`Asm`).
So the first reads without the internals of either, and the theorems stand at the very end, where the laws hold.

`IInv` is about one direction at a time, from one peer's sender through the network to the other's
receiver (`OneWay`), and about the end of both (`Parting`).

- `Running`: the sender is `Good` and `Settled`, and its stream is the one the application wrote.
- `Receiving`: the other's Reassembler holds bytes of that stream only, each at its index, none
  that was not sent; it knows an end only if a FIN was sent, and then the right one.
- `Says`: a segment on its way carries a stretch of the stream at the place its number names
  (`Segment`), and an acknowledgment of a number that was awaited at some time (`Reported`), of now or of long ago.
- `Oldest(x.sender) <= Awaited(y.receiver)`: what the receiver waits for is never forgotten by the
  sender. It is `AcknowledgedHasArrived` said so that it is inductive.
- `Parting`: a peer that need not linger has all that the other wrote; every FIN of its own that
  is on its way also tells the other that; and once the other has that FIN, nothing of the other's is outstanding.
  The last is the reason for the linger rule: the peer whose inbound stream ended first is the one
  whose last acknowledgment needs no answer.

A step is one of a peer, which changes both directions at once (`ActKeeps`: whatever a peer does that is
`Allowed`, and transmits, keeps `IInv`), or one of the network, which only forgets (`FewerKeeps`). The heart
is the arrival of a segment: `SenderHears` and `SynchronizedReceives` unwrap its two numbers back to what they were
where they were sent (`Unwraps`, which is where `ShortStreams` is used), so that the sender's
`receive` and the Reassembler's `insert` get inputs of which their own invariants speak. `Reliable` maps each step
to one of `ReliableStreams` (`Conversation` is the mapping): a write and a shutdown to their own, an arrival to the bytes
and the end that become visible, everything else to a stutter.

**`EndToEndProofs`.** `IInv == Placed /\ Single`. `Placed` says of every place what may be there:
the hosts and their interfaces (`HostsWell`), the routers (`RoutersWell`: at rest they hold nothing
received), the cables, the internet, and what has arrived. What waits in an interface of a router, or has left
by it, is on course: some rule that decides for its destination names that interface and that next hop
(`Ways`); and, where the tables are `Homeward`, its hop limit tells how many routers it has passed, so that what arrives is
intact. `Single` counts: over both sides, what waits, travels and has arrived of one datagram is at
most one, and nothing if it was not sent. It needs `Placed`, which says what the queues it counts consist
of; and neither mentions the order or the timing of anything: that requests are lost, entries expire and
clocks wrap does not matter.

Two things carry it. `BestIs` says that the loop over the routes leaves a matching route of the longest
prefix, for a table in any order. And every operation is weighed, with queues of any length: what is counted after `send_datagram`
(`SendKeeps`), `recv_frame` (`HearKeeps`; a reply sends what has waited and keeps the rest, `FlushKeeps`), `tick`,
one datagram forwarded (`ForwardKeeps`), all that one interface has received (`RouteFromKeeps`) and `route()` over
both (`RouteKeeps`) is no more than what was counted before. A step of the network then only
moves weight from one place to another (`Balance`).

**Out of reach of the prover.** Liveness under fairness and `ENABLED` stay with TLC. So does
`ReassemblerLoops`, which has recursive operators: that the code's loops compute the sets of
`Reassembler` is checked on every reachable state of the run (`LoopsAgree`). Induction over
data has to be spelled out where it is needed, as a least counterexample (`LeastExists` in `Lemmas`):
this is done for the loop of `push`, for the doubled timeout (`TimeoutAfter`), for the part of a queue at given
positions (`Ascending`), and for the loops of the router (`RecursionExists`: best route, datagrams received, interfaces). That is also why filters of queues are written with `Chosen` from
`Subsequences` and not with `SelectSeq`, whose recursion the prover cannot expand.

**Only model-checked.** The program with its event loops (`NeverDies`, `EndsComplete` and the rest), and every
liveness property, those of the connection and of the network included. `ReadTakesOldest` and
`FinishedIsFinal` of `ByteStream` are proved (`ReadCorrect`, `EndIsFinal`) and have no run of their own. The
second follows from the refinement that `bytestream` checks; the first, which is about the ring and
not about the queue, does not quite, and is proved separately.

## Not modelled, and why

- The event loop's rules without a descriptor and `RuleHandle::cancel`: no program of the
  repository uses them.
- Data races. `_abort` is atomic and the socket pair is the kernel's, but the counts of reads and writes
  (`register_read`, `register_write`) of the owner's end are also incremented by the TCP thread's final
  `shutdown`. A lost increment could only make the owner's loop see a busy wait in that very moment; the model takes
  the increments as atomic and per thread.
- Failing system calls other than those named above (`poll`, `shutdown` and the like succeed). The `read` and
  `write` of several buffers, through which the adapter takes datagrams from `tun` and puts them there
  (`util/tuntap_adapter.cc:11` and `:20`), have no operator of their own: how a datagram is divided among buffers is
  data, and what the calls do to the device and to the counts is part of the steps of `TCPMinnowSocket` and `TCPProgram`.
- Parsing but for what its callers see of its errors, addresses and the applications' command lines (data or
  wiring that no property tells apart); `webget` and `tcp_native`, which use the kernel's TCP.
- Routes are added before the first datagram, as in every program.
- TCP and the network are composed through their interfaces only: `TCPConnection` assumes of the
  network less than `EndToEnd` promises; `TCPProgram` has a network that is kinder than
  either (one loss, no reordering) because its subject is the other side of the socket.

## Plan

1. Done: `ByteStream`/`StreamSpec`, `Wrap32`, `Reassembler` with its loops, `TCPSender`,
   `TCPReceiver`, `TCPPeer`, `TCPConnection`/`ReliableStreams`; the proofs about ByteStream and
   Wrap32.
2. Done: `NetworkInterface` with `LinkSpec`, in real time and with the clock's width as a
   constant.
3. Done: `Router` and the network of `endtoend`.
4. Done: `FileDescriptor`, `EventLoop`, `TCPOverIPv4`, `TCPMinnowSocket`, `StreamCopy` and on them
   `TCPProgram`: both threads, cancellation, errors, RST, `wait_until_closed` and `_abort`. The two
   runs of the Reassembler have become one.
5. Done: the proofs about the Reassembler, the sender and the NetworkInterface, the refinement of
   `LinkSpec` included; about the connection, with the refinement of `ReliableStreams` and with it the receiver's and
   the peer's part; and about the router and the network of `endtoend`.
   Left: the safety properties of `TCPProgram` (`NeverDies`, `EndsComplete`), whose invariant would have to relate the
   two threads' snapshots to the kernel's buffers.
6. A run that shows that the destructor sends no RST, against the comment that says it does.
