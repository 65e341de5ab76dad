----------------------------- MODULE TCPProgram -----------------------------
(***************************************************************************)
(* The program of src/apps/tcp_ipv4.cc from the socket it makes to its     *)
(* end: its main thread, the owner, copies between standard input and      *)
(* output and the socket; the TCP thread runs the socket's loop; they      *)
(* share a socket pair.  The remote end is a TCPPeer whose application     *)
(* reads at once.  The link to it has no delay: it handles what the TCP    *)
(* thread sends in the same step, and answers into the inbox of `tun'.     *)
(***************************************************************************)
EXTENDS TCPMinnowSocket, StreamCopy, SequencesExt

CONSTANTS
  ISN, SendCapacity, RecvCapacity,   \* of "local" and "remote"
  ToWrite,        \* of a role: bytes that standard input and the remote
                  \* application write
  Mishaps,        \* of a role: what may go wrong, of "loss", "reset", "stray",
                  \* "break" and "throw"; one of them does
  MaxRetx         \* bound: the remote clock stops after so many retransmissions

Writers == {"stdin", "remote"}

Roles == {"connect", "listen"}

ASSUME ProgramAssumption ==
  /\ SockBuf \in Nat \ {0} /\ CopyCapacity \in Nat \ {0}
  /\ \A p \in {"local", "remote"} :
       /\ ISN[p] \in 0..(Mod - 1)
       /\ SendCapacity[p] \in Nat \ {0} /\ RecvCapacity[p] \in Nat \ {0}
  /\ \A r \in Roles, w \in Writers : ToWrite[r][w] \in Nat
  /\ \A r \in Roles :
       Mishaps[r] \subseteq {"loss", "reset", "stray", "break", "throw"}
  /\ MaxRetx \in Nat

VARIABLES
  role,      \* "connect" or "listen"
  pc,        \* where the owner and the loop of the socket are
  socket,    \* the TCPMinnowSocket
  copy,      \* what bidirectional_stream_copy keeps
  fd,        \* the file descriptors
  remote,    \* the remote peer, and what its application has read
  said,      \* what each writer has written, and whether it has ended
  mishap,    \* the one thing that has gone wrong
  failure    \* why the program has died

vars == <<role, pc, socket, copy, fd, remote, said, mishap, failure>>

TcpLoop == INSTANCE EventLoop WITH
  Descriptor <- TcpDescriptor, Direction <- TcpDirection,
  Interested <- TcpInterested, Callback <- TcpCallback,
  OnCancel <- TcpCancel, OnError <- TcpError

CopyLoop == INSTANCE EventLoop WITH
  Descriptor <- CopyDescriptor, Direction <- CopyDirection,
  Interested <- CopyInterested, Callback <- CopyCallback,
  OnCancel <- CopyCancel, OnError <- CopyError

-----------------------------------------------------------------------------
Local == [ip |-> "local", port |-> 1]
Remote == [ip |-> "remote", port |-> 2]
Anywhere == [ip |-> "any", port |-> 1]
Nobody == [ip |-> "any", port |-> 0]

PeerOf(p) == NewPeer(SendCapacity[p], RecvCapacity[p], ISN[p])

(* The remote application takes what has arrived.                          *)
AppReads(r) ==
  LET in == inbound(r.peer) IN
  [r EXCEPT !.read = @ \o in.queue,
            !.peer.receiver.reassembler.output = Pop(@, BytesBuffered(in))]

(* The remote end has exchanged segments: replies are its datagrams.       *)
RemoteSends(r, exchange) ==
  [remote |-> AppReads([r EXCEPT !.peer = exchange.peer]),
   replies |-> [i \in DOMAIN exchange.sent |->
                  wrap_tcp_in_ip(r.adapter, exchange.sent[i])]]

RemoteHears(r, dgram) ==
  LET Heard(u) ==
        IF r.gone \/ u.messages = << >> THEN [remote |-> r, replies |-> << >>]
        ELSE RemoteSends([r EXCEPT !.adapter = u.adapter],
                         receive(r.peer, u.messages[1]))
  IN  Heard(unwrap_tcp_in_ip(r.adapter, dgram))

RemoteHearsAll(r, dgrams) ==
  LET Also(h, now) == [now EXCEPT !.replies = h.replies \o @]
      Hear(h, dgram) == Also(h, RemoteHears(h.remote, dgram))
  IN  FoldLeft(Hear, [remote |-> r, replies |-> << >>], dgrams)

NewRemote ==
  [peer |-> PeerOf("remote"), read |-> << >>, gone |-> FALSE,
   adapter |-> IF role = "connect" THEN NewAdapter(Remote, Nobody, TRUE)
               ELSE NewAdapter(Remote, Local, FALSE)]

(* The remote end connects to a program that listens.                      *)
FirstRemote ==
  IF role = "connect" THEN [remote |-> NewRemote, replies |-> << >>]
  ELSE RemoteSends(NewRemote, push(NewRemote.peer))

Init ==
  /\ role \in Roles
  /\ pc = [owner |-> "start", tcp |-> "poll"]
  /\ socket = NewSocket(PeerOf("local"),
                        IF role = "connect" THEN NewAdapter(Local, Remote, FALSE)
                        ELSE NewAdapter(Anywhere, Nobody, FALSE))
  /\ copy = NewCopy
  /\ fd = [app |-> NewDescriptor("socket"), tcp |-> NewDescriptor("socket"),
           stdout |-> NewDescriptor("pipe"),
           stdin |-> NewDescriptor(IF role = "connect" THEN "pipe" ELSE "tty"),
           tun |-> [NewDescriptor("tun") EXCEPT !.inbox = FirstRemote.replies]]
  /\ remote = FirstRemote.remote
  /\ said = [w \in Writers |-> [written |-> 0, shut |-> FALSE]]
  /\ mishap = "none"
  /\ failure = "none"

-----------------------------------------------------------------------------
Context(own, drops) ==
  [own |-> own, fd |-> fd, counted |-> {}, failure |-> failure,
   sent |-> << >>, drops |-> drops]

(* What the remote end makes of a step that took `elapsed': it ticks, too. *)
Answered(sent, elapsed) ==
  LET Then(h) ==
        LET t == RemoteSends(h.remote, tick(h.remote.peer, elapsed))
        IN  IF \/ elapsed = 0 \/ h.remote.gone \/ ~active(h.remote.peer)
               \/ h.remote.peer.sender.consecutive_retransmissions = MaxRetx
            THEN h ELSE [remote |-> t.remote, replies |-> h.replies \o t.replies]
  IN  Then(RemoteHearsAll(remote, sent))

(* The TCP loop's step ends in c, at phase, after `elapsed'.               *)
TcpStep(c, phase, elapsed) ==
  /\ pc' = [pc EXCEPT !.tcp = phase]
  /\ socket' = c.own
  /\ failure' = c.failure
  /\ LET answer == Answered(c.sent, elapsed) IN
     /\ remote' = answer.remote
     /\ fd' = [c.fd EXCEPT !.tun.inbox = @ \o answer.replies]
  /\ UNCHANGED <<role, copy, said>>

OwnerStep(c, phase) ==
  /\ pc' = [pc EXCEPT !.owner = phase]
  /\ copy' = c.own
  /\ fd' = c.fd
  /\ failure' = c.failure
  /\ UNCHANGED <<role, socket, remote, said>>

Alive == failure = "none"

(* The owner runs the loop itself until connect() or listen_and_accept()   *)
(* returns, then the thread does.                                          *)
TcpRuns ==
  CASE pc.owner = "start" -> FALSE
    [] pc.owner = "establishing" -> pc.tcp # "returned"
    [] OTHER -> pc.tcp # "ended"

Start ==
  /\ pc.owner = "start"
  /\ LET c == Started(Context(socket, {}), role)
         answer == Answered(c.sent, 0)
     IN  /\ socket' = c.own
         /\ remote' = answer.remote
         /\ fd' = [fd EXCEPT !.tun.inbox = @ \o answer.replies]
  /\ pc' = [pc EXCEPT !.owner = "establishing"]
  /\ UNCHANGED <<role, copy, said, mishap, failure>>

(* The owner starts the TCP thread and the copy.                           *)
Established ==
  /\ pc.owner = "establishing" /\ pc.tcp = "returned"
  /\ pc' = [pc EXCEPT !.owner = "poll"]
  /\ UNCHANGED <<role, socket, copy, fd, remote, said, mishap, failure>>

(* The loop polls.  When there is nothing left to poll it is over, and the *)
(* thread shuts the owner's end down.                                      *)
LoopEnds(c, elapsed) ==
  IF pc.owner = "establishing" THEN TcpStep(c, "returned", elapsed)
  ELSE TcpStep(shutdown(c, "app", {"In", "Out"}), "ended", elapsed)

TcpPoll ==
  /\ TcpRuns /\ pc.tcp # "dispatch"
  /\ LET p == TcpLoop!Prepared(Context(socket, {})) IN
     IF p.asked = {} THEN LoopEnds(p.c, 0)
     ELSE TcpStep(TcpLoop!Polled(p.c, p.asked), "dispatch", 0)
  /\ UNCHANGED mishap

(* At most one thing goes wrong.                                           *)
May(what) == mishap = "none" /\ what \in Mishaps[role]

(* Of the loss rates only that something may be lost is kept: once.        *)
Drops ==
  IF May("loss") THEN { {}, {"up"}, {"down"} } ELSE { {} }

(* poll() has returned: a rule is served, or a tick has gone by.  Then the *)
(* thread looks whether it is to abort, and the loop at its condition.     *)
TcpDispatch ==
  /\ TcpRuns /\ pc.tcp = "dispatch"
  /\ \E drops \in Drops :
       LET elapsed == IF TcpLoop!Quiet(socket.polled) THEN 1 ELSE 0
           served == TcpLoop!Dispatched(Context(socket, drops)).c
           c == Ticked(served, elapsed)
       IN  /\ IF pc.owner = "aborting" THEN LoopEnds(served, elapsed)
              ELSE TcpStep(c, IF pc.owner = "establishing" /\ ~StillWaiting(c.own, role)
                              THEN "returned" ELSE "poll", elapsed)
           /\ mishap' = IF drops = {} THEN mishap ELSE "loss"

(* With nothing left to poll the copy is over.                             *)
OwnerPoll ==
  /\ pc.owner = "poll"
  /\ LET p == CopyLoop!Prepared(Context(copy, {})) IN
     IF p.asked = {} THEN OwnerStep(p.c, "closing")
     ELSE OwnerStep(CopyLoop!Polled(p.c, p.asked), "dispatch")

OwnerDispatch ==
  /\ pc.owner = "dispatch"
  /\ OwnerStep(CopyLoop!Dispatched(Context(copy, {})).c, "poll")

wait_until_closed ==
  /\ pc.owner = "closing"
  /\ OwnerStep(shutdown(Context(copy, {}), "app", {"In", "Out"}), "joining")

(* join() returns.                                                         *)
Join ==
  /\ pc.owner \in {"joining", "aborting"} /\ pc.tcp = "ended"
  /\ OwnerStep(Context(copy, {}), "ended")

-----------------------------------------------------------------------------
(* What the surroundings do.  Nobody looks at standard input before the    *)
(* connection is established.                                              *)
Copying == pc.owner \in {"poll", "dispatch"}

Says(w) == said' = [said EXCEPT ![w].written = @ + 1]

Type ==
  /\ Copying /\ ~said["stdin"].shut /\ said["stdin"].written < ToWrite[role].stdin
  /\ Says("stdin")
  /\ fd' = [fd EXCEPT !.stdin.inbox = Append(@, said["stdin"].written + 1)]
  /\ UNCHANGED <<role, pc, socket, copy, remote, mishap, failure>>

EndStdin ==
  /\ Copying /\ ~said["stdin"].shut
  /\ said' = [said EXCEPT !["stdin"].shut = TRUE]
  /\ fd' = [fd EXCEPT !.stdin.rd = TRUE]
  /\ UNCHANGED <<role, pc, socket, copy, remote, mishap, failure>>

(* The remote application writes or ends, once it has a connection.        *)
RemoteFeeds(input) ==
  /\ ~remote.gone /\ ~said["remote"].shut /\ has_ackno(remote.peer)
  /\ LET r == RemoteSends(remote, push([remote.peer EXCEPT !.sender.input = input])) IN
     /\ remote' = r.remote
     /\ fd' = [fd EXCEPT !.tun.inbox = @ \o r.replies]
  /\ UNCHANGED <<role, pc, socket, copy, mishap, failure>>

RemoteWrite ==
  /\ said["remote"].written < ToWrite[role].remote
  /\ AvailableCapacity(outbound(remote.peer)) > 0
  /\ Says("remote")
  /\ RemoteFeeds(Push(outbound(remote.peer), << said["remote"].written + 1 >>))

RemoteShut ==
  /\ said' = [said EXCEPT !["remote"].shut = TRUE]
  /\ RemoteFeeds(Close(outbound(remote.peer)))

(* One mishap: the remote end resets the connection and is gone;           *)
Happens(what) == May(what) /\ mishap' = what

ResetSegment ==
  wrap_tcp_in_ip(remote.adapter,
    [sender |-> [Sender!make_empty_message(remote.peer.sender) EXCEPT !.RST = TRUE],
     receiver |-> Receiver!send(remote.peer.receiver)])

RemoteReset ==
  /\ Happens("reset")
  /\ has_ackno(remote.peer) /\ ~remote.gone
  /\ remote' = [remote EXCEPT !.gone = TRUE]
  /\ fd' = [fd EXCEPT !.tun.inbox = Append(@, ResetSegment)]
  /\ UNCHANGED <<role, pc, socket, copy, said, failure>>

(* a datagram arrives that would reset the connection, were it ours;       *)
Strays ==
  { [ResetSegment EXCEPT !.src = "other"], [ResetSegment EXCEPT !.dst = "other"],
    [ResetSegment EXCEPT !.proto = "UDP"], [ResetSegment EXCEPT !.intact = FALSE],
    [ResetSegment EXCEPT !.segment.src_port = 9],
    [ResetSegment EXCEPT !.segment.dst_port = 9] }

Stray ==
  /\ fd.tun.inbox = << >>
  /\ Happens("stray")
  /\ \E dgram \in Strays : fd' = [fd EXCEPT !.tun.inbox = Append(@, dgram)]
  /\ UNCHANGED <<role, pc, socket, copy, remote, said, failure>>

(* nobody reads standard output any more;                                  *)
BreakStdout ==
  /\ Happens("break")
  /\ fd' = [fd EXCEPT !.stdout.broken = TRUE]
  /\ UNCHANGED <<role, pc, socket, copy, remote, said, failure>>

(* or the copy throws, for want of memory say, and the socket is           *)
(* destructed: the thread is told to abort.                                *)
Throw ==
  /\ pc.owner = "dispatch"
  /\ Happens("throw")
  /\ OwnerStep(Context(copy, {}), "aborting")

Owner == OwnerPoll \/ OwnerDispatch \/ wait_until_closed \/ Join

Surroundings ==
  \/ Type \/ EndStdin \/ RemoteWrite \/ RemoteShut
  \/ RemoteReset \/ Stray \/ BreakStdout \/ Throw

Next ==
  /\ Alive
  /\ \/ Start \/ Established \/ TcpPoll \/ TcpDispatch
     \/ Owner /\ UNCHANGED mishap
     \/ pc.owner # "ended" /\ Surroundings

Spec == Init /\ [][Next]_vars

-----------------------------------------------------------------------------
(* The scheduler runs a thread that can run, and whoever writes ends some  *)
(* time.                                                                   *)
OwnerRuns ==
  CASE pc.owner = "establishing" -> pc.tcp = "returned"
    [] pc.owner \in {"joining", "aborting"} -> pc.tcp = "ended"
    [] OTHER -> pc.owner # "ended"

Phases ==
  {"start", "establishing", "returned", "poll", "dispatch", "closing", "joining",
   "aborting", "ended"}

Moves(t) == pc' \in { [pc EXCEPT ![t] = phase] : phase \in Phases }

CanEnd(w) ==
  /\ Alive /\ pc.owner # "ended" /\ ~said[w].shut
  /\ IF w = "stdin" THEN Copying ELSE ~remote.gone /\ has_ackno(remote.peer)

FairSpec ==
  /\ Spec
  /\ WF_pc(Alive /\ OwnerRuns /\ Moves("owner"))
  /\ WF_pc(Alive /\ TcpRuns /\ Moves("tcp"))
  /\ \A w \in Writers :
       WF_said(CanEnd(w) /\ said' = [said EXCEPT ![w].shut = TRUE])

-----------------------------------------------------------------------------
Orderly == mishap \in {"none", "loss", "stray"}

Heard == [stdin |-> remote.read, remote |-> fd.stdout.inbox]
Ended == [stdin |-> IsFinished(inbound(remote.peer)), remote |-> fd.stdout.closed]

Stream(w, ended) ==
  [written |-> said[w].written, shut |-> said[w].shut,
   arrived |-> Heard[w], ended |-> ended]

Conversation == [w \in Writers |-> Stream(w, Ended[w])]

Whole == INSTANCE ReliableStreams WITH Peers <- Writers, stream <- Conversation
Endless == INSTANCE ReliableStreams WITH
  Peers <- Writers, stream <- [w \in Writers |-> Stream(w, FALSE)]

(* Through the copy, the socket pair, the socket and its loop, what        *)
(* standard input says reaches the remote application, and what that says  *)
(* standard output, in order and once whatever happens; and unless the     *)
(* connection was broken off, it ends only at its end: no stray datagram   *)
(* ends it.                                                                *)
ProgramImplementsReliableStreams ==
  Endless!Spec /\ [][Orderly' => Whole!Next]_Conversation

(* No loop is found to wait busily, and no thread writes to an end that    *)
(* another has shut down, unless output had been broken off.               *)
NeverDies == failure # "none" => mishap \in {"break", "reset"}

(* A program that ends in order has passed on all that was said.           *)
EndsComplete ==
  Orderly /\ pc.owner = "ended" =>
    \A w \in Writers :
      said[w].shut /\ Ended[w] /\ Len(Heard[w]) = said[w].written

(* The program ends once both sides have: after a reset, an exception, a   *)
(* loss, with the last acknowledgment lost or the window closed.           *)
ProgramEnds == <>(pc.owner = "ended" \/ failure # "none" \/ mishap = "break")
=============================================================================
