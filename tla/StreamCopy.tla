----------------------------- MODULE StreamCopy -----------------------------
(***************************************************************************)
(* bidirectional_stream_copy (src/apps/bidirectional_stream_copy.cc): four *)
(* rules that fill and drain two ByteStreams between standard input, a     *)
(* socket and standard output.                                             *)
(***************************************************************************)
EXTENDS FileDescriptor

CONSTANT CopyCapacity        \* buffer_size

(* Named after what the rules read or write.                               *)
CopyRules == << "stdin", "to socket", "from socket", "stdout" >>

NewCopy ==
  [outbound |-> NewStream(CopyCapacity), inbound |-> NewStream(CopyCapacity),
   outbound_shutdown |-> FALSE, inbound_shutdown |-> FALSE,
   rules |-> CopyRules, polled |-> << >>]

CopyDescriptor(rule) ==
  IF rule \in {"stdin", "stdout"} THEN rule ELSE "app"

CopyDirection(rule) ==
  IF rule \in {"stdin", "from socket"} THEN "In" ELSE "Out"

StreamOf(rule) ==
  IF rule \in {"stdin", "to socket"} THEN "outbound" ELSE "inbound"

(* Read as much as there is room for; the end of file closes the stream.   *)
Fill(c, e, stream) ==
  LET Filled(got) ==
        [got.c EXCEPT !.own[stream] =
           IF got.c.fd[e].eof THEN Close(Push(@, got.data)) ELSE Push(@, got.data)]
  IN  Filled(read(c, e, AvailableCapacity(c.own[stream])))

(* Pop what the descriptor took of what peek() shows.                      *)
Drain(c, e, stream) ==
  LET Drained(wrote) == [wrote.c EXCEPT !.own[stream] = Pop(@, wrote.n)]
  IN  IF BytesBuffered(c.own[stream]) = 0 THEN c
      ELSE Drained(write(c, e, Peek(c.own[stream])))

ReadStdin(c) == Fill(c, "stdin", "outbound")
ReadSocket(c) == Fill(c, "app", "inbound")

WriteSocket(c) ==
  LET Finish(d) ==
        IF ~IsFinished(d.own.outbound) THEN d
        ELSE [shutdown(d, "app", {"Out"}) EXCEPT !.own.outbound_shutdown = TRUE]
  IN  Finish(Drain(c, "app", "outbound"))

WriteStdout(c) ==
  LET Finish(d) ==
        IF ~IsFinished(d.own.inbound) THEN d
        ELSE [close(d, "stdout") EXCEPT !.own.inbound_shutdown = TRUE]
  IN  Finish(Drain(c, "stdout", "inbound"))

CopyCallback(c, rule) ==
  CASE rule = "stdin" -> ReadStdin(c)
    [] rule = "to socket" -> WriteSocket(c)
    [] rule = "from socket" -> ReadSocket(c)
    [] rule = "stdout" -> WriteStdout(c)

WantsToFill(own, stream) ==
  /\ ~own.outbound.error /\ ~own.inbound.error
  /\ AvailableCapacity(own[stream]) > 0
  /\ ~own[stream].closed

(* The end of the stream is passed on again and again.                     *)
EndlessWantsToDrain(stream, shut) == BytesBuffered(stream) > 0 \/ IsFinished(stream)

WantsToDrain(stream, shut) ==
  BytesBuffered(stream) > 0 \/ (IsFinished(stream) /\ ~shut)

CopyInterested(c, rule) ==
  CASE rule = "to socket" -> WantsToDrain(c.own.outbound, c.own.outbound_shutdown)
    [] rule = "stdout" -> WantsToDrain(c.own.inbound, c.own.inbound_shutdown)
    [] OTHER -> WantsToFill(c.own, StreamOf(rule))

CopyCancel(c, rule) == [c EXCEPT !.own[StreamOf(rule)] = Close(@)]

CopyError(c, rule) ==
  [c EXCEPT !.own.outbound = SetError(@), !.own.inbound = SetError(@)]
=============================================================================
