--------------------------- MODULE FileDescriptor ---------------------------
(***************************************************************************)
(* The FileDescriptors of the program (src/util/file_descriptor.cc and     *)
(* Socket::shutdown) over what the kernel keeps for them: the two ends     *)
(* `app' and `tcp' of the socket pair between the owner of a               *)
(* TCPMinnowSocket and its TCP thread, `stdin', `stdout', and `tun', whose *)
(* inbox holds datagrams.  All are non-blocking.                           *)
(*                                                                         *)
(* Operations map a context, a record with the fields                      *)
(*   fd        the descriptors: shared by all threads                      *)
(*   counted   "In" or "Out" once the callback that runs has counted a     *)
(*             read or a write of its rule's descriptor                    *)
(*   failure   why the program died                                        *)
(* and others that belong to the thread.                                   *)
(***************************************************************************)
EXTENDS Streams

CONSTANT SockBuf      \* bytes an end of the socket pair holds

(* rd: no more will come, wr: no more may be written (sk_shutdown of an    *)
(* AF_UNIX socket, or the other end of a pipe is closed).                  *)
NewDescriptor(kind) ==
  [kind |-> kind, inbox |-> << >>, rd |-> FALSE, wr |-> FALSE, broken |-> FALSE,
   eof |-> FALSE, closed |-> FALSE]

(* Whose inbox takes what is written to a descriptor; what was written to  *)
(* standard output stays in its own.                                       *)
Sink == [app |-> "tcp", tcp |-> "app", stdout |-> "stdout"]

Room(fd, e) ==
  IF fd[e].kind = "socket" THEN SockBuf - Len(fd[Sink[e]].inbox) ELSE 1

(* What poll(2) reports: an end whose both directions are shut down has    *)
(* hung up and is still readable and writable; a pipe without a writer has *)
(* only hung up; one without a reader is in error.                         *)
poll(fd, e) ==
  LET d == fd[e] IN
  (IF d.inbox # << >> \/ (d.rd /\ d.kind # "pipe") THEN {"In"} ELSE {})
    \cup (IF e \in DOMAIN Sink /\ Room(fd, e) > 0 THEN {"Out"} ELSE {})
    \cup (IF d.rd /\ (d.wr \/ d.kind = "pipe") THEN {"HUP"} ELSE {})
    \cup (IF d.broken THEN {"ERR"} ELSE {})

Fail(c, why) == [c EXCEPT !.failure = IF @ = "none" THEN why ELSE @]

(* read(): EAGAIN clears the buffer and counts as no read; only a read of  *)
(* nothing is the end of file.                                             *)
read(c, e, size) ==
  LET d == c.fd[e]
      n == Lesser(Len(d.inbox), size)
  IN  IF d.inbox = << >> /\ ~d.rd THEN [c |-> c, data |-> << >>]
      ELSE [c |-> [c EXCEPT !.fd[e].inbox = SubSeq(@, n + 1, Len(@)),
                            !.fd[e].eof = @ \/ n = 0,
                            !.counted = @ \cup {"In"}],
            data |-> SubSeq(d.inbox, 1, n)]

(* write(): as much as fits.  A write that may not be kills the process    *)
(* (SIGPIPE), one that takes nothing throws.                               *)
write(c, e, data) ==
  LET Took(n) ==
        [c |-> [c EXCEPT !.fd[Sink[e]].inbox = @ \o SubSeq(data, 1, n),
                         !.counted = @ \cup {"Out"}],
         n |-> n]
      room == IF c.fd[e].kind = "socket" THEN Room(c.fd, e) ELSE Len(data)
  IN  IF c.fd[e].wr \/ c.fd[e].broken THEN [c |-> Fail(c, "SIGPIPE"), n |-> 0]
      ELSE IF room = 0 /\ data # << >>
      THEN [c |-> Fail(c, "write returned 0"), n |-> 0]
      ELSE Took(Lesser(Len(data), room))

(* shutdown() of the directions `how' at one end shows at the other, and   *)
(* counts as a read or a write.                                            *)
shutdown(c, e, how) ==
  [c EXCEPT !.fd[e].rd = @ \/ "In" \in how, !.fd[e].wr = @ \/ "Out" \in how,
            !.fd[Sink[e]].rd = @ \/ "Out" \in how,
            !.fd[Sink[e]].wr = @ \/ "In" \in how,
            !.counted = @ \cup how]

close(c, e) == [c EXCEPT !.fd[e].eof = TRUE, !.fd[e].closed = TRUE]
=============================================================================
