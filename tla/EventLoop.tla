------------------------------ MODULE EventLoop ------------------------------
(***************************************************************************)
(* EventLoop::wait_next_event (src/util/eventloop.cc) for the rules of one *)
(* loop, given by the operators below.  A context's own.rules is the       *)
(* sequence of the rules that have not been erased.  One call is split     *)
(* where poll(2) returns: what it reported is a snapshot, and another      *)
(* thread may act before the rule is served.                               *)
(***************************************************************************)
EXTENDS FileDescriptor, SequencesExt

CONSTANTS
  Descriptor(_),       \* of a rule: its fd,
  Direction(_),        \* "In" or "Out",
  Interested(_, _),    \* and its callbacks, of the rule and a context
  Callback(_, _), OnCancel(_, _), OnError(_, _)

DescriptorOf(c, rule) == c.fd[Descriptor(rule)]

Erase(c, rule) == [c EXCEPT !.own.rules = Remove(@, rule)]

(* The end of file of a descriptor ends the rules that write it, too.      *)
FaultyDefunct(c, rule) == DescriptorOf(c, rule).eof

(* Both directions of a socket share the eof flag: only reading is over.   *)
Defunct(c, rule) ==
  \/ Direction(rule) = "In" /\ DescriptorOf(c, rule).eof
  \/ DescriptorOf(c, rule).closed

(* Before poll(2): cancel what is defunct, ask the others for interest.    *)
Prepare(s, rule) ==
  IF Defunct(s.c, rule)
  THEN [s EXCEPT !.c = Erase(OnCancel(@, rule), rule)]
  ELSE [s EXCEPT !.asked = @ \cup (IF Interested(s.c, rule) THEN {rule} ELSE {})]

(* asked = {}: nothing left to poll, Result::Exit.                         *)
Prepared(c) == FoldLeft(Prepare, [c |-> c, asked |-> {}], c.own.rules)

(* What poll(2) reported of a rule's descriptor (hangups and errors it     *)
(* reports unasked) and what becomes of the rule: an error erases it, and  *)
(* so does a hangup if it asked and got nothing else, or if it writes.     *)
Verdict(fd, asked, rule) ==
  LET revents == poll(fd, Descriptor(rule))
      ready == rule \in asked /\ Direction(rule) \in revents
  IN  CASE "ERR" \in revents -> "error"
        [] /\ "ERR" \notin revents /\ "HUP" \in revents
           /\ (rule \in asked /\ ~ready) \/ Direction(rule) = "Out" -> "hangup"
        [] OTHER -> IF ready THEN "ready" ELSE "quiet"

Polled(c, asked) ==
  [c EXCEPT !.own.polled =
     [rule \in ToSet(c.own.rules) |-> Verdict(c.fd, asked, rule)]]

(* Nothing to do: poll(2) goes on waiting, or returns at once for a hangup *)
(* that ends no rule, and is called again.                                 *)
Quiet(polled) == \A rule \in DOMAIN polled : polled[rule] = "quiet"

(* A callback has to use its descriptor or lose interest.                  *)
Served(after, rule) ==
  IF /\ Direction(rule) \notin after.counted
     /\ ~DescriptorOf(after, rule).closed
     /\ Interested(after, rule)
  THEN Fail(after, "busy wait") ELSE after

(* After poll(2): erase what is in error or has hung up, until one rule    *)
(* has been served.                                                        *)
Dispatched(c) ==
  LET Serve(s, rule) ==
        [c |-> Served(Callback([s.c EXCEPT !.counted = {}], rule), rule),
         served |-> TRUE]
      Visit(s, rule) ==
        CASE s.served \/ c.own.polled[rule] = "quiet" -> s
          [] ~s.served /\ c.own.polled[rule] = "error" ->
               [s EXCEPT !.c = Erase(OnCancel(OnError(@, rule), rule), rule)]
          [] ~s.served /\ c.own.polled[rule] = "hangup" ->
               [s EXCEPT !.c = Erase(OnCancel(@, rule), rule)]
          [] ~s.served /\ c.own.polled[rule] = "ready" -> Serve(s, rule)
      end == FoldLeft(Visit, [c |-> c, served |-> FALSE], c.own.rules)
  IN  [end EXCEPT !.c.own.polled = << >>]
=============================================================================
