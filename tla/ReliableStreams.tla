-------------------------- MODULE ReliableStreams --------------------------
(***************************************************************************)
(* What a TCP connection promises its two applications: in each direction  *)
(* a stream of bytes of which the reader's end always holds a prefix of    *)
(* what was written, whose end is seen only once everything written has    *)
(* arrived.  stream[p] is the stream p writes; a step of a stream relates  *)
(* its old and its new value.                                              *)
(***************************************************************************)
EXTENDS Naturals, Sequences

CONSTANT Peers

VARIABLE stream

New == [written |-> 0, shut |-> FALSE, arrived |-> << >>, ended |-> FALSE]

Bytes(m, n) == [k \in 1..(n - m) |-> m + k]    \* bytes m+1 .. n

Init == stream = [p \in Peers |-> New]

Write(old, new) ==
  /\ ~old.shut
  /\ new.written > old.written
  /\ new = [old EXCEPT !.written = new.written]

Shut(old, new) == new = [old EXCEPT !.shut = TRUE]

(* Some more bytes arrive, in order; the end may arrive with the last.     *)
Arrive(old, new) ==
  LET n == Len(new.arrived) IN
  /\ ~old.ended
  /\ n <= old.written
  /\ new.arrived = old.arrived \o Bytes(Len(old.arrived), n)
  /\ new.ended => old.shut /\ n = old.written
  /\ new = [old EXCEPT !.arrived = new.arrived, !.ended = new.ended]

Next ==
  \E p \in Peers :
    /\ \A q \in Peers \ {p} : stream'[q] = stream[q]
    /\ LET old == stream[p]
           new == stream'[p]
       IN  Shut(old, new) \/ Write(old, new) \/ Arrive(old, new)

Spec == Init /\ [][Next]_stream
=============================================================================
