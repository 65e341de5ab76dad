------------------------- MODULE ReassemblerSystem -------------------------
(***************************************************************************)
(* A Reassembler, the segments that may reach it, in any order and any     *)
(* number of times, and the application that reads its output.  (set_error *)
(* only marks the output; TCPReceiver.tla, its caller, has it.)            *)
(***************************************************************************)
EXTENDS Reassembler

CONSTANTS
  Byte,
  Worlds,     \* what may arrive differs:
  Capacity,   \* of a world: the output stream's,
  Segments    \* and its records [first_index, data, is_last_substring]

ASSUME ReassemblerAssumption ==
  /\ U64 \in Nat
  /\ \A w \in Worlds :
       /\ Capacity[w] \in Nat \ {0}
       /\ \A seg \in Segments[w] :
            /\ seg \in [first_index : 0..(U64 - 1), data : Seq(Byte),
                       is_last_substring : BOOLEAN]
            /\ Len(seg.data) < U64

(* One past the last byte of a segment, were there no width.               *)
EndOf(seg) == seg.first_index + Len(seg.data)

Wraps(seg) == EndOf(seg) >= U64

(* No stream has 2^64 bytes: the window never reaches a segment that runs  *)
(* past the last index.                                                    *)
ASSUME WrapAssumption ==
  \A w \in Worlds : \A seg \in Segments[w] : Wraps(seg) =>
    /\ Capacity[w] <= seg.first_index
    /\ \A other \in Segments[w] :
         other.data # << >> /\ ~Wraps(other) =>
           EndOf(other) + Capacity[w] <= seg.first_index

VARIABLES
  world,
  r,          \* the Reassembler
  offered     \* history: <<index, byte>> for every byte that has arrived
              \* while its index was acceptable

vars == <<world, r, offered>>

Init ==
  /\ world \in Worlds
  /\ r = NewReassembler(NewStream(Capacity[world]))
  /\ offered = {}

(* Bytes already written, or beyond the capacity, are not acceptable.      *)
Acceptable(seg) ==
  { i \in 1..Len(seg.data) : LET index == seg.first_index + i - 1 IN
      r.next_index_to_write <= index /\ index < FirstUnacceptable(r) }

Receive(seg) ==
  /\ r' = Insert(r, seg.first_index, seg.data, seg.is_last_substring)
  /\ offered' = offered \cup
       { <<seg.first_index + i - 1, seg.data[i]>> : i \in Acceptable(seg) }
  /\ UNCHANGED world

Read(len) ==
  /\ len <= BytesBuffered(r.output)
  /\ r' = [r EXCEPT !.output = Pop(@, len)]
  /\ UNCHANGED <<world, offered>>

Next ==
  \/ \E seg \in Segments[world] : Receive(seg)
  \/ \E len \in 1..Capacity[world] : Read(len)

Spec == Init /\ [][Next]_vars

-----------------------------------------------------------------------------
SubstringType(s) ==
  /\ s.first \in Nat /\ s.last \in Nat /\ s.first <= s.last
  /\ s.data \in [s.first..s.last -> Byte]
  /\ s = Substring(s.first, s.last, s.data)

TypeOK ==
  /\ r = [output |-> r.output, substrings |-> r.substrings,
          next_index_to_write |-> r.next_index_to_write,
          eof_received |-> r.eof_received, eof_index |-> r.eof_index]
  /\ r.output \in StreamType(Capacity[world], Byte)
  /\ \A s \in r.substrings : SubstringType(s)
  /\ r.next_index_to_write \in Nat /\ r.eof_index \in Nat
  /\ r.eof_received \in BOOLEAN
  /\ offered \subseteq Nat \X Byte

(* next_index_to_write_ is kept beside the output's own count: the two     *)
(* never part, although push() may truncate and the increment does not     *)
(* look at how much was taken.                                             *)
InStepWithOutput == r.next_index_to_write = BytesPushed(r.output)

(* Output and substrings share one budget: what waits lies beyond the next *)
(* index, within the capacity left, and no two waiting substrings overlap. *)
PendingWithinWindow ==
  /\ BytesBuffered(r.output) <= Capacity[world]
  /\ \A s \in r.substrings :
       /\ s.last < FirstUnacceptable(r)
       /\ r.output.closed \/ s.first > r.next_index_to_write
  /\ \A s, t \in r.substrings : s = t \/ Disjoint(s, t)

(* Whatever arrives, every byte handed over, read or still buffered, and   *)
(* every byte kept waiting, is one that arrived for exactly that index.    *)
NothingInvented ==
  /\ \A k \in 1..BytesBuffered(r.output) :
       <<r.output.popped + k - 1, r.output.queue[k]>> \in offered
  /\ \A s \in r.substrings : \A i \in s.first..s.last :
       <<i, s.data[i]>> \in offered

(* A byte that arrived while acceptable is never asked for again: it is    *)
(* written or waiting, and it waits only for an earlier one.               *)
NothingForgotten ==
  \A p \in offered :
    \/ p[1] < r.next_index_to_write
    \/ Known(r.substrings, p[1]) /\ (p[1] # r.next_index_to_write \/ r.output.closed)

(* In an honest world all that arrives is of one stream, and only segments *)
(* that reach its end are marked last.                                     *)
Honest(w) ==
  \A seg, last \in Segments[w] :
    last.is_last_substring => ~Wraps(last) /\ EndOf(seg) <= EndOf(last)

(* The output of an honest stream is closed as soon as, and not before,    *)
(* all of it has been written and its end announced, even when the         *)
(* announcing segment's own bytes were beyond the capacity and dropped.    *)
ClosedExactlyAtEof ==
  Honest(world) =>
    \A last \in Segments[world] : last.is_last_substring =>
      (r.output.closed <=> r.eof_received /\ BytesPushed(r.output) = EndOf(last))
=============================================================================
