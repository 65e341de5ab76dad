--------------------------- MODULE MCReassembler ---------------------------
(***************************************************************************)
(* Two worlds: the segments of one honest stream, every substring of       *)
(* Source, empty ones included, marked last exactly when it reaches the    *)
(* end; and segments that may contradict one another.                      *)
(***************************************************************************)
EXTENDS ReassemblerLoops

CONSTANTS StreamLength, HonestCapacity, AnyLength, AnyCapacity

(* Neighbouring bytes differ, so that a shifted byte is a wrong byte.      *)
Source == [i \in 1..StreamLength |-> i % 3]

MCByte == 0..2

MCCapacity == [honest |-> HonestCapacity, any |-> AnyCapacity]

Substrings ==
  { [first_index |-> f, data |-> SubSeq(Source, f + 1, l),
     is_last_substring |-> e] :
      f \in 0..StreamLength, l \in 0..StreamLength, e \in BOOLEAN }

(* The last byte may come with the mark or, when the sender had not closed *)
(* yet, without it.                                                        *)
HonestSegments ==
  { seg \in Substrings :
      seg.is_last_substring =>
        seg.first_index + Len(seg.data) = StreamLength }

(* Segments that contradict one another in their bytes and in where the    *)
(* stream ends, and one whose index is the last 64-bit value: what         *)
(* TCPReceiver passes for a segment that carries the initial sequence      *)
(* number without SYN (src/src/tcp_receiver.cc:30-33).                     *)
AnySegments ==
  [first_index : (0..AnyLength) \cup {U64 - 1},
   data : BoundedSeq({0, 1}, 1) \cup {<<0, 1>>, <<1, 0>>, <<1, 0, 1>>},
   is_last_substring : BOOLEAN]

MCSegments == [honest |-> HonestSegments, any |-> AnySegments]
=============================================================================
