---------------------------- MODULE Reassembler ----------------------------
(***************************************************************************)
(* The Reassembler of src/src/reassembler.cc as operators on a record: the *)
(* output stream, the set of substrings that wait for earlier bytes        *)
(* (`substrings_', a map keyed by first index), the next index to write    *)
(* and the end of the stream once a last substring has announced it.       *)
(*                                                                         *)
(* A stored substring covers the indices first..last, and its data is a    *)
(* function on them.  The loops over the map are written as the sets they  *)
(* compute; ReassemblerLoops.tla has the loops themselves.                 *)
(***************************************************************************)
EXTENDS Streams

CONSTANT U64       \* 2^64: the width of an index

Greater(a, b) == IF a >= b THEN a ELSE b

NewReassembler(output) ==
  [output |-> output, substrings |-> {}, next_index_to_write |-> 0,
   eof_received |-> FALSE, eof_index |-> 0]

Substring(first, last, data) == [first |-> first, last |-> last, data |-> data]

Covers(s, i) == s.first <= i /\ i <= s.last

Disjoint(s, t) == s.last < t.first \/ t.last < s.first

Inside(s, t) == t.first <= s.first /\ s.last <= t.last

-----------------------------------------------------------------------------
(* A definition named Faulty... is a plausible bug that no other uses: it  *)
(* shows that a property tells it from the code.  Here: the whole capacity *)
(* instead of what is left of it.                                          *)
FaultyFirstUnacceptable(r) == r.next_index_to_write + r.output.capacity

FirstUnacceptable(r) == r.next_index_to_write + AvailableCapacity(r.output)

(* One past the index of the last byte, in 64-bit arithmetic.              *)
OriginalLast(first_index, data) == (first_index + Len(data)) % U64

(* The part of data that is neither written yet nor beyond the capacity:   *)
(* the indices Start..End - 1.                                             *)
Start(r, first_index) == Greater(first_index, r.next_index_to_write)
End(r, first_index, data) ==
  Lesser(OriginalLast(first_index, data), FirstUnacceptable(r))

(* Off by one: an empty substring is stored.                               *)
FaultyNothingToStore(r, first_index, data) ==
  Start(r, first_index) > End(r, first_index, data)

NothingToStore(r, first_index, data) ==
  Start(r, first_index) >= End(r, first_index, data)

(* The bytes already written are counted off but not cut off.              *)
FaultyTrimmed(r, first_index, data) ==
  LET start == Start(r, first_index)
      last  == End(r, first_index, data) - 1
  IN  Substring(start, last, [i \in start..last |-> data[i - start + 1]])

Trimmed(r, first_index, data) ==
  LET start == Start(r, first_index)
      last  == End(r, first_index, data) - 1
  IN  Substring(start, last, [i \in start..last |-> data[i - first_index + 1]])

(* The end of the stream is taken after the trim to the capacity.          *)
FaultyNoteEof(r, first_index, data, is_last_substring) ==
  IF is_last_substring
  THEN [r EXCEPT !.eof_received = TRUE,
                 !.eof_index = End(r, first_index, data)]
  ELSE r

(* A last substring fixes the end of the stream, even when its own bytes   *)
(* are discarded.                                                          *)
NoteEof(r, first_index, data, is_last_substring) ==
  IF is_last_substring
  THEN [r EXCEPT !.eof_received = TRUE,
                 !.eof_index = OriginalLast(first_index, data)]
  ELSE r

(* Where two substrings overlap the later one wins.                        *)
FaultyMerged(substrings, new) ==
  LET absorbed == { s \in substrings : ~Disjoint(s, new) }
      firsts == {s.first : s \in absorbed \cup {new}}
      lasts  == {s.last : s \in absorbed \cup {new}}
      first == CHOOSE f \in firsts : \A g \in firsts : f <= g
      last  == CHOOSE l \in lasts : \A m \in lasts : l >= m
  IN  Substring(first, last,
        [i \in first..last |->
           IF Covers(new, i) THEN new.data[i]
           ELSE (CHOOSE s \in absorbed : Covers(s, i)).data[i]])

(* The new substring absorbs those it overlaps.  Where it overlaps one     *)
(* partially the stored bytes stay; one it encloses is replaced.           *)
Merged(substrings, new) ==
  LET absorbed == { s \in substrings : ~Disjoint(s, new) }
      kept     == { s \in absorbed : ~Inside(s, new) }
      first == CHOOSE f \in {s.first : s \in absorbed \cup {new}} :
                 \A s \in absorbed \cup {new} : f <= s.first
      last  == CHOOSE l \in {s.last : s \in absorbed \cup {new}} :
                 \A s \in absorbed \cup {new} : l >= s.last
  IN  Substring(first, last,
        [i \in first..last |->
           IF \E s \in kept : Covers(s, i)
           THEN (CHOOSE s \in kept : Covers(s, i)).data[i]
           ELSE new.data[i]])

(* What the new substring overlaps is dropped, not merged.                 *)
FaultyStore(substrings, new) ==
  { s \in substrings : Disjoint(s, new) } \cup { new }

(* What the new substring overlaps is kept beside it.                      *)
OverlappingStore(substrings, new) == substrings \cup { new }

Store(substrings, new) ==
  { s \in substrings : Disjoint(s, new) } \cup { Merged(substrings, new) }

Known(substrings, i) == \E s \in substrings : Covers(s, i)

(* The first index not yet known: what the push loop stops at.             *)
Gap(r) ==
  CHOOSE e \in r.next_index_to_write..FirstUnacceptable(r) :
    /\ ~Known(r.substrings, e)
    /\ \A i \in r.next_index_to_write..(e - 1) : Known(r.substrings, i)

ByteAt(substrings, i) == (CHOOSE s \in substrings : Covers(s, i)).data[i]

(* Write the substrings that have become contiguous with the output.       *)
Drain(r) ==
  LET next == r.next_index_to_write
      gap  == Gap(r)
  IN  IF r.output.closed THEN r
      ELSE [r EXCEPT
              !.output = Push(@, [k \in 1..(gap - next) |->
                                    ByteAt(r.substrings, next + k - 1)]),
              !.next_index_to_write = gap,
              !.substrings = { s \in @ : s.first > gap }]

(* The output is closed as soon as its end is known.                       *)
FaultyCloseAtEof(r) ==
  IF r.eof_received THEN [r EXCEPT !.output = Close(@)] ELSE r

CloseAtEof(r) ==
  IF r.eof_received /\ r.next_index_to_write = r.eof_index
  THEN [r EXCEPT !.output = Close(@)]
  ELSE r

Insert(r, first_index, data, is_last_substring) ==
  LET noted == NoteEof(r, first_index, data, is_last_substring)
      new   == Trimmed(r, first_index, data)
  IN  IF NothingToStore(r, first_index, data) THEN CloseAtEof(noted)
      ELSE IF \E s \in r.substrings : Inside(new, s) THEN noted
      ELSE CloseAtEof(Drain([noted EXCEPT !.substrings = Store(@, new)]))
=============================================================================
