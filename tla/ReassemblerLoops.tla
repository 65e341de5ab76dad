-------------------------- MODULE ReassemblerLoops --------------------------
(***************************************************************************)
(* Reassembler::insert as the code computes it: a walk over the ordered    *)
(* map from the first substring that may overlap, pairwise classification  *)
(* and merging, and a loop that pushes the head of the map while it is the *)
(* next one.  Reassembler.tla says what these loops compute; the run over  *)
(* this module compares the two on every reachable state and segment.      *)
(***************************************************************************)
EXTENDS ReassemblerSystem, SequencesExt

InOrder(substrings) == SetToSortSeq(substrings, LAMBDA s, t : s.first < t.first)

check_overlap(a, b) ==
  CASE a.last < b.first -> "DisjointBefore"
    [] a.first > b.last -> "DisjointAfter"
    [] a.first = b.first /\ a.last = b.last -> "ExactMatch"
    [] a.first <= b.first /\ a.last >= b.last
         /\ ~(a.first = b.first /\ a.last = b.last) -> "StrictlyEncloses"
    [] a.first >= b.first /\ a.last <= b.last
         /\ ~(a.first = b.first /\ a.last = b.last) -> "StrictlyInside"
    [] a.first < b.first /\ a.last < b.last /\ a.last >= b.first -> "OverlapStart"
    [] a.first > b.first /\ a.last > b.last /\ a.first <= b.last -> "OverlapEnd"
    [] OTHER -> "throw"

(* memcpy of a, then of b over it.                                         *)
merge_substrings(a, b) ==
  LET first == Lesser(a.first, b.first)
      last  == Greater(a.last, b.last)
  IN  Substring(first, last, [i \in first..last |->
                               IF Covers(b, i) THEN b.data[i] ELSE a.data[i]])

(* The while loop: `rest' is what the iterator has still to visit.         *)
RECURSIVE Walk(_, _, _)
Walk(new, visited, rest) ==
  IF rest = << >> THEN visited \cup {new}
  ELSE LET current == Head(rest)
           status  == check_overlap(new, current)
       IN  CASE status \in {"OverlapStart", "OverlapEnd"} ->
                  Walk(merge_substrings(new, current), visited, Tail(rest))
             [] status = "StrictlyEncloses" -> Walk(new, visited, Tail(rest))
             [] status \in {"StrictlyInside", "ExactMatch"} ->
                  visited \cup ToSet(rest)
             [] status = "DisjointAfter" -> visited \cup ToSet(rest) \cup {new}
             [] status = "DisjointBefore" ->
                  Walk(new, visited \cup {current}, Tail(rest))

(* lower_bound(first), or the substring before it when that reaches first. *)
StartsHere(substrings, first) ==
  { s \in substrings : s.first >= first \/ s.first + (s.last - s.first + 1) > first }

(* The push loop.                                                          *)
RECURSIVE PushReady(_)
PushReady(state) ==
  IF state.substrings = {} \/ state.output.closed THEN state
  ELSE LET head == InOrder(state.substrings)[1] IN
       IF head.first # state.next_index_to_write THEN state
       ELSE PushReady([state EXCEPT
              !.output = Push(@, [k \in 1..(head.last - head.first + 1) |->
                                    head.data[head.first + k - 1]]),
              !.next_index_to_write = @ + (head.last - head.first + 1),
              !.substrings = @ \ {head}])

InsertByLoops(state, first_index, data, is_last_substring) ==
  LET noted == NoteEof(state, first_index, data, is_last_substring)
      new   == Trimmed(state, first_index, data)
      start == StartsHere(state.substrings, new.first)
      stored == Walk(new, state.substrings \ start, InOrder(start))
  IN  IF NothingToStore(state, first_index, data) THEN CloseAtEof(noted)
      ELSE IF \E s \in start : check_overlap(new, s) \in {"StrictlyInside", "ExactMatch"}
      THEN [noted EXCEPT !.substrings = stored]
      ELSE CloseAtEof(PushReady([noted EXCEPT !.substrings = stored]))

(* The loops and the sets agree on every state the program can be in and   *)
(* every segment it can be given there.                                    *)
LoopsAgree ==
  \A seg \in Segments[world] :
    InsertByLoops(r, seg.first_index, seg.data, seg.is_last_substring)
      = Insert(r, seg.first_index, seg.data, seg.is_last_substring)
=============================================================================
