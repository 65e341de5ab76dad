-------------------------- MODULE ReassemblerProofs --------------------------
(***************************************************************************)
(* What holds of the Reassembler for every capacity, alphabet and set of   *)
(* segments, contradictory ones included.  The argument follows insert():  *)
(* a lemma for each of its steps (note the end, trim, store, drain, close) *)
(* on any Reassembler whatever, one for the whole of it, and an inductive  *)
(* invariant that speaks of two things only: which indices have been       *)
(* Reached, written or waiting, and which byte Stands at an index.         *)
(***************************************************************************)
EXTENDS ReassemblerSystem, Lemmas

USE ReassemblerAssumption

-----------------------------------------------------------------------------
(* Stored substrings: no two share an index, and none passes the bound.    *)
Apart(S) == \A s, t \in S : s = t \/ Disjoint(s, t)

Stored(S, bound) ==
  /\ \A s \in S : SubstringType(s) /\ s.last < bound
  /\ Apart(S)

(* Substrings are apart exactly when they share no index.                  *)
LEMMA DisjointShareNothing ==
  ASSUME NEW s, SubstringType(s), NEW t, SubstringType(t)
  PROVE  Disjoint(s, t) <=> \A i \in Nat : ~(Covers(s, i) /\ Covers(t, i))
<1>1. CASE Disjoint(s, t)
  BY <1>1 DEF SubstringType, Disjoint, Covers
<1>2. CASE ~Disjoint(s, t)
  <2>1. CASE s.first <= t.first
    BY <1>2, <2>1 DEF SubstringType, Disjoint, Covers
  <2>2. CASE t.first < s.first
    BY <1>2, <2>2 DEF SubstringType, Disjoint, Covers
  <2> QED
    BY <2>1, <2>2 DEF SubstringType
<1> QED
  BY <1>1, <1>2

(* What Merged() makes of a new substring: it stretches from the first to  *)
(* the last index of those it overlaps, has no hole, takes its bytes from  *)
(* one of them, and stays within the bound.                                *)
LEMMA MergedFacts ==
  ASSUME NEW bound \in Nat, NEW S, Stored(S, bound),
         NEW new, SubstringType(new), new.last < bound
  PROVE  LET m == Merged(S, new) IN
         /\ SubstringType(m)
         /\ m.last < bound
         /\ m.first <= new.first /\ new.last <= m.last
         /\ \E s \in S \cup {new} : m.first = s.first
         /\ \A s \in S : ~Disjoint(s, new) => m.first <= s.first /\ s.last <= m.last
         /\ \A i \in Nat : Covers(m, i) =>
              \/ Covers(new, i) /\ m.data[i] = new.data[i]
              \/ \E s \in S : ~Disjoint(s, new) /\ Covers(s, i) /\ m.data[i] = s.data[i]
<1> DEFINE absorbed == { s \in S : ~Disjoint(s, new) }
           kept == { s \in absorbed : ~Inside(s, new) }
           all == absorbed \cup {new}
           firsts == { s.first : s \in all }
           lasts == { s.last : s \in all }
           first == CHOOSE f \in firsts : \A s \in all : f <= s.first
           last == CHOOSE l \in lasts : \A s \in all : l >= s.last
           data == [i \in first..last |->
                      IF \E s \in kept : Covers(s, i)
                      THEN (CHOOSE s \in kept : Covers(s, i)).data[i]
                      ELSE new.data[i]]
<1>1. Merged(S, new) = Substring(first, last, data)
  BY DEF Merged
<1>2. \A s \in all : SubstringType(s) /\ s.last < bound
  BY DEF Stored
<1>3. first \in firsts /\ \A s \in all : first <= s.first
  <2>1. firsts \in SUBSET Nat /\ firsts # {}
    BY <1>2 DEF SubstringType
  <2>2. PICK f \in firsts : \A g \in firsts : f <= g
    BY <2>1, LeastExists
  <2>3. \E g \in firsts : \A s \in all : g <= s.first
    BY <2>2
  <2> QED
    BY <2>3
<1>4. last \in lasts /\ \A s \in all : last >= s.last
  <2>1. lasts \in SUBSET Nat /\ lasts # {} /\ \A l \in lasts : l <= bound
    BY <1>2 DEF SubstringType
  <2>2. PICK l \in lasts : \A k \in lasts : k <= l
    BY <2>1, GreatestExists
  <2>3. \A s \in all : l >= s.last
    BY <2>1, <2>2
  <2> QED
    BY <2>2, <2>3
<1>5. PICK f \in all, l \in all : first = f.first /\ last = l.last
  BY <1>3, <1>4
<1> HIDE DEF first, last
<1>6. /\ first \in Nat /\ last \in Nat /\ first <= new.first /\ new.last <= last
      /\ first <= last /\ last < bound
  BY <1>2, <1>3, <1>4, <1>5 DEF SubstringType
<1>7. ASSUME NEW i \in first..last, ~Covers(new, i)
      PROVE  \E s \in kept : Covers(s, i)
  <2>1. CASE i < new.first
    BY <2>1, <1>2, <1>5, <1>6, <1>7 DEF SubstringType, Disjoint, Covers, Inside
  <2>2. CASE new.last < i
    BY <2>2, <1>2, <1>5, <1>6, <1>7 DEF SubstringType, Disjoint, Covers, Inside
  <2> QED
    BY <2>1, <2>2, <1>6, <1>7 DEF Covers, SubstringType
<1>8. ASSUME NEW i \in first..last
      PROVE  \/ Covers(new, i) /\ data[i] = new.data[i]
             \/ \E s \in absorbed : Covers(s, i) /\ data[i] = s.data[i]
  <2>1. CASE \E s \in kept : Covers(s, i)
    <3> DEFINE t == CHOOSE s \in kept : Covers(s, i)
    <3>1. t \in kept /\ Covers(t, i)
      BY <2>1
    <3>2. data[i] = t.data[i]
      BY <2>1
    <3> QED
      BY <3>1, <3>2
  <2>2. CASE ~ \E s \in kept : Covers(s, i)
    BY <2>2, <1>7
  <2> QED
    BY <2>1, <2>2
<1>9. ASSUME NEW i \in first..last
      PROVE  data[i] \in Byte
  <2>1. PICK s \in all : Covers(s, i) /\ data[i] = s.data[i]
    BY <1>8
  <2>2. i \in s.first..s.last /\ SubstringType(s)
    BY <2>1, <1>2, <1>6 DEF Covers, SubstringType
  <2> QED
    BY <2>1, <2>2 DEF SubstringType
<1>10. data \in [first..last -> Byte]
  BY <1>9
<1> HIDE DEF data
<1> DEFINE m == Substring(first, last, data)
<1>11. m.first = first /\ m.last = last /\ m.data = data
  BY DEF Substring
<1>12. SubstringType(m)
  BY <1>6, <1>10, <1>11 DEF SubstringType
<1>13. \A i \in Nat : Covers(m, i) => i \in first..last
  BY <1>6, <1>11 DEF Covers
<1> HIDE DEF m
<1>14. /\ \E s \in S \cup {new} : m.first = s.first
       /\ \A s \in S : ~Disjoint(s, new) => m.first <= s.first /\ s.last <= m.last
  BY <1>3, <1>4, <1>5, <1>11, <1>2 DEF SubstringType
<1>15. \A i \in Nat : Covers(m, i) =>
         \/ Covers(new, i) /\ m.data[i] = new.data[i]
         \/ \E s \in S : ~Disjoint(s, new) /\ Covers(s, i) /\ m.data[i] = s.data[i]
  BY <1>8, <1>11, <1>13
<1>16. Merged(S, new) = m
  BY <1>1 DEF m
<1> QED
  BY <1>6, <1>11, <1>12, <1>14, <1>15, <1>16

(* Byte b stands at index i of a stored substring.                         *)
Holds(S, i, b) == \E s \in S : Covers(s, i) /\ s.data[i] = b

(* Storing a new substring keeps the substrings apart and within the       *)
(* bound, loses no index that was known, and adds no byte that was not in  *)
(* the store or in the new substring.                                      *)
LEMMA StoreFacts ==
  ASSUME NEW bound \in Nat, NEW S, Stored(S, bound),
         NEW new, SubstringType(new), new.last < bound
  PROVE  LET T == Store(S, new) IN
         /\ Stored(T, bound)
         /\ \A t \in T : \E s \in S \cup {new} : t.first = s.first
         /\ \A i \in Nat : Known(S, i) \/ Covers(new, i) => Known(T, i)
         /\ \A i \in Nat, b \in Byte : Holds(T, i, b) =>
              Holds(S, i, b) \/ (Covers(new, i) /\ new.data[i] = b)
<1> DEFINE m == Merged(S, new)
           rest == { s \in S : Disjoint(s, new) }
<1>1. /\ SubstringType(m)
      /\ m.last < bound
      /\ m.first <= new.first /\ new.last <= m.last
      /\ \E s \in S \cup {new} : m.first = s.first
      /\ \A s \in S : ~Disjoint(s, new) => m.first <= s.first /\ s.last <= m.last
      /\ \A i \in Nat : Covers(m, i) =>
           \/ Covers(new, i) /\ m.data[i] = new.data[i]
           \/ \E s \in S : ~Disjoint(s, new) /\ Covers(s, i) /\ m.data[i] = s.data[i]
  BY MergedFacts
<1>2. Store(S, new) = rest \cup {m}
  BY DEF Store
<1> HIDE DEF m
<1>3. ASSUME NEW s \in rest
      PROVE  Disjoint(s, m)
  <2>1. SubstringType(s) /\ Disjoint(s, new)
    BY DEF Stored
  <2>2. ASSUME NEW i \in Nat, Covers(s, i), Covers(m, i)
        PROVE  FALSE
    <3>1. CASE Covers(new, i)
      BY <2>1, <2>2, <3>1, DisjointShareNothing
    <3>2. CASE \E t \in S : ~Disjoint(t, new) /\ Covers(t, i)
      <4>1. PICK t \in S : ~Disjoint(t, new) /\ Covers(t, i)
        BY <3>2
      <4>2. SubstringType(t) /\ Disjoint(s, t)
        BY <2>1, <4>1 DEF Stored, Apart
      <4> QED
        BY <2>1, <2>2, <4>1, <4>2, DisjointShareNothing
    <3> QED
      BY <1>1, <2>2, <3>1, <3>2
  <2> QED
    BY <1>1, <2>1, <2>2, DisjointShareNothing
<1>4. Stored(rest \cup {m}, bound)
  <2>1. \A s \in rest \cup {m} : SubstringType(s) /\ s.last < bound
    BY <1>1 DEF Stored
  <2>2. \A s \in rest : Disjoint(m, s)
    BY <1>3 DEF Disjoint
  <2>3. \A s, t \in rest : s = t \/ Disjoint(s, t)
    BY DEF Stored, Apart
  <2> QED
    BY <1>3, <2>1, <2>2, <2>3 DEF Stored, Apart
<1>5. ASSUME NEW i \in Nat, Known(S, i) \/ Covers(new, i)
      PROVE  Known(rest \cup {m}, i)
  <2>1. CASE Covers(new, i)
    BY <1>1, <2>1 DEF Covers, SubstringType, Known
  <2>2. CASE Known(S, i)
    <3>1. PICK s \in S : Covers(s, i)
      BY <2>2 DEF Known
    <3>2. SubstringType(s)
      BY DEF Stored
    <3>3. CASE Disjoint(s, new)
      BY <3>1, <3>3 DEF Known
    <3>4. CASE ~Disjoint(s, new)
      BY <1>1, <3>1, <3>2, <3>4 DEF Covers, SubstringType, Known
    <3> QED
      BY <3>3, <3>4
  <2> QED
    BY <1>5, <2>1, <2>2
<1>6. ASSUME NEW i \in Nat, NEW b \in Byte, Holds(rest \cup {m}, i, b)
      PROVE  Holds(S, i, b) \/ (Covers(new, i) /\ new.data[i] = b)
  BY <1>1, <1>6 DEF Holds
<1>7. \A t \in rest \cup {m} : \E s \in S \cup {new} : t.first = s.first
  BY <1>1
<1> QED
  BY <1>2, <1>4, <1>5, <1>6, <1>7

-----------------------------------------------------------------------------
(* What every step of insert() keeps, of a Reassembler q: it is well       *)
(* formed, its next index is the output's count, and what waits lies in    *)
(* the window.                                                             *)
Sound(q, capacity) ==
  /\ q = [output |-> q.output, substrings |-> q.substrings,
          next_index_to_write |-> q.next_index_to_write,
          eof_received |-> q.eof_received, eof_index |-> q.eof_index]
  /\ q.output \in StreamType(capacity, Byte)
  /\ q.next_index_to_write \in Nat /\ q.eof_index \in Nat
  /\ q.eof_received \in BOOLEAN
  /\ q.next_index_to_write = BytesPushed(q.output)
  /\ BytesBuffered(q.output) <= capacity
  /\ Stored(q.substrings, FirstUnacceptable(q))
  /\ \A s \in q.substrings : q.next_index_to_write <= s.first

(* Between two calls nothing waits that could be written.                  *)
Tight(q) == q.output.closed \/ \A s \in q.substrings : s.first > q.next_index_to_write

(* The window, in numbers.                                                 *)
LEMMA WindowFacts ==
  ASSUME NEW capacity \in Nat, NEW q, Sound(q, capacity)
  PROVE  /\ q.output.queue \in Seq(Byte) /\ BytesBuffered(q.output) \in Nat
         /\ q.output.popped \in Nat
         /\ q.next_index_to_write \in Nat
         /\ q.next_index_to_write = q.output.popped + BytesBuffered(q.output)
         /\ AvailableCapacity(q.output) = capacity - BytesBuffered(q.output)
         /\ AvailableCapacity(q.output) \in Nat
         /\ FirstUnacceptable(q) \in Nat
         /\ FirstUnacceptable(q) = q.next_index_to_write + AvailableCapacity(q.output)
         /\ FirstUnacceptable(q) = q.output.popped + capacity
         /\ q.next_index_to_write <= FirstUnacceptable(q)
<1>1. /\ q.output.queue \in Seq(Byte) /\ q.output.popped \in Nat
      /\ q.output.capacity = capacity
  BY DEF Sound, StreamType
<1>2. BytesBuffered(q.output) \in Nat
  BY <1>1, LenProperties DEF BytesBuffered
<1>3. q.next_index_to_write = q.output.popped + BytesBuffered(q.output)
  BY DEF Sound, BytesBuffered, BytesPushed
<1>4. AvailableCapacity(q.output) = capacity - BytesBuffered(q.output)
  BY <1>1 DEF AvailableCapacity, BytesBuffered
<1>5. BytesBuffered(q.output) <= capacity
  BY DEF Sound
<1>6. FirstUnacceptable(q) = q.next_index_to_write + AvailableCapacity(q.output)
  BY DEF FirstUnacceptable
<1>7. AvailableCapacity(q.output) \in Nat
  BY <1>2, <1>4, <1>5
<1>8. FirstUnacceptable(q) = q.output.popped + capacity
  BY <1>1, <1>2, <1>3, <1>4, <1>6
<1> QED
  BY <1>1, <1>2, <1>3, <1>4, <1>6, <1>7, <1>8

(* The end of the written part is a number the loop finds: every index     *)
(* before it is known, and it is not.                                      *)
LEMMA GapFacts ==
  ASSUME NEW capacity \in Nat, NEW q, Sound(q, capacity)
  PROVE  /\ Gap(q) \in q.next_index_to_write..FirstUnacceptable(q)
         /\ ~Known(q.substrings, Gap(q))
         /\ \A i \in q.next_index_to_write..(Gap(q) - 1) : Known(q.substrings, i)
<1> DEFINE next == q.next_index_to_write
           bound == FirstUnacceptable(q)
           unknown == { e \in next..bound : ~Known(q.substrings, e) }
<1>1. next \in Nat /\ bound \in Nat /\ next <= bound
  BY WindowFacts
<1>2. ~Known(q.substrings, bound)
  BY <1>1 DEF Sound, Stored, SubstringType, Known, Covers
<1>3. unknown \in SUBSET Nat /\ unknown # {}
  BY <1>1, <1>2
<1>4. PICK e \in unknown : \A f \in unknown : e <= f
  BY <1>3, LeastExists
<1>5. \A i \in next..(e - 1) : Known(q.substrings, i)
  BY <1>1, <1>4
<1>6. \E f \in next..bound :
        ~Known(q.substrings, f) /\ \A i \in next..(f - 1) : Known(q.substrings, i)
  BY <1>4, <1>5
<1> QED
  BY <1>6 DEF Gap
-----------------------------------------------------------------------------
(* What an insertion may take: the indices of the data, in the window.     *)
Accepts(q, first_index, data, i) ==
  /\ first_index <= i /\ i < first_index + Len(data)
  /\ q.next_index_to_write <= i /\ i < FirstUnacceptable(q)

(* The 64-bit end of a piece of data: it wraps at most once, to an index   *)
(* before the data.                                                        *)
LEMMA OriginalLastFacts ==
  ASSUME NEW first_index \in 0..(U64 - 1), NEW data \in Seq(Byte), Len(data) < U64
  PROVE  /\ Len(data) \in Nat
         /\ OriginalLast(first_index, data) \in Nat
         /\ OriginalLast(first_index, data) =
              IF first_index + Len(data) < U64 THEN first_index + Len(data)
              ELSE first_index + Len(data) - U64
         /\ first_index + Len(data) >= U64 => OriginalLast(first_index, data) < first_index
<1>1. Len(data) \in 0..U64 /\ U64 \in Nat \ {0}
  BY LenProperties
<1>2. (first_index + Len(data)) % U64 =
        IF first_index + Len(data) < U64 THEN first_index + Len(data)
        ELSE first_index + Len(data) - U64
  BY <1>1, ModStep
<1>3. OriginalLast(first_index, data) =
        IF first_index + Len(data) < U64 THEN first_index + Len(data)
        ELSE first_index + Len(data) - U64
  BY <1>2 DEF OriginalLast
<1> QED
  BY <1>1, <1>3

(* Data with nothing to store offers no acceptable index, or wraps.  Of    *)
(* other data exactly the acceptable indices are kept, with their bytes.   *)
LEMMA TrimmedFacts ==
  ASSUME NEW capacity \in Nat, NEW q, Sound(q, capacity),
         NEW first_index \in 0..(U64 - 1), NEW data \in Seq(Byte), Len(data) < U64
  PROVE  /\ NothingToStore(q, first_index, data) /\ first_index + Len(data) < U64 =>
              \A i \in Nat : ~Accepts(q, first_index, data, i)
         /\ ~NothingToStore(q, first_index, data) =>
              LET new == Trimmed(q, first_index, data) IN
              /\ SubstringType(new)
              /\ new.last < FirstUnacceptable(q)
              /\ q.next_index_to_write <= new.first
              /\ \A i \in Nat : Covers(new, i) <=> Accepts(q, first_index, data, i)
              /\ \A i \in Nat : Covers(new, i) =>
                   /\ i - first_index + 1 \in 1..Len(data)
                   /\ new.data[i] = data[i - first_index + 1]
<1> DEFINE end == OriginalLast(first_index, data)
           bound == FirstUnacceptable(q)
           next == q.next_index_to_write
           len == Len(data)
           s == Start(q, first_index)
           e == End(q, first_index, data)
           new == Trimmed(q, first_index, data)
           bytes == [i \in s..(e - 1) |-> data[i - first_index + 1]]
<1>1. /\ len \in Nat /\ end \in Nat
      /\ end = IF first_index + len < U64 THEN first_index + len
               ELSE first_index + len - U64
      /\ first_index + len >= U64 => end < first_index
  BY OriginalLastFacts
<1>2. next \in Nat /\ bound \in Nat
  BY WindowFacts
<1>3. s = (IF first_index >= next THEN first_index ELSE next)
  BY DEF Start, Greater
<1>4. e = (IF end <= bound THEN end ELSE bound)
  BY DEF End, Lesser
<1>5. NothingToStore(q, first_index, data) <=> s >= e
  BY DEF NothingToStore
<1>6. new = Substring(s, e - 1, bytes)
  BY DEF Trimmed
<1> HIDE DEF end, bound, next, len, s, e, new
<1>7. s \in Nat /\ e \in Nat
  BY <1>1, <1>2, <1>3, <1>4
<1>8. ASSUME s >= e, first_index + len < U64, NEW i \in Nat
      PROVE  ~(first_index <= i /\ i < first_index + len /\ next <= i /\ i < bound)
  BY <1>1, <1>2, <1>3, <1>4, <1>8
<1>9. ASSUME s < e
      PROVE  /\ SubstringType(new)
             /\ new.last < bound
             /\ next <= new.first
             /\ \A i \in Nat : Covers(new, i) <=>
                  first_index <= i /\ i < first_index + len /\ next <= i /\ i < bound
             /\ \A i \in Nat : Covers(new, i) =>
                  /\ i - first_index + 1 \in 1..len
                  /\ new.data[i] = data[i - first_index + 1]
  <2>1. end = first_index + len
    BY <1>1, <1>2, <1>3, <1>4, <1>9
  <2>2. \A i \in s..(e - 1) : i - first_index + 1 \in 1..len
    BY <2>1, <1>1, <1>2, <1>3, <1>4, <1>7
  <2>3. data \in [1..len -> Byte]
    BY LenProperties DEF len
  <2>4. bytes \in [s..(e - 1) -> Byte]
    BY <2>2, <2>3
  <2>5. \A i \in s..(e - 1) : bytes[i] = data[i - first_index + 1]
    OBVIOUS
  <2> HIDE DEF bytes
  <2>6. new.first = s /\ new.last = e - 1 /\ new.data = bytes
    BY <1>6 DEF Substring
  <2>7. SubstringType(new)
    BY <2>4, <2>6, <1>6, <1>7, <1>9 DEF SubstringType
  <2>8. new.last < bound /\ next <= new.first
    BY <2>6, <1>1, <1>2, <1>3, <1>4
  <2>9. \A i \in Nat : Covers(new, i) <=> i \in s..(e - 1)
    BY <2>6, <1>7 DEF Covers
  <2>10. \A i \in Nat : i \in s..(e - 1) <=>
           first_index <= i /\ i < first_index + len /\ next <= i /\ i < bound
    BY <2>1, <1>1, <1>2, <1>3, <1>4
  <2>11. \A i \in Nat : Covers(new, i) =>
                  /\ i - first_index + 1 \in 1..len
                  /\ new.data[i] = data[i - first_index + 1]
    BY <2>2, <2>5, <2>6, <2>9
  <2> QED
    BY <2>7, <2>8, <2>9, <2>10, <2>11
<1> QED
  BY <1>5, <1>7, <1>8, <1>9 DEF Accepts, len, next, bound, new

-----------------------------------------------------------------------------
(* Index i has been reached: its byte is written or waits.                 *)
Reached(q, i) == i < q.next_index_to_write \/ Known(q.substrings, i)

(* Byte b stands at index i: it is buffered there, or waits.               *)
Stands(q, i, b) ==
  \/ /\ q.output.popped <= i /\ i < q.next_index_to_write
     /\ q.output.queue[i - q.output.popped + 1] = b
  \/ Holds(q.substrings, i, b)

(* A Reassembler from its fields.                                          *)
LEMMA UpdateFields ==
  ASSUME NEW o, NEW S, NEW n, NEW e, NEW x, NEW p, NEW T, NEW m, NEW q,
         q = [output |-> o, substrings |-> S, next_index_to_write |-> n,
              eof_received |-> e, eof_index |-> x]
  PROVE  [q EXCEPT !.output = p, !.next_index_to_write = m, !.substrings = T]
         = [output |-> p, substrings |-> T, next_index_to_write |-> m,
            eof_received |-> e, eof_index |-> x]
<1> DEFINE a == [q EXCEPT !.output = p]
           b == [a EXCEPT !.next_index_to_write = m]
<1>1. [q EXCEPT !.output = p, !.next_index_to_write = m, !.substrings = T]
      = [b EXCEPT !.substrings = T]
  OBVIOUS
<1>2. a = [output |-> p, substrings |-> S, next_index_to_write |-> n,
           eof_received |-> e, eof_index |-> x]
  OBVIOUS
<1> HIDE DEF a
<1>3. b = [output |-> p, substrings |-> S, next_index_to_write |-> m,
           eof_received |-> e, eof_index |-> x]
  BY <1>2
<1> HIDE DEF b
<1>4. [b EXCEPT !.substrings = T]
      = [output |-> p, substrings |-> T, next_index_to_write |-> m,
         eof_received |-> e, eof_index |-> x]
  BY <1>3
<1> QED
  BY <1>1, <1>4

(* The push loop writes the bytes up to the gap: the same indices are      *)
(* reached as before, with the same bytes, and nothing is left waiting     *)
(* that could be written.                                                  *)
LEMMA DrainFacts ==
  ASSUME NEW capacity \in Nat, NEW q, Sound(q, capacity)
  PROVE  LET d == Drain(q) IN
         /\ Sound(d, capacity)
         /\ Tight(d)
         /\ d.eof_received = q.eof_received /\ d.eof_index = q.eof_index
         /\ d.output.popped = q.output.popped /\ d.output.closed = q.output.closed
         /\ q.next_index_to_write <= d.next_index_to_write
         /\ \A i \in Nat : Reached(d, i) <=> Reached(q, i)
         /\ \A i \in Nat, b \in Byte : Stands(d, i, b) => Stands(q, i, b)
<1>1. CASE q.output.closed
  <2>1. Drain(q) = q
    BY <1>1 DEF Drain
  <2>2. q.next_index_to_write <= q.next_index_to_write
    BY WindowFacts
  <2> QED
    BY <1>1, <2>1, <2>2 DEF Tight
<1>2. CASE ~q.output.closed
  <2> DEFINE next == q.next_index_to_write
             bound == FirstUnacceptable(q)
             gap == Gap(q)
             S == q.substrings
             old == q.output.queue
             popped == q.output.popped
             bytes == [k \in 1..(gap - next) |-> ByteAt(S, next + k - 1)]
             out == Push(q.output, bytes)
             rest == { s \in S : s.first > gap }
             d == Drain(q)
  <2>1. /\ next \in Nat /\ bound \in Nat /\ popped \in Nat /\ old \in Seq(Byte)
        /\ Len(old) \in Nat
        /\ next = popped + Len(old) /\ bound = popped + capacity
        /\ bound = next + AvailableCapacity(q.output)
        /\ AvailableCapacity(q.output) \in Nat
    BY WindowFacts, LenProperties DEF BytesBuffered
  <2>2. /\ gap \in next..bound
        /\ ~Known(S, gap)
        /\ \A i \in next..(gap - 1) : Known(S, i)
    BY GapFacts
  <2>3. \A s \in S : SubstringType(s) /\ s.last < bound /\ next <= s.first
    BY DEF Sound, Stored
  <2>4. d = [q EXCEPT !.output = out, !.next_index_to_write = gap, !.substrings = rest]
    BY <1>2 DEF Drain
  <2>5. q.output \in StreamType(capacity, Byte)
    BY DEF Sound
  <2>6. \A i \in next..(gap - 1) :
          \E s \in S : Covers(s, i) /\ ByteAt(S, i) = s.data[i]
    <3>1. SUFFICES ASSUME NEW i \in next..(gap - 1)
                   PROVE  \E s \in S : Covers(s, i) /\ ByteAt(S, i) = s.data[i]
      OBVIOUS
    <3>2. \E s \in S : Covers(s, i)
      BY <2>2 DEF Known
    <3> QED
      BY <3>2 DEF ByteAt
  <2>7. \A i \in next..(gap - 1) : ByteAt(S, i) \in Byte
    <3>1. SUFFICES ASSUME NEW i \in next..(gap - 1)
                   PROVE  ByteAt(S, i) \in Byte
      OBVIOUS
    <3>2. PICK s \in S : Covers(s, i) /\ ByteAt(S, i) = s.data[i]
      BY <2>6
    <3>3. i \in s.first..s.last
      BY <3>2, <2>1, <2>2, <2>3 DEF Covers, SubstringType
    <3> QED
      BY <3>2, <3>3, <2>3 DEF SubstringType
  <2> HIDE DEF next, bound, gap, S, old, popped
  <2>8. \A k \in 1..(gap - next) : bytes[k] = ByteAt(S, next + k - 1) /\ bytes[k] \in Byte
    BY <2>1, <2>2, <2>7
  <2>9. bytes \in Seq(Byte) /\ Len(bytes) = gap - next
    <3>1. gap - next \in Nat
      BY <2>1, <2>2
    <3>2. bytes \in [1..(gap - next) -> Byte]
      BY <2>8
    <3> QED
      BY <3>1, <3>2
  <2> HIDE DEF bytes
  <2> HIDE DEF out, rest, d
  <2>10. /\ out \in StreamType(capacity, Byte)
         /\ Len(out.queue) = Len(old) + (gap - next)
         /\ \A i \in 1..(Len(old) + (gap - next)) :
              out.queue[i] = IF i <= Len(old) THEN old[i] ELSE bytes[i - Len(old)]
         /\ out.popped = popped
         /\ out.closed = q.output.closed
    <3>1. Len(bytes) <= AvailableCapacity(q.output)
      BY <2>1, <2>2, <2>9
    <3>2. /\ Push(q.output, bytes) \in StreamType(capacity, Byte)
          /\ Push(q.output, bytes).popped = q.output.popped
          /\ Push(q.output, bytes).closed = q.output.closed
      BY <1>2, <2>5, <2>9, <3>1, PushFacts
    <3>3. Extended(Push(q.output, bytes).queue, q.output.queue, bytes)
      BY <1>2, <2>5, <2>9, <3>1, PushFacts
    <3> QED
      BY <2>9, <3>2, <3>3 DEF old, popped, out, Extended
  <2>11. d = [output |-> out, substrings |-> rest, next_index_to_write |-> gap,
              eof_received |-> q.eof_received, eof_index |-> q.eof_index]
    <3>1. q = [output |-> q.output, substrings |-> S, next_index_to_write |-> next,
               eof_received |-> q.eof_received, eof_index |-> q.eof_index]
      BY DEF Sound, S, next
    <3> QED
      BY <2>4, <3>1, UpdateFields
  <2>12. /\ d.output = out /\ d.substrings = rest /\ d.next_index_to_write = gap
         /\ d.eof_received = q.eof_received /\ d.eof_index = q.eof_index
    BY <2>11
  <2>13. out.queue \in Seq(Byte) /\ Len(out.queue) \in Nat
    BY <2>10, StreamFields
  <2>14. BytesPushed(out) = gap /\ BytesBuffered(out) <= capacity
    BY <2>1, <2>2, <2>10, <2>13 DEF BytesPushed, BytesBuffered
  <2>15. FirstUnacceptable(d) = bound
    <3>1. out.capacity = capacity
      BY <2>10 DEF StreamType
    <3>2. FirstUnacceptable(d) = gap + (capacity - Len(out.queue))
      BY <2>12, <3>1 DEF FirstUnacceptable, AvailableCapacity
    <3> QED
      BY <3>2, <2>1, <2>2, <2>10
  <2>16. Stored(rest, bound)
    BY <2>3 DEF Stored, Apart, Sound, rest, S, bound
  <2>17. Sound(d, capacity)
    <3>1. d = [output |-> d.output, substrings |-> d.substrings,
               next_index_to_write |-> d.next_index_to_write,
               eof_received |-> d.eof_received, eof_index |-> d.eof_index]
      BY <2>11, <2>12
    <3>2. /\ d.output \in StreamType(capacity, Byte)
          /\ d.next_index_to_write \in Nat /\ d.eof_index \in Nat
          /\ d.eof_received \in BOOLEAN
      BY <2>1, <2>2, <2>10, <2>12 DEF Sound
    <3>3. \A s \in rest : gap <= s.first
      BY <2>1, <2>2, <2>3 DEF rest, SubstringType
    <3> QED
      BY <3>1, <3>2, <3>3, <2>12, <2>14, <2>15, <2>16 DEF Sound
  <2>18. Tight(d)
    BY <2>12 DEF Tight, rest
  <2>19. ASSUME NEW i \in Nat
         PROVE  Reached(d, i) <=> Reached(q, i)
    <3>1. i < next => i < gap
      BY <2>1, <2>2
    <3>2. i < gap /\ ~(i < next) => Known(S, i)
      BY <2>1, <2>2
    <3>3. Known(rest, i) => Known(S, i)
      BY DEF Known, rest
    <3>4. Known(S, i) /\ ~(i < gap) => Known(rest, i)
      <4>1. SUFFICES ASSUME NEW s \in S, Covers(s, i), i >= gap
                     PROVE  s.first > gap
        BY <2>1, <2>2 DEF Known, rest
      <4>2. ~Covers(s, gap)
        BY <2>2 DEF Known
      <4> QED
        BY <4>1, <4>2, <2>1, <2>2, <2>3 DEF Covers, SubstringType
    <3> QED
      BY <3>1, <3>2, <3>3, <3>4, <2>12 DEF Reached, next, S
  <2>20. ASSUME NEW i \in Nat, NEW b \in Byte, Stands(d, i, b)
         PROVE  Stands(q, i, b)
    <3>1. CASE Holds(rest, i, b)
      BY <3>1 DEF Holds, rest, S, Stands
    <3>2. CASE popped <= i /\ i < gap /\ out.queue[i - popped + 1] = b
      <4>1. CASE i < next
        <5>1. i - popped + 1 \in 1..(Len(old) + (gap - next)) /\ i - popped + 1 <= Len(old)
          BY <2>1, <2>2, <3>2, <4>1
        <5>2. old[i - popped + 1] = b
          BY <5>1, <3>2, <2>10
        <5> QED
          BY <5>2, <3>2, <4>1 DEF Stands, old, popped, next
      <4>2. CASE ~(i < next)
        <5> DEFINE k == i - popped + 1 - Len(old)
        <5>1. /\ i - popped + 1 \in 1..(Len(old) + (gap - next))
              /\ ~(i - popped + 1 <= Len(old))
              /\ k \in 1..(gap - next) /\ next + k - 1 = i /\ i \in next..(gap - 1)
          <6>1. PICK len \in Nat : len = Len(old)
            BY <2>1
          <6>2. /\ next \in Nat /\ popped \in Nat /\ gap \in Int
                /\ next = popped + len /\ next <= i /\ i < gap
            BY <6>1, <2>1, <2>2, <3>2, <4>2
          <6>3. k = i - next + 1
            BY <6>1, <6>2
          <6> HIDE DEF k
          <6>4. i - popped + 1 = len + k
            BY <6>2, <6>3
          <6>5. k \in 1..(gap - next) /\ next + k - 1 = i /\ i \in next..(gap - 1)
            BY <6>2, <6>3
          <6>6. i - popped + 1 \in 1..(len + (gap - next)) /\ ~(i - popped + 1 <= len)
            BY <6>2, <6>4, <6>5
          <6> QED
            BY <6>1, <6>5, <6>6
        <5> DEFINE j == i - popped + 1
        <5>2. bytes[k] = b
          <6>1. k = j - Len(old)
            BY <2>1
          <6> HIDE DEF j, k
          <6>2. /\ j \in 1..(Len(old) + (gap - next)) /\ ~(j <= Len(old))
                /\ out.queue[j] = b
            BY <5>1, <3>2 DEF j
          <6> QED
            BY <6>1, <6>2, <2>10
        <5> HIDE DEF k
        <5>3. ByteAt(S, i) = b
          BY <5>1, <5>2, <2>8
        <5>4. PICK s \in S : Covers(s, i) /\ ByteAt(S, i) = s.data[i]
          BY <5>1, <2>6
        <5>5. Holds(S, i, b)
          BY <5>3, <5>4 DEF Holds
        <5> QED
          BY <5>5 DEF Stands, S
      <4> QED
        BY <4>1, <4>2
    <3> QED
      BY <2>20, <3>1, <3>2, <2>10, <2>12 DEF Stands
  <2> QED
    BY <2>2, <2>1, <2>10, <2>12, <2>17, <2>18, <2>19, <2>20 DEF d, next, popped
<1> QED
  BY <1>1, <1>2
-----------------------------------------------------------------------------
(* What decides soundness does not include the end of the stream.          *)
LEMMA SoundWithoutEof ==
  ASSUME NEW capacity \in Nat, NEW q, Sound(q, capacity), NEW p,
         p = [output |-> p.output, substrings |-> p.substrings,
              next_index_to_write |-> p.next_index_to_write,
              eof_received |-> p.eof_received, eof_index |-> p.eof_index],
         p.output = q.output, p.substrings = q.substrings,
         p.next_index_to_write = q.next_index_to_write,
         p.eof_received \in BOOLEAN, p.eof_index \in Nat
  PROVE  Sound(p, capacity)
<1>1. FirstUnacceptable(p) = FirstUnacceptable(q)
  BY DEF FirstUnacceptable
<1> QED
  BY <1>1 DEF Sound

(* The two fields NoteEof() sets.                                          *)
LEMMA UpdateEof ==
  ASSUME NEW o, NEW S, NEW n, NEW e, NEW x, NEW d, NEW y, NEW q,
         q = [output |-> o, substrings |-> S, next_index_to_write |-> n,
              eof_received |-> e, eof_index |-> x]
  PROVE  [q EXCEPT !.eof_received = d, !.eof_index = y]
         = [output |-> o, substrings |-> S, next_index_to_write |-> n,
            eof_received |-> d, eof_index |-> y]
<1> DEFINE a == [q EXCEPT !.eof_received = d]
<1>1. [q EXCEPT !.eof_received = d, !.eof_index = y] = [a EXCEPT !.eof_index = y]
  OBVIOUS
<1>2. a = [output |-> o, substrings |-> S, next_index_to_write |-> n,
           eof_received |-> d, eof_index |-> x]
  OBVIOUS
<1> HIDE DEF a
<1>3. [a EXCEPT !.eof_index = y]
      = [output |-> o, substrings |-> S, next_index_to_write |-> n,
         eof_received |-> d, eof_index |-> y]
  BY <1>2
<1> QED
  BY <1>1, <1>3

(* A last substring sets the end and nothing else.                         *)
LEMMA NoteEofFacts ==
  ASSUME NEW capacity \in Nat, NEW q, Sound(q, capacity),
         NEW first_index \in 0..(U64 - 1), NEW data \in Seq(Byte), Len(data) < U64,
         NEW is_last \in BOOLEAN
  PROVE  LET p == NoteEof(q, first_index, data, is_last) IN
         /\ Sound(p, capacity)
         /\ p.output = q.output /\ p.substrings = q.substrings
         /\ p.next_index_to_write = q.next_index_to_write
         /\ p.eof_received <=> q.eof_received \/ is_last
         /\ p.eof_index = IF is_last THEN OriginalLast(first_index, data) ELSE q.eof_index
<1>1. CASE ~is_last
  BY <1>1 DEF NoteEof
<1>2. CASE is_last
  <2> DEFINE yes == TRUE
             end == OriginalLast(first_index, data)
             p == NoteEof(q, first_index, data, is_last)
  <2>1. p = [q EXCEPT !.eof_received = yes, !.eof_index = end]
    BY <1>2 DEF NoteEof
  <2>2. yes \in BOOLEAN /\ yes
    OBVIOUS
  <2>3. end \in Nat
    BY OriginalLastFacts
  <2> HIDE DEF yes, end, p
  <2>4. q = [output |-> q.output, substrings |-> q.substrings,
             next_index_to_write |-> q.next_index_to_write,
             eof_received |-> q.eof_received, eof_index |-> q.eof_index]
    BY DEF Sound
  <2>5. p = [output |-> q.output, substrings |-> q.substrings,
             next_index_to_write |-> q.next_index_to_write,
             eof_received |-> yes, eof_index |-> end]
    BY <2>1, <2>4, UpdateEof
  <2>6. /\ p.output = q.output /\ p.substrings = q.substrings
        /\ p.next_index_to_write = q.next_index_to_write
        /\ p.eof_received = yes /\ p.eof_index = end
    BY <2>5
  <2>7. Sound(p, capacity)
    BY <2>2, <2>3, <2>5, <2>6, SoundWithoutEof
  <2> QED
    BY <1>2, <2>2, <2>6, <2>7 DEF p, end
<1> QED
  BY <1>1, <1>2

(* Storing a new substring that lies in the window.                        *)
LEMMA StoringFacts ==
  ASSUME NEW capacity \in Nat, NEW q, Sound(q, capacity),
         NEW new, SubstringType(new), new.last < FirstUnacceptable(q),
         q.next_index_to_write <= new.first
  PROVE  LET p == [q EXCEPT !.substrings = Store(@, new)] IN
         /\ Sound(p, capacity)
         /\ p.output = q.output /\ p.next_index_to_write = q.next_index_to_write
         /\ p.eof_received = q.eof_received /\ p.eof_index = q.eof_index
         /\ \A i \in Nat : Reached(p, i) <=> Reached(q, i) \/ Covers(new, i)
         /\ \A i \in Nat, b \in Byte : Stands(p, i, b) =>
              Stands(q, i, b) \/ (Covers(new, i) /\ new.data[i] = b)
<1> DEFINE S == q.substrings
           T == Store(S, new)
           bound == FirstUnacceptable(q)
           p == [q EXCEPT !.substrings = T]
<1>1. bound \in Nat
  BY WindowFacts
<1>2. Stored(S, bound) /\ \A s \in S : q.next_index_to_write <= s.first
  BY DEF Sound
<1> HIDE DEF T
<1>3. /\ p = [output |-> q.output, substrings |-> T,
              next_index_to_write |-> q.next_index_to_write,
              eof_received |-> q.eof_received, eof_index |-> q.eof_index]
      /\ p.output = q.output /\ p.next_index_to_write = q.next_index_to_write
      /\ p.eof_received = q.eof_received /\ p.eof_index = q.eof_index
      /\ p.substrings = T
  BY DEF Sound
<1> HIDE DEF S, bound, p
<1>4. /\ Stored(T, bound)
      /\ \A t \in T : \E s \in S \cup {new} : t.first = s.first
      /\ \A i \in Nat : Known(S, i) \/ Covers(new, i) => Known(T, i)
      /\ \A i \in Nat, b \in Byte : Holds(T, i, b) =>
           Holds(S, i, b) \/ (Covers(new, i) /\ new.data[i] = b)
  <2>1. new.last < bound
    BY DEF bound
  <2> QED
    BY <1>1, <1>2, <2>1, StoreFacts DEF T
<1>5. FirstUnacceptable(p) = bound
  BY <1>3 DEF FirstUnacceptable, bound
<1>6. Sound(p, capacity)
  <2>1. \A t \in T : q.next_index_to_write <= t.first
    BY <1>2, <1>4
  <2>2. /\ p.output \in StreamType(capacity, Byte)
        /\ p.next_index_to_write \in Nat /\ p.eof_index \in Nat
        /\ p.eof_received \in BOOLEAN
        /\ p.next_index_to_write = BytesPushed(p.output)
        /\ BytesBuffered(p.output) <= capacity
    BY <1>3 DEF Sound
  <2>3. Stored(p.substrings, FirstUnacceptable(p))
    BY <1>3, <1>4, <1>5
  <2>4. p = [output |-> p.output, substrings |-> p.substrings,
             next_index_to_write |-> p.next_index_to_write,
             eof_received |-> p.eof_received, eof_index |-> p.eof_index]
    BY <1>3
  <2> QED
    BY <1>3, <2>1, <2>2, <2>3, <2>4 DEF Sound
<1>7. ASSUME NEW i \in Nat, Known(T, i)
      PROVE  Known(S, i) \/ Covers(new, i)
  <2>1. PICK t \in T : Covers(t, i)
    BY <1>7 DEF Known
  <2>2. SubstringType(t) /\ i \in t.first..t.last
    BY <1>4, <2>1 DEF Stored, SubstringType, Covers
  <2>3. Holds(T, i, t.data[i]) /\ t.data[i] \in Byte
    BY <2>1, <2>2 DEF Holds, SubstringType
  <2> QED
    BY <1>4, <2>3 DEF Holds, Known
<1>8. \A i \in Nat : Reached(p, i) <=> Reached(q, i) \/ Covers(new, i)
  BY <1>3, <1>4, <1>7 DEF Reached, S
<1>9. \A i \in Nat, b \in Byte : Stands(p, i, b) =>
        Stands(q, i, b) \/ (Covers(new, i) /\ new.data[i] = b)
  BY <1>3, <1>4 DEF Stands, S
<1> QED
  BY <1>3, <1>6, <1>8, <1>9 DEF p, T, S

(* The output is closed, and nothing else changes.                         *)
LEMMA CloseAtEofFacts ==
  ASSUME NEW capacity \in Nat, NEW q, Sound(q, capacity)
  PROVE  LET p == CloseAtEof(q) IN
         /\ Sound(p, capacity)
         /\ Tight(q) => Tight(p)
         /\ p.substrings = q.substrings
         /\ p.next_index_to_write = q.next_index_to_write
         /\ p.eof_received = q.eof_received /\ p.eof_index = q.eof_index
         /\ p.output.popped = q.output.popped /\ p.output.queue = q.output.queue
         /\ p.output.closed <=>
              q.output.closed \/ (q.eof_received /\ q.next_index_to_write = q.eof_index)
<1>1. CASE ~(q.eof_received /\ q.next_index_to_write = q.eof_index)
  BY <1>1 DEF CloseAtEof
<1>2. CASE q.eof_received /\ q.next_index_to_write = q.eof_index
  <2> DEFINE o == Close(q.output)
             p == [q EXCEPT !.output = o]
  <2>1. CloseAtEof(q) = p
    BY <1>2 DEF CloseAtEof
  <2>2. q.output \in StreamType(capacity, Byte)
    BY DEF Sound
  <2>3. /\ o \in StreamType(capacity, Byte)
        /\ o.queue = q.output.queue /\ o.popped = q.output.popped
        /\ o.closed
    BY <2>2, CloseFacts
  <2>4. o.capacity = q.output.capacity
    BY <2>2, <2>3 DEF StreamType
  <2> HIDE DEF o
  <2>5. /\ p = [output |-> o, substrings |-> q.substrings,
                next_index_to_write |-> q.next_index_to_write,
                eof_received |-> q.eof_received, eof_index |-> q.eof_index]
        /\ p.output = o /\ p.substrings = q.substrings
        /\ p.next_index_to_write = q.next_index_to_write
        /\ p.eof_received = q.eof_received /\ p.eof_index = q.eof_index
    BY DEF Sound
  <2> HIDE DEF p
  <2>6. FirstUnacceptable(p) = FirstUnacceptable(q)
    BY <2>3, <2>4, <2>5 DEF FirstUnacceptable, AvailableCapacity
  <2>7. BytesPushed(o) = BytesPushed(q.output) /\ BytesBuffered(o) = BytesBuffered(q.output)
    BY <2>3 DEF BytesPushed, BytesBuffered
  <2>8. Sound(p, capacity)
    <3>1. p = [output |-> p.output, substrings |-> p.substrings,
               next_index_to_write |-> p.next_index_to_write,
               eof_received |-> p.eof_received, eof_index |-> p.eof_index]
      BY <2>5
    <3> QED
      BY <3>1, <2>3, <2>5, <2>6, <2>7 DEF Sound
  <2>9. Tight(p)
    BY <2>3, <2>5 DEF Tight
  <2> QED
    BY <1>2, <2>1, <2>3, <2>5, <2>8, <2>9
<1> QED
  BY <1>1, <1>2
-----------------------------------------------------------------------------
(* One insertion.  It reaches exactly the acceptable indices besides those *)
(* reached before, with the bytes of the data, and closes the output when  *)
(* its end has been written and only then; that it returns early inside a  *)
(* waiting substring leaves the output open only while something waits.    *)
LEMMA InsertFacts ==
  ASSUME NEW capacity \in Nat, NEW q, Sound(q, capacity), Tight(q),
         NEW first_index \in 0..(U64 - 1), NEW data \in Seq(Byte), Len(data) < U64,
         NEW is_last \in BOOLEAN
  PROVE  LET p == Insert(q, first_index, data, is_last) IN
         /\ Sound(p, capacity) /\ Tight(p)
         /\ p.eof_received <=> q.eof_received \/ is_last
         /\ p.eof_index = IF is_last THEN OriginalLast(first_index, data) ELSE q.eof_index
         /\ p.output.popped = q.output.popped
         /\ q.next_index_to_write <= p.next_index_to_write
         /\ q.output.closed => p.output.closed
         /\ p.output.closed =>
              q.output.closed \/ (p.eof_received /\ p.next_index_to_write = p.eof_index)
         /\ p.eof_received /\ p.next_index_to_write = p.eof_index =>
              p.output.closed \/ \E i \in Nat : p.next_index_to_write <= i /\ Reached(q, i)
         /\ \A i \in Nat : Reached(p, i) =>
              Reached(q, i) \/ Accepts(q, first_index, data, i)
         /\ \A i \in Nat : Reached(q, i) => Reached(p, i)
         /\ first_index + Len(data) < U64 =>
              \A i \in Nat : Accepts(q, first_index, data, i) => Reached(p, i)
         /\ \A i \in Nat, b \in Byte : Stands(p, i, b) =>
              Stands(q, i, b) \/
              (Accepts(q, first_index, data, i) /\ data[i - first_index + 1] = b)
<1> DEFINE noted == NoteEof(q, first_index, data, is_last)
           new == Trimmed(q, first_index, data)
           stored == [noted EXCEPT !.substrings = Store(@, new)]
           drained == Drain(stored)
           p == Insert(q, first_index, data, is_last)
<1>1. /\ NothingToStore(q, first_index, data) => p = CloseAtEof(noted)
      /\ ~NothingToStore(q, first_index, data) /\ (\E s \in q.substrings : Inside(new, s)) =>
           p = noted
      /\ ~NothingToStore(q, first_index, data) /\ ~(\E s \in q.substrings : Inside(new, s)) =>
           p = CloseAtEof(drained)
  BY DEF Insert
<1>2. /\ Sound(noted, capacity)
      /\ noted.output = q.output /\ noted.substrings = q.substrings
      /\ noted.next_index_to_write = q.next_index_to_write
      /\ noted.eof_received <=> q.eof_received \/ is_last
      /\ noted.eof_index = IF is_last THEN OriginalLast(first_index, data) ELSE q.eof_index
  <2> HIDE DEF noted
  <2>1. noted = NoteEof(q, first_index, data, is_last)
    BY DEF noted
  <2>2. Sound(noted, capacity)
    BY <2>1, NoteEofFacts
  <2>3. noted.output = q.output /\ noted.substrings = q.substrings
        /\ noted.next_index_to_write = q.next_index_to_write
    BY <2>1, NoteEofFacts
  <2>4. noted.eof_received <=> q.eof_received \/ is_last
    BY <2>1, NoteEofFacts
  <2>5. noted.eof_index = IF is_last THEN OriginalLast(first_index, data) ELSE q.eof_index
    BY <2>1, NoteEofFacts
  <2> QED
    BY <2>2, <2>3, <2>4, <2>5
<1> HIDE DEF noted, p
<1>3. Tight(noted) /\ FirstUnacceptable(noted) = FirstUnacceptable(q)
  BY <1>2 DEF Tight, FirstUnacceptable
<1>4. \A i \in Nat : Reached(noted, i) <=> Reached(q, i)
  BY <1>2 DEF Reached
<1>5. \A i \in Nat, b \in Byte : Stands(noted, i, b) <=> Stands(q, i, b)
  BY <1>2 DEF Stands
<1>6. q.next_index_to_write \in Nat
  BY WindowFacts
<1>7. CASE NothingToStore(q, first_index, data)
  <2>1. p = CloseAtEof(noted)
    BY <1>1, <1>7
  <2>2. /\ Sound(p, capacity) /\ Tight(p)
        /\ p.substrings = noted.substrings
        /\ p.next_index_to_write = noted.next_index_to_write
        /\ p.eof_received = noted.eof_received /\ p.eof_index = noted.eof_index
        /\ p.output.popped = noted.output.popped /\ p.output.queue = noted.output.queue
        /\ p.output.closed <=> noted.output.closed \/
             (noted.eof_received /\ noted.next_index_to_write = noted.eof_index)
    BY <1>2, <1>3, <2>1, CloseAtEofFacts
  <2>3. \A i \in Nat : Reached(p, i) <=> Reached(q, i)
    BY <1>4, <2>2 DEF Reached
  <2>4. \A i \in Nat, b \in Byte : Stands(p, i, b) => Stands(q, i, b)
    BY <1>5, <2>2 DEF Stands
  <2>5. first_index + Len(data) < U64 =>
          \A i \in Nat : ~Accepts(q, first_index, data, i)
    BY <1>7, TrimmedFacts
  <2> QED
    BY <1>2, <1>6, <2>2, <2>3, <2>4, <2>5 DEF p
<1>8. CASE ~NothingToStore(q, first_index, data)
  <2>1. /\ SubstringType(new)
        /\ new.last < FirstUnacceptable(q)
        /\ q.next_index_to_write <= new.first
        /\ \A i \in Nat : Covers(new, i) <=> Accepts(q, first_index, data, i)
        /\ \A i \in Nat : Covers(new, i) =>
             /\ i - first_index + 1 \in 1..Len(data)
             /\ new.data[i] = data[i - first_index + 1]
    BY <1>8, TrimmedFacts
  <2> HIDE DEF new
  <2>2. CASE \E s \in q.substrings : Inside(new, s)
    <3>1. PICK s \in q.substrings : Inside(new, s)
      BY <2>2
    <3>2. p = noted
      BY <1>1, <1>8, <2>2
    <3>3. SubstringType(s)
      BY DEF Sound, Stored
    <3>4. \A i \in Nat : Covers(new, i) => Covers(s, i)
      BY <2>1, <3>1, <3>3 DEF Covers, Inside, SubstringType
    <3>5. \A i \in Nat : Accepts(q, first_index, data, i) => Reached(q, i)
      BY <2>1, <3>4 DEF Reached, Known
    <3>6. \E i \in Nat : q.next_index_to_write <= i /\ Reached(q, i)
      <4>1. new.first \in Nat /\ Covers(new, new.first)
        BY <2>1 DEF SubstringType, Covers
      <4> QED
        BY <2>1, <3>4, <4>1 DEF Reached, Known
    <3> QED
      BY <1>2, <1>3, <1>4, <1>5, <1>6, <3>2, <3>5, <3>6 DEF p
  <2>3. CASE ~ \E s \in q.substrings : Inside(new, s)
    <3>1. p = CloseAtEof(drained)
      BY <1>1, <1>8, <2>3
    <3>2. /\ Sound(stored, capacity)
          /\ stored.output = noted.output
          /\ stored.next_index_to_write = noted.next_index_to_write
          /\ stored.eof_received = noted.eof_received /\ stored.eof_index = noted.eof_index
          /\ \A i \in Nat : Reached(stored, i) <=> Reached(noted, i) \/ Covers(new, i)
          /\ \A i \in Nat, b \in Byte : Stands(stored, i, b) =>
               Stands(noted, i, b) \/ (Covers(new, i) /\ new.data[i] = b)
      <4>1. new.last < FirstUnacceptable(noted) /\ noted.next_index_to_write <= new.first
        BY <1>2, <1>3, <2>1
      <4> QED
        BY <1>2, <2>1, <4>1, StoringFacts
    <3> HIDE DEF stored
    <3>3. /\ Sound(drained, capacity)
          /\ Tight(drained)
          /\ drained.eof_received = stored.eof_received
          /\ drained.eof_index = stored.eof_index
          /\ drained.output.popped = stored.output.popped
          /\ drained.output.closed = stored.output.closed
          /\ stored.next_index_to_write <= drained.next_index_to_write
          /\ \A i \in Nat : Reached(drained, i) <=> Reached(stored, i)
          /\ \A i \in Nat, b \in Byte : Stands(drained, i, b) => Stands(stored, i, b)
      BY <3>2, DrainFacts
    <3> HIDE DEF drained
    <3>4. /\ Sound(p, capacity) /\ Tight(p)
          /\ p.substrings = drained.substrings
          /\ p.next_index_to_write = drained.next_index_to_write
          /\ p.eof_received = drained.eof_received /\ p.eof_index = drained.eof_index
          /\ p.output.popped = drained.output.popped
          /\ p.output.queue = drained.output.queue
          /\ p.output.closed <=> drained.output.closed \/
               (drained.eof_received /\ drained.next_index_to_write = drained.eof_index)
      BY <3>1, <3>3, CloseAtEofFacts
    <3>5. \A i \in Nat : Reached(p, i) <=> Reached(q, i) \/ Accepts(q, first_index, data, i)
      <4>1. \A i \in Nat : Reached(p, i) <=> Reached(drained, i)
        BY <3>4 DEF Reached
      <4> QED
        BY <1>4, <2>1, <3>2, <3>3, <4>1
    <3>6. ASSUME NEW i \in Nat, NEW b \in Byte, Stands(p, i, b)
          PROVE  Stands(q, i, b) \/
                 (Accepts(q, first_index, data, i) /\ data[i - first_index + 1] = b)
      <4>1. Stands(drained, i, b)
        BY <3>4, <3>6 DEF Stands
      <4>2. Stands(noted, i, b) \/ (Covers(new, i) /\ new.data[i] = b)
        BY <3>2, <3>3, <4>1
      <4> QED
        BY <1>5, <2>1, <4>2
    <3>7. /\ p.eof_received <=> q.eof_received \/ is_last
          /\ p.eof_index = IF is_last THEN OriginalLast(first_index, data) ELSE q.eof_index
          /\ p.output.popped = q.output.popped
          /\ q.next_index_to_write <= p.next_index_to_write
          /\ p.output.closed <=> q.output.closed \/
               (p.eof_received /\ p.next_index_to_write = p.eof_index)
      BY <1>2, <3>2, <3>3, <3>4
    <3> QED
      BY <3>4, <3>5, <3>6, <3>7 DEF p
  <2> QED
    BY <2>2, <2>3
<1> QED
  BY <1>7, <1>8

(* Neither writing what is complete nor closing touches the error flag.    *)
LEMMA ErrorStays ==
  ASSUME NEW capacity \in Nat, NEW q, Sound(q, capacity)
  PROVE  /\ Drain(q).output.error = q.output.error
         /\ CloseAtEof(q).output.error = q.output.error
<1> DEFINE o == q.output
           gap == Gap(q)
           bytes == [k \in 1..(gap - q.next_index_to_write) |->
                       ByteAt(q.substrings, q.next_index_to_write + k - 1)]
           rest == { s \in q.substrings : s.first > gap }
           pushed == Push(o, bytes)
           shut == Close(o)
<1>1. o \in StreamType(capacity, Byte)
  BY DEF Sound
<1>2. shut.error = o.error
  BY <1>1, CloseFacts
<1>3. pushed.error = o.error
  <2> HIDE DEF bytes
  <2>1. PICK new : new = o.queue \o SubSeq(bytes, 1, Lesser(Len(bytes), AvailableCapacity(o)))
    OBVIOUS
  <2>2. pushed = o \/ pushed = [o EXCEPT !.queue = new]
    BY <2>1 DEF Push
  <2> QED
    BY <1>1, <2>2 DEF StreamType
<1>4. q = [output |-> o, substrings |-> q.substrings,
           next_index_to_write |-> q.next_index_to_write,
           eof_received |-> q.eof_received, eof_index |-> q.eof_index]
  BY DEF Sound
<1>5. Drain(q) = IF o.closed THEN q
                 ELSE [q EXCEPT !.output = pushed, !.next_index_to_write = gap,
                                !.substrings = rest]
  BY DEF Drain
<1>6. CloseAtEof(q) = q \/ CloseAtEof(q) = [q EXCEPT !.output = shut]
  BY DEF CloseAtEof
<1> HIDE DEF o, gap, bytes, rest, pushed, shut
<1>7. [q EXCEPT !.output = pushed, !.next_index_to_write = gap,
                !.substrings = rest].output = pushed
  <2> DEFINE a == [q EXCEPT !.output = pushed]
             b == [a EXCEPT !.next_index_to_write = gap]
  <2>1. a.output = pushed /\ DOMAIN a = DOMAIN q /\ DOMAIN b = DOMAIN a
    BY <1>4
  <2>2. b.output = pushed
    BY <1>4, <2>1
  <2>3. [b EXCEPT !.substrings = rest].output = pushed
    BY <1>4, <2>2
  <2> QED
    BY <2>3
<1>8. Drain(q).output.error = o.error
  BY <1>3, <1>5, <1>7 DEF o
<1>9. CloseAtEof(q).output.error = o.error
  BY <1>2, <1>4, <1>6 DEF o
<1> QED
  BY <1>8, <1>9 DEF o

(* So an insertion does not.                                               *)
LEMMA InsertError ==
  ASSUME NEW capacity \in Nat, NEW q, Sound(q, capacity),
         NEW first_index \in 0..(U64 - 1), NEW data \in Seq(Byte), Len(data) < U64,
         NEW is_last \in BOOLEAN
  PROVE  Insert(q, first_index, data, is_last).output.error = q.output.error
<1> DEFINE noted == NoteEof(q, first_index, data, is_last)
           new == Trimmed(q, first_index, data)
           stored == [noted EXCEPT !.substrings = Store(@, new)]
           p == Insert(q, first_index, data, is_last)
<1>1. /\ NothingToStore(q, first_index, data) => p = CloseAtEof(noted)
      /\ ~NothingToStore(q, first_index, data) =>
           p = noted \/ p = CloseAtEof(Drain(stored))
  BY DEF Insert
<1>2. /\ Sound(noted, capacity) /\ noted.output = q.output
      /\ noted.next_index_to_write = q.next_index_to_write
  BY NoteEofFacts
<1> HIDE DEF noted, p
<1>3. FirstUnacceptable(noted) = FirstUnacceptable(q)
  BY <1>2 DEF FirstUnacceptable
<1>4. CASE NothingToStore(q, first_index, data)
  BY <1>1, <1>2, <1>4, ErrorStays DEF p
<1>5. CASE ~NothingToStore(q, first_index, data)
  <2>1. SubstringType(new) /\ new.last < FirstUnacceptable(noted)
        /\ noted.next_index_to_write <= new.first
    BY <1>2, <1>3, <1>5, TrimmedFacts
  <2> HIDE DEF new
  <2>2. Sound(stored, capacity) /\ stored.output = noted.output
    BY <1>2, <2>1, StoringFacts
  <2> HIDE DEF stored
  <2>3. PICK drained : drained = Drain(stored)
    OBVIOUS
  <2>4. Sound(drained, capacity) /\ drained.output.error = q.output.error
    BY <1>2, <2>2, <2>3, DrainFacts, ErrorStays
  <2>5. CloseAtEof(drained).output.error = drained.output.error
    BY <2>4, ErrorStays
  <2> QED
    BY <1>1, <1>2, <1>5, <2>3, <2>4, <2>5 DEF p
<1> QED
  BY <1>4, <1>5

(* What an insertion makes of q, in one word.                              *)
Inserted(p, q, capacity, first_index, data, is_last) ==
  /\ Sound(p, capacity) /\ Tight(p)
  /\ p.output.error = q.output.error
  /\ p.eof_received <=> q.eof_received \/ is_last
  /\ p.eof_index = IF is_last THEN OriginalLast(first_index, data) ELSE q.eof_index
  /\ p.output.popped = q.output.popped
  /\ q.next_index_to_write <= p.next_index_to_write
  /\ q.output.closed => p.output.closed
  /\ p.output.closed =>
       q.output.closed \/ (p.eof_received /\ p.next_index_to_write = p.eof_index)
  /\ \A i \in Nat : Reached(p, i) =>
       Reached(q, i) \/ Accepts(q, first_index, data, i)
  /\ \A i \in Nat, b \in Byte : Stands(p, i, b) =>
       Stands(q, i, b) \/
       (Accepts(q, first_index, data, i) /\ data[i - first_index + 1] = b)

(* An insert that does not fail is such a step.                            *)
LEMMA InsertInserts ==
  ASSUME NEW capacity \in Nat, NEW q, Sound(q, capacity), Tight(q),
         NEW first_index \in 0..(U64 - 1), NEW data \in Seq(Byte), Len(data) < U64,
         NEW is_last \in BOOLEAN, NEW p, p = Insert(q, first_index, data, is_last)
  PROVE  Inserted(p, q, capacity, first_index, data, is_last)
<1>1. /\ Sound(p, capacity) /\ Tight(p)
      /\ p.eof_received <=> q.eof_received \/ is_last
      /\ p.eof_index = IF is_last THEN OriginalLast(first_index, data) ELSE q.eof_index
      /\ p.output.popped = q.output.popped
      /\ q.next_index_to_write <= p.next_index_to_write
      /\ q.output.closed => p.output.closed
      /\ p.output.closed =>
           q.output.closed \/ (p.eof_received /\ p.next_index_to_write = p.eof_index)
      /\ \A i \in Nat : Reached(p, i) =>
           Reached(q, i) \/ Accepts(q, first_index, data, i)
      /\ \A i \in Nat, b \in Byte : Stands(p, i, b) =>
           Stands(q, i, b) \/
           (Accepts(q, first_index, data, i) /\ data[i - first_index + 1] = b)
  BY InsertFacts
<1>2. p.output.error = q.output.error
  BY InsertError
<1> QED
  BY <1>1, <1>2 DEF Inserted

(* Reading shifts the window and nothing else.                             *)
LEMMA ReadFacts ==
  ASSUME NEW capacity \in Nat, NEW q, Sound(q, capacity), Tight(q),
         NEW len \in Nat, len <= BytesBuffered(q.output)
  PROVE  LET p == [q EXCEPT !.output = Pop(@, len)] IN
         /\ Sound(p, capacity) /\ Tight(p)
         /\ p.substrings = q.substrings
         /\ p.next_index_to_write = q.next_index_to_write
         /\ p.eof_received = q.eof_received /\ p.eof_index = q.eof_index
         /\ p.output.closed = q.output.closed
         /\ \A i \in Nat : Reached(p, i) <=> Reached(q, i)
         /\ \A i \in Nat, b \in Byte : Stands(p, i, b) => Stands(q, i, b)
<1> DEFINE o == Pop(q.output, len)
           p == [q EXCEPT !.output = o]
           old == q.output.queue
<1>1. q.output \in StreamType(capacity, Byte)
  BY DEF Sound
<1>2. /\ o \in StreamType(capacity, Byte)
      /\ Len(o.queue) = Len(old) - len
      /\ \A i \in 1..(Len(old) - len) : o.queue[i] = old[len + i]
      /\ o.popped = q.output.popped + len
      /\ o.closed = q.output.closed
      /\ BytesPushed(o) = BytesPushed(q.output)
  BY <1>1, PopFacts
<1> HIDE DEF o
<1>3. /\ p = [output |-> o, substrings |-> q.substrings,
              next_index_to_write |-> q.next_index_to_write,
              eof_received |-> q.eof_received, eof_index |-> q.eof_index]
      /\ p.output = o /\ p.substrings = q.substrings
      /\ p.next_index_to_write = q.next_index_to_write
      /\ p.eof_received = q.eof_received /\ p.eof_index = q.eof_index
  BY DEF Sound
<1> HIDE DEF p
<1>4. /\ q.output.popped \in Nat /\ q.next_index_to_write \in Nat /\ Len(old) \in Nat
      /\ len <= Len(old) /\ Len(old) <= capacity
      /\ q.next_index_to_write = q.output.popped + Len(old)
      /\ FirstUnacceptable(q) = q.output.popped + capacity
  BY WindowFacts DEF Sound, BytesBuffered
<1>5. FirstUnacceptable(p) = FirstUnacceptable(q) + len
  <2>1. o.capacity = capacity
    BY <1>2 DEF StreamType
  <2>2. FirstUnacceptable(p) = q.next_index_to_write + (capacity - Len(o.queue))
    BY <1>3, <2>1 DEF FirstUnacceptable, AvailableCapacity
  <2> QED
    BY <1>2, <1>4, <2>2
<1>6. BytesBuffered(o) <= capacity
  BY <1>2, <1>4 DEF BytesBuffered
<1>7. Stored(p.substrings, FirstUnacceptable(p))
  <2>1. Stored(q.substrings, FirstUnacceptable(q))
    BY DEF Sound
  <2>2. \A s \in q.substrings : SubstringType(s) /\ s.last < FirstUnacceptable(q) + len
    BY <1>4, <2>1 DEF Stored, SubstringType
  <2> QED
    BY <1>3, <1>5, <2>1, <2>2 DEF Stored
<1>8. Sound(p, capacity)
  <2>1. p = [output |-> p.output, substrings |-> p.substrings,
             next_index_to_write |-> p.next_index_to_write,
             eof_received |-> p.eof_received, eof_index |-> p.eof_index]
    BY <1>3
  <2> QED
    BY <1>2, <1>3, <1>6, <1>7, <2>1 DEF Sound
<1>9. Tight(p)
  BY <1>2, <1>3 DEF Tight
<1>10. \A i \in Nat : Reached(p, i) <=> Reached(q, i)
  BY <1>3 DEF Reached
<1>11. ASSUME NEW i \in Nat, NEW b \in Byte, Stands(p, i, b)
       PROVE  Stands(q, i, b)
  <2>1. CASE Holds(q.substrings, i, b)
    BY <2>1 DEF Stands
  <2>2. CASE ~Holds(q.substrings, i, b)
    <3>1. o.popped <= i /\ i < q.next_index_to_write /\ o.queue[i - o.popped + 1] = b
      BY <1>3, <1>11, <2>2 DEF Stands
    <3> DEFINE k == i - o.popped + 1
    <3>2. /\ k \in 1..(Len(old) - len)
          /\ len + k = i - q.output.popped + 1
          /\ q.output.popped <= i
      <4>1. o.popped \in Nat /\ o.popped = q.output.popped + len
        BY <1>2, <1>4
      <4>2. o.popped <= i /\ i < q.next_index_to_write
        BY <3>1
      <4>3. PICK n \in Nat, a \in Nat :
              n = Len(old) /\ a = q.output.popped
        BY <1>4
      <4>4. a + len <= i /\ i < a + n /\ k = i - (a + len) + 1
        BY <1>4, <4>1, <4>2, <4>3
      <4>5. k \in 1..(n - len) /\ len + k = i - a + 1 /\ a <= i
        BY <4>4
      <4> QED
        BY <4>3, <4>5
    <3>3. o.queue[k] = b
      BY <3>1
    <3> HIDE DEF k
    <3>4. old[len + k] = b
      BY <1>2, <3>2, <3>3
    <3> QED
      BY <3>1, <3>2, <3>4 DEF Stands
  <2> QED
    BY <2>1, <2>2
<1> QED
  BY <1>2, <1>3, <1>8, <1>9, <1>10, <1>11 DEF p, o

-----------------------------------------------------------------------------
(* The inductive invariant.  The properties speak of what the application  *)
(* sees; an insertion depends on more, on where everything that waits      *)
(* lies.                                                                   *)
InWindow ==
  /\ world \in Worlds
  /\ Sound(r, Capacity[world]) /\ Tight(r)
  /\ offered \subseteq Nat \X Byte

StandsAsOffered ==
  \A i \in Nat, b \in Byte : Stands(r, i, b) => <<i, b>> \in offered

ReachedWhatOffered == \A p \in offered : Reached(r, p[1])

(* The window stays clear of the segments that run past the last index.    *)
BelowWrap ==
  \A seg \in Segments[world] : Wraps(seg) =>
    \A i \in Nat : Reached(r, i) => i + 1 + Capacity[world] <= seg.first_index

(* In an honest world nothing lies past the end, and the noted end is it.  *)
EofAtEnd ==
  Honest(world) =>
    \A last \in Segments[world] : last.is_last_substring =>
      /\ r.eof_received => r.eof_index = EndOf(last)
      /\ \A i \in Nat : Reached(r, i) => i < EndOf(last)
      /\ r.output.closed <=> r.eof_received /\ r.next_index_to_write = EndOf(last)

IInv ==
  InWindow /\ StandsAsOffered /\ ReachedWhatOffered /\ BelowWrap /\ EofAtEnd

(* A new Reassembler is sound and has reached nothing.                     *)
LEMMA NewFacts ==
  ASSUME NEW capacity \in Nat, NEW q, q = NewReassembler(NewStream(capacity))
  PROVE  /\ Sound(q, capacity) /\ Tight(q)
         /\ ~q.eof_received /\ ~q.output.closed
         /\ q.next_index_to_write = 0
         /\ \A i \in Nat : ~Reached(q, i)
         /\ \A i \in Nat, b \in Byte : ~Stands(q, i, b)
<1> DEFINE o == NewStream(capacity)
           no == FALSE
<1>1. /\ o \in StreamType(capacity, Byte)
      /\ BytesBuffered(o) = 0 /\ BytesPushed(o) = 0
  BY NewStreamFacts
<1>2. ~o.closed
  BY NewStreamFacts
<1>3. q = [output |-> o, substrings |-> {}, next_index_to_write |-> 0,
           eof_received |-> no, eof_index |-> 0]
  BY DEF NewReassembler
<1>4. no \in BOOLEAN /\ ~no
  OBVIOUS
<1> HIDE DEF o, no
<1>5. /\ q.output = o /\ q.substrings = {} /\ q.next_index_to_write = 0
      /\ q.eof_received = no /\ q.eof_index = 0
  BY <1>3
<1>6. Stored(q.substrings, FirstUnacceptable(q))
  BY <1>5 DEF Stored, Apart
<1>7. Sound(q, capacity)
  <2>1. q = [output |-> q.output, substrings |-> q.substrings,
             next_index_to_write |-> q.next_index_to_write,
             eof_received |-> q.eof_received, eof_index |-> q.eof_index]
    BY <1>3, <1>5
  <2> QED
    BY <1>1, <1>4, <1>5, <1>6, <2>1 DEF Sound
<1>8. Tight(q)
  BY <1>5 DEF Tight
<1>9. \A i \in Nat : ~Reached(q, i)
  BY <1>5 DEF Reached, Known
<1>10. \A i \in Nat, b \in Byte : ~Stands(q, i, b)
  <2>1. o.popped = 0
    BY NewStreamFacts DEF o
  <2> QED
    BY <1>5, <2>1 DEF Stands, Holds
<1> QED
  BY <1>2, <1>4, <1>5, <1>7, <1>8, <1>9, <1>10

(* It holds at first.                                                      *)
LEMMA InitInv == Init => IInv
<1> SUFFICES ASSUME Init PROVE IInv
  OBVIOUS
<1>1. Capacity[world] \in Nat /\ world \in Worlds /\ offered = {}
  BY DEF Init
<1>2. /\ Sound(r, Capacity[world]) /\ Tight(r)
      /\ ~r.eof_received /\ ~r.output.closed
      /\ r.next_index_to_write = 0
      /\ \A i \in Nat : ~Reached(r, i)
      /\ \A i \in Nat, b \in Byte : ~Stands(r, i, b)
  BY <1>1, NewFacts DEF Init
<1>3. EofAtEnd
  BY <1>2 DEF EofAtEnd
<1> QED
  BY <1>1, <1>2, <1>3
     DEF IInv, InWindow, StandsAsOffered, ReachedWhatOffered, BelowWrap

(* The fields of a segment that may arrive.                                *)
LEMMA SegmentFacts ==
  ASSUME NEW w \in Worlds, NEW seg \in Segments[w]
  PROVE  /\ Capacity[w] \in Nat \ {0}
         /\ seg.first_index \in 0..(U64 - 1) /\ seg.data \in Seq(Byte)
         /\ Len(seg.data) < U64 /\ Len(seg.data) \in Nat
         /\ seg.is_last_substring \in BOOLEAN
         /\ EndOf(seg) \in Nat
         /\ Wraps(seg) <=> ~(seg.first_index + Len(seg.data) < U64)
<1>1. /\ Capacity[w] \in Nat \ {0}
      /\ seg \in [first_index : 0..(U64 - 1), data : Seq(Byte),
                  is_last_substring : BOOLEAN]
      /\ Len(seg.data) < U64
  OBVIOUS
<1>2. seg.first_index \in 0..(U64 - 1) /\ seg.data \in Seq(Byte)
      /\ seg.is_last_substring \in BOOLEAN
  BY <1>1
<1>3. Len(seg.data) \in Nat
  BY <1>2, LenProperties
<1> QED
  BY <1>1, <1>2, <1>3 DEF EndOf, Wraps

(* What Receive() records as offered are the accepted indices, with their  *)
(* bytes.                                                                  *)
LEMMA OfferedFacts ==
  ASSUME InWindow, NEW seg \in Segments[world], Receive(seg)
  PROVE  /\ offered' \subseteq Nat \X Byte
         /\ offered \subseteq offered'
         /\ \A i \in Nat, b \in Byte :
              Accepts(r, seg.first_index, seg.data, i) /\ seg.data[i - seg.first_index + 1] = b
                => <<i, b>> \in offered'
         /\ \A p \in offered' : p \in offered \/ Accepts(r, seg.first_index, seg.data, p[1])
<1> DEFINE new == { <<seg.first_index + i - 1, seg.data[i]>> : i \in Acceptable(seg) }
           len == Len(seg.data)
           first == seg.first_index
<1>1. /\ first \in Nat /\ seg.data \in Seq(Byte) /\ len \in Nat
  BY SegmentFacts DEF InWindow
<1>2. seg.data \in [1..len -> Byte]
  BY <1>1, LenProperties
<1>3. offered' = offered \cup new
  BY DEF Receive
<1>4. ASSUME NEW k \in Acceptable(seg)
      PROVE  /\ first + k - 1 \in Nat /\ seg.data[k] \in Byte
             /\ Accepts(r, first, seg.data, first + k - 1)
  <2>1. k \in 1..len /\ r.next_index_to_write <= first + k - 1
        /\ first + k - 1 < FirstUnacceptable(r)
    BY DEF Acceptable
  <2> QED
    BY <1>1, <1>2, <2>1 DEF Accepts
<1>5. \A p \in new : p \in Nat \X Byte /\ Accepts(r, first, seg.data, p[1])
  BY <1>4
<1>6. ASSUME NEW i \in Nat, Accepts(r, first, seg.data, i)
      PROVE  <<i, seg.data[i - first + 1]>> \in new
  <2>1. i - first + 1 \in 1..len /\ first + (i - first + 1) - 1 = i
    BY <1>1, <1>6 DEF Accepts
  <2>2. i - first + 1 \in Acceptable(seg)
    BY <1>6, <2>1 DEF Acceptable, Accepts
  <2> QED
    BY <2>1, <2>2
<1> HIDE DEF new
<1> QED
  BY <1>3, <1>5, <1>6 DEF InWindow

(* The window has not come as far as a segment that wraps.                 *)
LEMMA WrapsAcceptNothing ==
  ASSUME InWindow, BelowWrap, NEW seg \in Segments[world], Wraps(seg), NEW i \in Nat
  PROVE  ~Accepts(r, seg.first_index, seg.data, i)
<1> DEFINE capacity == Capacity[world]
           next == r.next_index_to_write
           first == seg.first_index
<1>1. /\ next \in Nat /\ r.output.popped \in Nat /\ capacity \in Nat
      /\ FirstUnacceptable(r) = r.output.popped + capacity
      /\ r.output.popped <= next
  <2>1. capacity \in Nat /\ Sound(r, capacity)
    BY SegmentFacts DEF InWindow
  <2>2. /\ BytesBuffered(r.output) \in Nat /\ r.output.popped \in Nat
        /\ next = r.output.popped + BytesBuffered(r.output) /\ next \in Nat
        /\ FirstUnacceptable(r) = r.output.popped + capacity
    BY <2>1, WindowFacts
  <2> QED
    BY <2>1, <2>2
<1>2. first \in Nat
  BY SegmentFacts DEF InWindow
<1>3. next + capacity <= first
  <2>1. CASE next = 0
    BY <1>1, <2>1, WrapAssumption DEF InWindow
  <2>2. CASE next # 0
    <3>1. next - 1 \in Nat /\ Reached(r, next - 1)
      BY <1>1, <2>2 DEF Reached
    <3>2. (next - 1) + 1 + capacity <= first
      BY <3>1 DEF BelowWrap
    <3> QED
      BY <1>1, <1>2, <3>2
  <2> QED
    BY <2>1, <2>2
<1>4. FirstUnacceptable(r) <= first
  BY <1>1, <1>2, <1>3
<1> QED
  BY <1>1, <1>2, <1>4 DEF Accepts

(* A segment that arrives keeps the invariant.                             *)
LEMMA ReceiveInv ==
  ASSUME IInv, NEW seg \in Segments[world], Receive(seg)
  PROVE  IInv'
<1> DEFINE first == seg.first_index
           data == seg.data
           is_last == seg.is_last_substring
<1>1. /\ world \in Worlds /\ world' = world
      /\ InWindow /\ StandsAsOffered /\ ReachedWhatOffered /\ BelowWrap /\ EofAtEnd
  BY DEF IInv, InWindow, Receive
<1>2. /\ Capacity[world] \in Nat
      /\ first \in 0..(U64 - 1) /\ data \in Seq(Byte)
      /\ Len(data) < U64 /\ Len(data) \in Nat
      /\ is_last \in BOOLEAN
      /\ Wraps(seg) <=> ~(first + Len(data) < U64)
      /\ EndOf(seg) = first + Len(data)
  BY <1>1, SegmentFacts DEF EndOf
<1>3. /\ Sound(r', Capacity[world]) /\ Tight(r')
      /\ r'.eof_received <=> r.eof_received \/ is_last
      /\ r'.eof_index = IF is_last THEN OriginalLast(first, data) ELSE r.eof_index
      /\ r'.output.popped = r.output.popped
      /\ r.next_index_to_write <= r'.next_index_to_write
      /\ r.output.closed => r'.output.closed
      /\ r'.output.closed =>
           r.output.closed \/ (r'.eof_received /\ r'.next_index_to_write = r'.eof_index)
      /\ r'.eof_received /\ r'.next_index_to_write = r'.eof_index =>
           r'.output.closed \/ \E i \in Nat : r'.next_index_to_write <= i /\ Reached(r, i)
      /\ \A i \in Nat : Reached(r', i) => Reached(r, i) \/ Accepts(r, first, data, i)
      /\ \A i \in Nat : Reached(r, i) => Reached(r', i)
      /\ first + Len(data) < U64 =>
           \A i \in Nat : Accepts(r, first, data, i) => Reached(r', i)
      /\ \A i \in Nat, b \in Byte : Stands(r', i, b) =>
           Stands(r, i, b) \/ (Accepts(r, first, data, i) /\ data[i - first + 1] = b)
  <2>1. Sound(r, Capacity[world]) /\ Tight(r)
    BY <1>1 DEF InWindow
  <2>2. r' = Insert(r, first, data, is_last)
    BY DEF Receive
  <2> HIDE DEF first, data, is_last
  <2> QED
    BY <1>2, <2>1, <2>2, InsertFacts
<1>4. /\ offered' \subseteq Nat \X Byte
      /\ offered \subseteq offered'
      /\ \A i \in Nat, b \in Byte :
           Accepts(r, first, data, i) /\ data[i - first + 1] = b => <<i, b>> \in offered'
      /\ \A p \in offered' : p \in offered \/ Accepts(r, first, data, p[1])
  BY <1>1, OfferedFacts
<1>5. Wraps(seg) => \A i \in Nat : ~Accepts(r, first, data, i)
  BY <1>1, WrapsAcceptNothing
<1> HIDE DEF first, data, is_last
<1>6. InWindow'
  BY <1>1, <1>3, <1>4 DEF InWindow
<1>7. StandsAsOffered'
  BY <1>1, <1>3, <1>4 DEF StandsAsOffered
<1>8. ReachedWhatOffered'
  <2>1. SUFFICES ASSUME NEW p \in offered' PROVE Reached(r', p[1])
    BY DEF ReachedWhatOffered
  <2>2. p[1] \in Nat
    BY <1>4
  <2>3. CASE p \in offered
    BY <1>1, <1>3, <2>2, <2>3 DEF ReachedWhatOffered
  <2>4. CASE Accepts(r, first, data, p[1])
    BY <1>2, <1>3, <1>5, <2>2, <2>4
  <2> QED
    BY <1>4, <2>3, <2>4
<1>9. BelowWrap'
  <2>1. SUFFICES ASSUME NEW other \in Segments[world], Wraps(other),
                        NEW i \in Nat, Reached(r', i)
                 PROVE  i + 1 + Capacity[world] <= other.first_index
    BY <1>1 DEF BelowWrap
  <2>2. CASE Reached(r, i)
    BY <1>1, <2>1, <2>2 DEF BelowWrap
  <2>3. CASE Accepts(r, first, data, i)
    <3>1. ~Wraps(seg) /\ i < EndOf(seg) /\ data # << >>
      BY <1>2, <1>5, <2>3, EmptySeq DEF Accepts
    <3>2. EndOf(seg) + Capacity[world] <= other.first_index
      BY <1>1, <2>1, <3>1, WrapAssumption DEF data
    <3>3. other.first_index \in Nat /\ EndOf(seg) \in Nat
      BY <1>1, <1>2, SegmentFacts
    <3> QED
      BY <1>2, <3>1, <3>2, <3>3
  <2> QED
    BY <1>3, <2>1, <2>2, <2>3
<1>10. EofAtEnd'
  <2>1. SUFFICES ASSUME Honest(world), NEW last \in Segments[world], last.is_last_substring
                 PROVE  /\ r'.eof_received => r'.eof_index = EndOf(last)
                        /\ \A i \in Nat : Reached(r', i) => i < EndOf(last)
                        /\ r'.output.closed <=>
                             r'.eof_received /\ r'.next_index_to_write = EndOf(last)
    BY <1>1 DEF EofAtEnd
  <2>2. /\ r.eof_received => r.eof_index = EndOf(last)
        /\ \A i \in Nat : Reached(r, i) => i < EndOf(last)
        /\ r.output.closed <=> r.eof_received /\ r.next_index_to_write = EndOf(last)
    BY <1>1, <2>1 DEF EofAtEnd
  <2>3. EndOf(seg) <= EndOf(last) /\ EndOf(last) \in Nat /\ EndOf(seg) \in Nat
    BY <1>1, <2>1, SegmentFacts DEF Honest
  <2>4. is_last => ~Wraps(seg) /\ EndOf(seg) = EndOf(last)
    BY <2>1, <2>3 DEF Honest, is_last
  <2>5. r'.eof_received => r'.eof_index = EndOf(last)
    <3>1. CASE is_last
      <4>1. OriginalLast(first, data) = EndOf(seg)
        BY <1>2, <2>4, <3>1, OriginalLastFacts
      <4> QED
        BY <1>3, <2>4, <3>1, <4>1
    <3>2. CASE ~is_last
      BY <1>3, <2>2, <3>2
    <3> QED
      BY <3>1, <3>2
  <2>6. \A i \in Nat : Reached(r', i) => i < EndOf(last)
    <3>1. SUFFICES ASSUME NEW i \in Nat, Reached(r', i) PROVE i < EndOf(last)
      OBVIOUS
    <3>2. Accepts(r, first, data, i) => i < EndOf(seg)
      BY <1>2 DEF Accepts
    <3> QED
      BY <1>3, <2>2, <2>3, <3>1, <3>2
  <2>7. r'.next_index_to_write \in Nat /\ r'.next_index_to_write <= EndOf(last)
    <3>1. r'.next_index_to_write \in Nat
      BY <1>2, <1>3, WindowFacts
    <3>2. CASE r'.next_index_to_write = 0
      BY <2>3, <3>2
    <3>3. CASE r'.next_index_to_write # 0
      <4>1. r'.next_index_to_write - 1 \in Nat /\ Reached(r', r'.next_index_to_write - 1)
        BY <3>1, <3>3 DEF Reached
      <4> QED
        BY <2>3, <2>6, <3>1, <4>1
    <3> QED
      BY <3>1, <3>2, <3>3
  <2>8. ASSUME r'.output.closed
        PROVE  r'.eof_received /\ r'.next_index_to_write = EndOf(last)
    <3>1. CASE r.output.closed
      <4>1. r.eof_received /\ r.next_index_to_write = EndOf(last)
        BY <2>2, <3>1
      <4> QED
        BY <1>3, <2>3, <2>7, <4>1
    <3>2. CASE r'.eof_received /\ r'.next_index_to_write = r'.eof_index
      BY <2>5, <3>2
    <3> QED
      BY <1>3, <2>8, <3>1, <3>2
  <2>9. ASSUME r'.eof_received, r'.next_index_to_write = EndOf(last)
        PROVE  r'.output.closed
    <3>1. r'.next_index_to_write = r'.eof_index
      BY <2>5, <2>9
    <3>2. ~ \E i \in Nat : r'.next_index_to_write <= i /\ Reached(r, i)
      BY <2>2, <2>3, <2>9
    <3> QED
      BY <1>3, <2>9, <3>1, <3>2
  <2> QED
    BY <2>5, <2>6, <2>8, <2>9
<1> QED
  BY <1>6, <1>7, <1>8, <1>9, <1>10 DEF IInv

(* So does a read.                                                         *)
LEMMA ReadInv ==
  ASSUME IInv, NEW len \in 1..Capacity[world], Read(len)
  PROVE  IInv'
<1>1. /\ world \in Worlds /\ world' = world /\ offered' = offered
      /\ Capacity[world] \in Nat /\ len \in Nat
      /\ InWindow /\ StandsAsOffered /\ ReachedWhatOffered /\ BelowWrap /\ EofAtEnd
  BY DEF IInv, InWindow, Read
<1>2. /\ Sound(r', Capacity[world]) /\ Tight(r')
      /\ r'.substrings = r.substrings
      /\ r'.next_index_to_write = r.next_index_to_write
      /\ r'.eof_received = r.eof_received /\ r'.eof_index = r.eof_index
      /\ r'.output.closed = r.output.closed
      /\ \A i \in Nat : Reached(r', i) <=> Reached(r, i)
      /\ \A i \in Nat, b \in Byte : Stands(r', i, b) => Stands(r, i, b)
  <2>1. /\ Sound(r, Capacity[world]) /\ Tight(r)
        /\ len <= BytesBuffered(r.output)
        /\ r' = [r EXCEPT !.output = Pop(@, len)]
    BY <1>1 DEF InWindow, Read
  <2> QED
    BY <1>1, <2>1, ReadFacts
<1>3. InWindow'
  BY <1>1, <1>2 DEF InWindow
<1>4. StandsAsOffered'
  BY <1>1, <1>2 DEF StandsAsOffered
<1>5. ReachedWhatOffered'
  BY <1>1, <1>2 DEF ReachedWhatOffered, InWindow
<1>6. BelowWrap'
  BY <1>1, <1>2 DEF BelowWrap
<1>7. EofAtEnd'
  BY <1>1, <1>2 DEF EofAtEnd
<1> QED
  BY <1>3, <1>4, <1>5, <1>6, <1>7 DEF IInv

(* It is an invariant of the Reassembler.                                  *)
THEOREM Invariant == Spec => []IInv
<1>1. IInv /\ [Next]_vars => IInv'
  <2> SUFFICES ASSUME IInv, [Next]_vars PROVE IInv'
    OBVIOUS
  <2>1. CASE \E seg \in Segments[world] : Receive(seg)
    BY <2>1, ReceiveInv
  <2>2. CASE \E len \in 1..Capacity[world] : Read(len)
    BY <2>2, ReadInv
  <2>3. CASE UNCHANGED vars
    BY <2>3 DEF vars, IInv, InWindow, StandsAsOffered, ReachedWhatOffered,
                BelowWrap, EofAtEnd
  <2> QED
    BY <2>1, <2>2, <2>3 DEF Next
<1> QED
  BY InitInv, <1>1, PTL DEF Spec
-----------------------------------------------------------------------------
(* The invariant says what the properties ask: first, the types.           *)
LEMMA InvTypeOK == IInv => TypeOK
<1> SUFFICES ASSUME IInv PROVE TypeOK
  OBVIOUS
<1>1. Sound(r, Capacity[world]) /\ offered \subseteq Nat \X Byte
  BY DEF IInv, InWindow
<1>2. \A s \in r.substrings : SubstringType(s)
  BY <1>1 DEF Sound, Stored
<1> QED
  BY <1>1, <1>2 DEF TypeOK, Sound

(* The two counts agree: a part of soundness.                              *)
LEMMA InvInStep == IInv => InStepWithOutput
BY DEF IInv, InWindow, Sound, InStepWithOutput

(* What waits, waits in the window: soundness, and tightness.              *)
LEMMA InvPending == IInv => PendingWithinWindow
BY DEF IInv, InWindow, Sound, Tight, Stored, Apart, PendingWithinWindow

(* What is buffered or waits stands somewhere, so it was offered there.    *)
LEMMA InvNothingInvented == IInv => NothingInvented
<1> SUFFICES ASSUME IInv PROVE NothingInvented
  OBVIOUS
<1>1. Capacity[world] \in Nat /\ Sound(r, Capacity[world]) /\ StandsAsOffered
  BY SegmentFacts DEF IInv, InWindow
<1>2. /\ r.output.popped \in Nat /\ r.output.queue \in Seq(Byte)
      /\ BytesBuffered(r.output) \in Nat
      /\ r.next_index_to_write = r.output.popped + BytesBuffered(r.output)
  BY <1>1, WindowFacts
<1>3. ASSUME NEW k \in 1..BytesBuffered(r.output)
      PROVE  <<r.output.popped + k - 1, r.output.queue[k]>> \in offered
  <2>1. r.output.queue[k] \in Byte
    BY <1>2, ElementOfSeq DEF BytesBuffered
  <2>2. PICK i \in Nat : i = r.output.popped + k - 1
    BY <1>2
  <2>3. /\ r.output.popped <= i /\ i < r.next_index_to_write
        /\ i - r.output.popped + 1 = k
    BY <1>2, <2>2
  <2>4. Stands(r, i, r.output.queue[k])
    BY <2>3 DEF Stands
  <2> QED
    BY <1>1, <2>1, <2>2, <2>4 DEF StandsAsOffered
<1>4. ASSUME NEW s \in r.substrings, NEW i \in s.first..s.last
      PROVE  <<i, s.data[i]>> \in offered
  <2>1. SubstringType(s)
    BY <1>1 DEF Sound, Stored
  <2>2. i \in Nat /\ s.data[i] \in Byte /\ Covers(s, i)
    BY <2>1 DEF SubstringType, Covers
  <2>3. Stands(r, i, s.data[i])
    BY <2>2 DEF Stands, Holds
  <2> QED
    BY <1>1, <2>2, <2>3 DEF StandsAsOffered
<1> QED
  BY <1>3, <1>4 DEF NothingInvented

(* What was offered is reached, and nothing waits that could be written.   *)
LEMMA InvNothingForgotten == IInv => NothingForgotten
<1> SUFFICES ASSUME IInv, NEW p \in offered
             PROVE  \/ p[1] < r.next_index_to_write
                    \/ /\ Known(r.substrings, p[1])
                       /\ p[1] # r.next_index_to_write \/ r.output.closed
  BY DEF NothingForgotten
<1>1. Sound(r, Capacity[world]) /\ Tight(r) /\ Reached(r, p[1])
  BY DEF IInv, InWindow, ReachedWhatOffered
<1>2. ASSUME Known(r.substrings, p[1]), p[1] = r.next_index_to_write
      PROVE  r.output.closed
  <2>1. PICK s \in r.substrings : Covers(s, p[1])
    BY <1>2 DEF Known
  <2>2. s.first \in Nat /\ r.next_index_to_write \in Nat
    BY <1>1 DEF Sound, Stored, SubstringType
  <2>3. ~(s.first > r.next_index_to_write)
    BY <1>2, <2>1, <2>2 DEF Covers
  <2> QED
    BY <1>1, <2>3 DEF Tight
<1> QED
  BY <1>1, <1>2 DEF Reached

(* The end in the invariant is the end in the property.                    *)
LEMMA InvClosed == IInv => ClosedExactlyAtEof
BY DEF IInv, InWindow, Sound, EofAtEnd, ClosedExactlyAtEof

(* The state has its type: substrings_ holds non-empty substrings, and the *)
(* output is a stream of the capacity it was made with.                    *)
THEOREM TypeCorrect == Spec => []TypeOK
BY Invariant, InvTypeOK, PTL

(* next_index_to_write_, advanced by what push() was given, stays the      *)
(* count of what push() took: no push is ever truncated.                   *)
THEOREM InStep == Spec => []InStepWithOutput
BY Invariant, InvInStep, PTL

(* However segments overlap, what waits lies beyond the next index and     *)
(* within the capacity left, and no two substrings share an index.         *)
THEOREM PendingInWindow == Spec => []PendingWithinWindow
BY Invariant, InvPending, PTL

(* The merging and trimming of insert() never moves a byte to an index     *)
(* other than the one it arrived for, contradictory segments included.     *)
THEOREM NoByteInvented == Spec => []NothingInvented
BY Invariant, InvNothingInvented, PTL

(* insert() loses no acceptable byte, whatever it merges, trims or drops.  *)
THEOREM NoByteForgotten == Spec => []NothingForgotten
BY Invariant, InvNothingForgotten, PTL

(* The early returns of insert() never leave the output of an honest       *)
(* stream open when all is written, and never close it before.             *)
THEOREM ClosedAtEof == Spec => []ClosedExactlyAtEof
BY Invariant, InvClosed, PTL
=============================================================================
