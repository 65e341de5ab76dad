------------------------------- MODULE Lemmas -------------------------------
(***************************************************************************)
(* What the proofs about several modules rest on.  Numbers: remainders,    *)
(* for cursors and sequence numbers, and least and greatest elements, for  *)
(* CHOOSE and for loops.  Byte streams: what the operators of Streams      *)
(* return, for every capacity and alphabet.  Queues: what the operators of *)
(* Subsequences choose.                                                    *)
(***************************************************************************)
EXTENDS Streams, Subsequences, Integers, SequenceTheorems, FiniteSetTheorems,
  FunctionTheorems, TLAPS

(* A remainder lies below its modulus.                                     *)
LEMMA ModRange ==
  ASSUME NEW x \in Int, NEW m \in Nat \ {0}
  PROVE  x % m \in 0..(m - 1)
  OBVIOUS

(* It is the number itself when that is small enough.                      *)
LEMMA ModSmall ==
  ASSUME NEW m \in Nat \ {0}, NEW x \in 0..(m - 1)
  PROVE  x % m = x
  OBVIOUS

(* And it differs from the number by a multiple of the modulus.            *)
LEMMA ModDiv ==
  ASSUME NEW x \in Int, NEW m \in Nat \ {0}
  PROVE  /\ x \div m \in Int
         /\ x = m * (x \div m) + (x % m)
  OBVIOUS

(* No other number does.                                                   *)
LEMMA ModUnique ==
  ASSUME NEW m \in Nat \ {0}, NEW x \in Int, NEW q \in Int, NEW d \in 0..(m - 1),
         x = m * q + d
  PROVE  x % m = d
  OBVIOUS

(* A multiple of the modulus changes nothing.                              *)
LEMMA ModPeriod ==
  ASSUME NEW x \in Int, NEW k \in Int, NEW m \in Nat \ {0}
  PROVE  (x + m * k) % m = x % m
<1> DEFINE q == x \div m
<1>1. q \in Int /\ x = m * q + (x % m)
  BY ModDiv
<1>2. x % m \in 0..(m - 1)
  BY ModRange
<1>3. m * q + m * k = m * (q + k)
  BY <1>1
<1>4. x + m * k = m * (q + k) + (x % m)
  BY <1>1, <1>2, <1>3
<1>5. q + k \in Int /\ x + m * k \in Int
  BY <1>1
<1> QED
  BY <1>2, <1>4, <1>5, ModUnique

(* One step around a ring: at most one wrap.                               *)
LEMMA ModStep ==
  ASSUME NEW m \in Nat \ {0}, NEW x \in 0..(m - 1), NEW n \in 0..m
  PROVE  (x + n) % m = IF x + n < m THEN x + n ELSE x + n - m
<1>1. CASE x + n < m
  BY <1>1, ModSmall
<1>2. CASE x + n >= m
  <2>1. x + n - m \in 0..(m - 1) /\ x + n = m * 1 + (x + n - m)
    BY <1>2
  <2> QED
    BY <1>2, <2>1, ModUnique
<1> QED
  BY <1>1, <1>2

(* Only the remainder of what is added to matters.                         *)
LEMMA ModAdd ==
  ASSUME NEW m \in Nat \ {0}, NEW x \in Int, NEW n \in Int
  PROVE  (x + n) % m = ((x % m) + n) % m
<1>1. PICK q \in Int : x = m * q + (x % m)
  BY ModDiv
<1>2. x % m \in Int
  BY ModRange
<1>3. PICK y \in Int : y = (x % m) + n
  BY <1>2
<1>4. x + n = y + m * q
  BY <1>1, <1>2, <1>3
<1>5. (y + m * q) % m = y % m
  BY ModPeriod
<1> QED
  BY <1>3, <1>4, <1>5

-----------------------------------------------------------------------------
(* The natural numbers are well ordered.                                   *)
LEMMA LeastExists ==
  ASSUME NEW T \in SUBSET Nat, T # {}
  PROVE  \E x \in T : \A y \in T : x <= y
<1> DEFINE R == OpToRel(<, Nat)
<1>1. \A x, y \in Nat : <<y, x>> \in R <=> y < x
  BY DEF OpToRel
<1>2. IsWellFoundedOn(R, Nat)
  BY NatLessThanWellFounded
<1> HIDE DEF R
<1>3. PICK x \in T : \A y \in T : <<y, x>> \notin R
  BY <1>2, WFMin
<1>4. \A y \in T : ~(y < x)
  BY <1>1, <1>3
<1> QED
  BY <1>3, <1>4

(* A set of natural numbers with a bound has a greatest element.           *)
LEMMA GreatestExists ==
  ASSUME NEW T \in SUBSET Nat, T # {}, NEW b \in Nat, \A x \in T : x <= b
  PROVE  \E x \in T : \A y \in T : y <= x
<1> DEFINE Bounds == {c \in Nat : \A x \in T : x <= c}
<1>1. PICK c \in Bounds : \A d \in Bounds : c <= d
  <2>1. b \in Bounds
    OBVIOUS
  <2> QED
    BY <2>1, LeastExists
<1>2. CASE c \in T
  BY <1>1, <1>2
<1>3. CASE c \notin T
  <2>1. c > 0
    <3>1. PICK x \in T : TRUE
      OBVIOUS
    <3>2. x <= c /\ x # c
      BY <1>1, <1>3
    <3> QED
      BY <3>2
  <2>2. c - 1 \in Bounds
    BY <2>1, <1>3, <1>1
  <2> QED
    BY <2>1, <2>2, <1>1
<1> QED
  BY <1>2, <1>3

-----------------------------------------------------------------------------
(* A new stream is empty.                                                  *)
LEMMA NewStreamFacts ==
  ASSUME NEW B, NEW capacity \in Nat
  PROVE  /\ NewStream(capacity) \in StreamType(capacity, B)
         /\ BytesBuffered(NewStream(capacity)) = 0
         /\ BytesPushed(NewStream(capacity)) = 0
         /\ NewStream(capacity).popped = 0
         /\ NewStream(capacity).queue = << >>
         /\ NewStream(capacity).closed = FALSE
         /\ NewStream(capacity).error = FALSE
<1>1. << >> \in Seq(B) /\ Len(<< >>) = 0
  BY EmptySeq
<1> QED
  BY <1>1 DEF NewStream, StreamType, BytesBuffered, BytesPushed

(* The fields of a stream, apart.                                          *)
LEMMA StreamFields ==
  ASSUME NEW B, NEW capacity \in Nat, NEW s \in StreamType(capacity, B)
  PROVE  /\ s.capacity = capacity /\ s.queue \in Seq(B) /\ s.popped \in Nat
         /\ s.closed \in BOOLEAN /\ s.error \in BOOLEAN
         /\ Len(s.queue) \in Nat
         /\ BytesBuffered(s) = Len(s.queue)
         /\ BytesPushed(s) = s.popped + BytesBuffered(s)
<1>1. /\ s.capacity = capacity /\ s.queue \in Seq(B) /\ s.popped \in Nat
      /\ s.closed \in BOOLEAN /\ s.error \in BOOLEAN
  BY DEF StreamType
<1> QED
  BY <1>1, LenProperties DEF BytesBuffered, BytesPushed

(* Sequence new is old followed by data.                                   *)
Extended(new, old, data) ==
  /\ Len(new) = Len(old) + Len(data)
  /\ \A i \in 1..(Len(old) + Len(data)) :
       new[i] = IF i <= Len(old) THEN old[i] ELSE data[i - Len(old)]

(* An open stream takes all of what fits, at the end of its queue.         *)
LEMMA PushFacts ==
  ASSUME NEW B, NEW capacity \in Nat, NEW s \in StreamType(capacity, B),
         NEW data \in Seq(B), ~s.closed, Len(data) <= AvailableCapacity(s)
  PROVE  /\ Push(s, data) \in StreamType(capacity, B)
         /\ Extended(Push(s, data).queue, s.queue, data)
         /\ Push(s, data).popped = s.popped
         /\ Push(s, data).closed = s.closed
         /\ Push(s, data).error = s.error
<1>1. s.queue \in Seq(B) /\ Len(s.queue) \in Nat /\ Len(data) \in Nat
  BY StreamFields, LenProperties
<1>2. Lesser(Len(data), AvailableCapacity(s)) = Len(data)
  BY DEF Lesser
<1>3. SubSeq(data, 1, Len(data)) = data
  BY SubSeqFull
<1>4. Push(s, data) = [s EXCEPT !.queue = s.queue \o data]
  BY <1>2, <1>3 DEF Push
<1>5. /\ s.queue \o data \in Seq(B)
      /\ Len(s.queue \o data) = Len(s.queue) + Len(data)
      /\ \A i \in 1..(Len(s.queue) + Len(data)) :
           (s.queue \o data)[i] =
             IF i <= Len(s.queue) THEN s.queue[i] ELSE data[i - Len(s.queue)]
  BY <1>1, ConcatProperties
<1> DEFINE joined == s.queue \o data
<1> HIDE DEF joined
<1>6. Push(s, data) = [s EXCEPT !.queue = joined] /\ joined \in Seq(B)
  BY <1>4, <1>5 DEF joined
<1>7. /\ Push(s, data) \in StreamType(capacity, B)
      /\ Push(s, data).queue = joined
      /\ Push(s, data).popped = s.popped
      /\ Push(s, data).closed = s.closed
      /\ Push(s, data).error = s.error
  BY <1>6 DEF StreamType
<1> QED
  BY <1>5, <1>7 DEF joined, Extended

(* Closing changes nothing else.                                           *)
LEMMA CloseFacts ==
  ASSUME NEW B, NEW capacity \in Nat, NEW s \in StreamType(capacity, B)
  PROVE  /\ Close(s) \in StreamType(capacity, B)
         /\ Close(s).queue = s.queue
         /\ Close(s).popped = s.popped
         /\ Close(s).closed
         /\ Close(s).error = s.error
  BY DEF Close, StreamType

(* A pop takes the oldest bytes and leaves the others in order.            *)
LEMMA PopFacts ==
  ASSUME NEW B, NEW capacity \in Nat, NEW s \in StreamType(capacity, B),
         NEW len \in Nat, len <= BytesBuffered(s)
  PROVE  /\ Pop(s, len) \in StreamType(capacity, B)
         /\ Len(Pop(s, len).queue) = Len(s.queue) - len
         /\ \A i \in 1..(Len(s.queue) - len) : Pop(s, len).queue[i] = s.queue[len + i]
         /\ Pop(s, len).popped = s.popped + len
         /\ Pop(s, len).closed = s.closed
         /\ Pop(s, len).error = s.error
         /\ BytesPushed(Pop(s, len)) = BytesPushed(s)
<1> DEFINE n == Len(s.queue)
           q == SubSeq(s.queue, len + 1, n)
<1>1. s.queue \in Seq(B) /\ s.popped \in Nat /\ n \in Nat /\ len <= n
  BY StreamFields DEF BytesBuffered
<1>2. \A i \in (len + 1)..n : s.queue[i] \in B
  BY <1>1, ElementOfSeq
<1>3. /\ q \in Seq(B)
      /\ Len(q) = IF len + 1 <= n THEN n - (len + 1) + 1 ELSE 0
      /\ \A i \in 1..(n - (len + 1) + 1) : q[i] = s.queue[(len + 1) + i - 1]
  BY <1>1, <1>2, SubSeqProperties
<1>4. Len(q) = n - len
  BY <1>1, <1>3
<1>5. \A i \in 1..(n - len) : q[i] = s.queue[len + i]
  BY <1>1, <1>3
<1>6. Pop(s, len) = [s EXCEPT !.queue = q, !.popped = s.popped + len]
  BY DEF Pop
<1> HIDE DEF q
<1>7. Pop(s, len).queue = q /\ Pop(s, len).popped = s.popped + len
      /\ Pop(s, len).closed = s.closed
      /\ Pop(s, len).error = s.error
  BY <1>6 DEF StreamType
<1>8. Pop(s, len) \in StreamType(capacity, B)
  <2> DEFINE t == [s EXCEPT !.queue = q]
  <2>1. t \in StreamType(capacity, B)
    BY <1>3 DEF StreamType
  <2>2. Pop(s, len) = [t EXCEPT !.popped = s.popped + len]
    BY <1>6 DEF StreamType
  <2> HIDE DEF t
  <2>3. s.popped + len \in Nat
    BY <1>1
  <2> QED
    BY <2>1, <2>2, <2>3 DEF StreamType
<1>9. BytesPushed(Pop(s, len)) = BytesPushed(s)
  BY <1>1, <1>4, <1>7 DEF BytesPushed
<1> QED
  BY <1>4, <1>5, <1>7, <1>8, <1>9

-----------------------------------------------------------------------------
IsAscent(f, I, n) ==
  f = [m \in 0..n |-> IF m = 0 THEN << >>
                      ELSE IF m \in I THEN Append(f[m - 1], m) ELSE f[m - 1]]

(* The recursive function behind Ascending does exist.                     *)
LEMMA AscentExists ==
  ASSUME NEW I, NEW top \in Nat
  PROVE  \E f : IsAscent(f, I, top)
<1> DEFINE There(n) == \E f : IsAscent(f, I, n)
           missing == {n \in Nat : ~There(n)}
<1>1. SUFFICES ASSUME missing # {} PROVE FALSE
  OBVIOUS
<1>2. PICK n \in missing : \A j \in missing : n <= j
  <2>1. missing \subseteq Nat
    OBVIOUS
  <2> HIDE DEF missing
  <2> QED
    BY <1>1, <2>1, LeastExists
<1>3. n \in Nat /\ ~There(n)
  OBVIOUS
<1>4. CASE n = 0
  <2> DEFINE f == [m \in 0..0 |-> << >>]
  <2>1. f = [m \in 0..0 |-> IF m = 0 THEN << >>
                            ELSE IF m \in I THEN Append(f[m - 1], m) ELSE f[m - 1]]
    OBVIOUS
  <2> QED
    BY <1>3, <1>4, <2>1 DEF IsAscent
<1>5. CASE n > 0
  <2>1. n - 1 \in Nat /\ ~(n <= n - 1)
    BY <1>3, <1>5
  <2>2. PICK f : IsAscent(f, I, n - 1)
    BY <1>2, <2>1
  <2>3. \A m \in 0..(n - 1) :
          f[m] = IF m = 0 THEN << >> ELSE IF m \in I THEN Append(f[m - 1], m) ELSE f[m - 1]
    BY <2>2 DEF IsAscent
  <2> DEFINE last == IF n \in I THEN Append(f[n - 1], n) ELSE f[n - 1]
             g == [m \in 0..n |-> IF m = n THEN last ELSE f[m]]
  <2>4. g[n] = last
    BY <1>3
  <2>5. \A m \in 0..(n - 1) : g[m] = f[m]
    BY <1>3
  <2>6. g = [m \in 0..n |-> g[m]]
    OBVIOUS
  <2> HIDE DEF g
  <2>7. ASSUME NEW m \in 0..n
        PROVE  g[m] = IF m = 0 THEN << >>
                      ELSE IF m \in I THEN Append(g[m - 1], m) ELSE g[m - 1]
    <3>1. CASE m = n
      <4>1. g[n - 1] = f[n - 1]
        BY <2>1, <2>5
      <4> QED
        BY <1>3, <1>5, <2>4, <3>1, <4>1
    <3>2. CASE m # n /\ m # 0
      <4>1. m \in 0..(n - 1) /\ m - 1 \in 0..(n - 1)
        BY <1>3, <3>2
      <4> QED
        BY <2>3, <2>5, <3>2, <4>1
    <3>3. CASE m # n /\ m = 0
      <4>1. m \in 0..(n - 1)
        BY <1>3, <3>3
      <4> QED
        BY <2>3, <2>5, <3>3, <4>1
    <3> QED
      BY <3>1, <3>2, <3>3
  <2>8. IsAscent(g, I, n)
    BY <2>6, <2>7 DEF IsAscent
  <2> QED
    BY <1>3, <2>8
<1> QED
  BY <1>3, <1>4, <1>5

(* Ascending is the last value of such a function.                         *)
LEMMA AscendingIs ==
  ASSUME NEW I, NEW n \in Nat
  PROVE  \E f : IsAscent(f, I, n) /\ Ascending(I, n) = f[n]
<1> DEFINE f == CHOOSE f : f = [m \in 0..n |->
                   IF m = 0 THEN << >>
                   ELSE IF m \in I THEN Append(f[m - 1], m) ELSE f[m - 1]]
<1>1. Ascending(I, n) = f[n]
  BY DEF Ascending
<1>2. IsAscent(f, I, n)
  <2>1. \E g : g = [m \in 0..n |->
                   IF m = 0 THEN << >>
                   ELSE IF m \in I THEN Append(g[m - 1], m) ELSE g[m - 1]]
    <3>1. PICK g : IsAscent(g, I, n)
      BY AscentExists
    <3> HIDE DEF f
    <3> QED
      BY <3>1 DEF IsAscent
  <2> QED
    BY <2>1 DEF IsAscent
<1> QED
  BY <1>1, <1>2

(* What it lists are members of I, and none beyond n.                      *)
LEMMA AscendingType ==
  ASSUME NEW I, NEW n \in Nat
  PROVE  Ascending(I, n) \in Seq(I \cap (1..n))
<1>1. PICK f : IsAscent(f, I, n) /\ Ascending(I, n) = f[n]
  BY AscendingIs
<1>2. \A m \in 0..n :
        f[m] = IF m = 0 THEN << >> ELSE IF m \in I THEN Append(f[m - 1], m) ELSE f[m - 1]
  BY <1>1 DEF IsAscent
<1> DEFINE J == I \cap (1..n)
           wrong == {m \in 0..n : f[m] \notin Seq(J)}
<1>3. SUFFICES ASSUME wrong # {} PROVE FALSE
  BY <1>1
<1>4. PICK m \in wrong : \A j \in wrong : m <= j
  <2>1. wrong \subseteq Nat
    OBVIOUS
  <2> HIDE DEF wrong
  <2> QED
    BY <1>3, <2>1, LeastExists
<1>5. m \in 0..n /\ f[m] \notin Seq(J)
  OBVIOUS
<1>6. m # 0
  <2>1. f[0] = << >> /\ << >> \in Seq(J)
    BY <1>2
  <2> HIDE DEF J
  <2> QED
    BY <1>5, <2>1
<1>7. m - 1 \in 0..n /\ ~(m <= m - 1)
  BY <1>5, <1>6
<1>8. f[m - 1] \in Seq(J)
  BY <1>4, <1>7
<1>9. m \in I => m \in J
  BY <1>5, <1>6
<1> HIDE DEF J, wrong
<1>10. m \in I => Append(f[m - 1], m) \in Seq(J)
  BY <1>8, <1>9
<1> QED
  BY <1>2, <1>5, <1>6, <1>8, <1>10

(* The numbers from a + 1 on, in order.                                    *)
LEMMA AscendingRest ==
  ASSUME NEW I, NEW n \in Nat, NEW a \in 0..n, \A i \in 1..n : i \in I <=> i > a
  PROVE  Ascending(I, n) = [j \in 1..(n - a) |-> a + j]
<1>1. PICK f : IsAscent(f, I, n) /\ Ascending(I, n) = f[n]
  BY AscendingIs
<1>2. \A m \in 0..n :
        f[m] = IF m = 0 THEN << >> ELSE IF m \in I THEN Append(f[m - 1], m) ELSE f[m - 1]
  BY <1>1 DEF IsAscent
<1> DEFINE Beyond(m) == [j \in 1..(m - a) |-> a + j]
           wrong == {m \in 0..n : f[m] # Beyond(m)}
<1>3. SUFFICES ASSUME wrong # {} PROVE FALSE
  <2>1. n \in wrong \/ f[n] = Beyond(n)
    OBVIOUS
  <2> HIDE DEF wrong
  <2> QED
    BY <1>1, <2>1
<1>4. PICK m \in wrong : \A j \in wrong : m <= j
  <2>1. wrong \subseteq Nat
    OBVIOUS
  <2> HIDE DEF wrong
  <2> QED
    BY <1>3, <2>1, LeastExists
<1>5. m \in 0..n /\ f[m] # Beyond(m)
  OBVIOUS
<1>6. \A k \in 0..n : k <= a => Beyond(k) = << >>
  <2>1. SUFFICES ASSUME NEW k \in 0..n, k <= a PROVE Beyond(k) = << >>
    OBVIOUS
  <2>2. 1..(k - a) = {}
    BY <2>1
  <2> QED
    BY <2>2
<1>7. m # 0
  <2>1. 0 \in 0..n /\ 0 <= a
    OBVIOUS
  <2>2. Beyond(0) = << >>
    BY <1>6, <2>1
  <2> HIDE DEF Beyond
  <2> QED
    BY <1>2, <1>5, <2>1, <2>2
<1>8. m - 1 \in 0..n /\ ~(m <= m - 1)
  BY <1>5, <1>7
<1>9. f[m - 1] = Beyond(m - 1)
  BY <1>4, <1>8
<1>10. CASE m <= a
  <2>1. m \notin I /\ m - 1 <= a
    BY <1>5, <1>7, <1>10
  <2>2. Beyond(m) = << >> /\ Beyond(m - 1) = << >>
    BY <1>5, <1>6, <1>8, <1>10, <2>1
  <2> HIDE DEF Beyond
  <2> QED
    BY <1>2, <1>5, <1>7, <1>9, <2>1, <2>2
<1>11. CASE m > a
  <2>1. m \in I /\ m - a \in Nat /\ m - 1 - a \in Nat
    BY <1>5, <1>7, <1>11
  <2>2. f[m] = Append(Beyond(m - 1), m)
    BY <1>2, <1>5, <1>7, <1>9, <2>1
  <2>3. Beyond(m - 1) \in Seq(Nat) /\ Len(Beyond(m - 1)) = m - 1 - a
    BY <2>1
  <2>4. Append(Beyond(m - 1), m) = Beyond(m)
    BY <2>1, <2>3
  <2> QED
    BY <1>5, <2>2, <2>4
<1> QED
  BY <1>5, <1>10, <1>11

(* What is chosen from a sequence are some of its elements.                *)
LEMMA ChosenFacts ==
  ASSUME NEW S, NEW s \in Seq(S), NEW I
  PROVE  /\ Chosen(s, I) \in Seq(S)
         /\ \A j \in DOMAIN Chosen(s, I) :
              \E i \in DOMAIN s : i \in I /\ Chosen(s, I)[j] = s[i]
<1>1. PICK n \in Nat : n = Len(s) /\ DOMAIN s = 1..n
  BY LenProperties
<1>2. PICK at : at = Ascending(I, n) /\ at \in Seq(I \cap (1..n))
  BY <1>1, AscendingType
<1>3. Chosen(s, I) = [j \in DOMAIN at |-> s[at[j]]]
  BY <1>1, <1>2 DEF Chosen
<1>4. PICK k \in Nat : k = Len(at) /\ DOMAIN at = 1..k
  BY <1>2, LenProperties
<1>5. \A j \in 1..k : at[j] \in I /\ at[j] \in 1..n
  BY <1>2, <1>4
<1>6. \A j \in 1..k : s[at[j]] \in S
  BY <1>1, <1>5
<1> QED
  BY <1>1, <1>3, <1>4, <1>5, <1>6

(* Without the first elements, in particular: the rest.                    *)
LEMMA ChosenRest ==
  ASSUME NEW S, NEW s \in Seq(S), NEW I, NEW a \in 0..Len(s),
         \A i \in 1..Len(s) : i \in I <=> i > a
  PROVE  Chosen(s, I) = [j \in 1..(Len(s) - a) |-> s[a + j]]
<1>1. PICK n \in Nat : n = Len(s) /\ DOMAIN s = 1..n
  BY LenProperties
<1>2. PICK at : at = Ascending(I, n)
  OBVIOUS
<1>3. at = [j \in 1..(n - a) |-> a + j]
  BY <1>1, <1>2, AscendingRest
<1> QED
  BY <1>1, <1>2, <1>3 DEF Chosen

=============================================================================
