---------------------------- MODULE Wrap32Proofs ----------------------------
(***************************************************************************)
(* The conversions of wrapping_integers.cc for every even modulus: what    *)
(* the runs try at 8 holds at 2^32.  The argument: two numbers that wrap   *)
(* to the same raw value differ by a multiple of Mod, and unwrap looks at  *)
(* the candidate in the checkpoint's own turn and at its two neighbours.   *)
(***************************************************************************)
EXTENDS Wrap32System, Lemmas

USE WrapAssumption, CheckpointAssumption

Half == Mod \div 2

(* The circle is even: it has two equal halves.                            *)
LEMMA HalfFact == Half \in Nat /\ Mod = Half + Half /\ Half > 0
<1>1. Mod \div 2 \in Int /\ Mod = 2 * (Mod \div 2) + (Mod % 2)
  BY ModDiv
<1> QED
  BY <1>1 DEF Half

(* A multiple of the modulus is zero or at least one turn away.            *)
LEMMA Turns ==
  ASSUME NEW k \in Int
  PROVE  /\ Mod * k \in Int
         /\ k = 0 => Mod * k = 0
         /\ k = 1 => Mod * k = Mod
         /\ k = -1 => Mod * k = -Mod
         /\ k >= 1 => Mod * k >= Mod
         /\ k <= -1 => Mod * k <= -Mod
         /\ k >= 2 => Mod * k >= Mod + Mod
         /\ k <= -2 => Mod * k <= -(Mod + Mod)
<1>1. k >= 1 => Mod * k >= Mod
  OBVIOUS
<1>2. k <= -1 => Mod * k <= -Mod
  OBVIOUS
<1>3. k >= 2 => Mod * k >= Mod + Mod
  OBVIOUS
<1>4. k <= -2 => Mod * k <= -(Mod + Mod)
  OBVIOUS
<1> QED
  BY <1>1, <1>2, <1>3, <1>4

(* The offset unwrap starts from is the remainder of every number that     *)
(* wraps to the raw value.                                                 *)
LEMMA OffsetOf ==
  ASSUME NEW zero \in Raw, NEW m \in Nat
  PROVE  (wrap(m, zero) - zero) % Mod = m % Mod
<1>1. PICK w \in Int : w = zero + m
  BY DEF Raw
<1>2. PICK z \in Int : z = -zero
  BY DEF Raw
<1>3. (w + z) % Mod = ((w % Mod) + z) % Mod
  BY ModAdd
<1>4. w + z = m
  BY <1>1, <1>2 DEF Raw
<1>5. w % Mod \in Int
  BY ModRange
<1>6. (w % Mod) + z = (w % Mod) - zero
  BY <1>2, <1>5 DEF Raw
<1> QED
  BY <1>1, <1>3, <1>4, <1>6 DEF wrap

Base(c) == c - (c % Mod)

Candidate(rv, zero, c) == Base(c) + ((rv - zero) % Mod)

(* The candidate lies on the checkpoint's turn of the circle and wraps to  *)
(* the raw number.                                                         *)
LEMMA CandidateFacts ==
  ASSUME NEW rv \in Raw, NEW zero \in Raw, NEW c \in Nat
  PROVE  /\ Candidate(rv, zero, c) \in Nat
         /\ Candidate(rv, zero, c) - c < Mod
         /\ c - Candidate(rv, zero, c) < Mod
<1>1. PICK x \in Int : x = rv - zero
  BY DEF Raw
<1>2. x % Mod \in 0 .. Mod - 1 /\ c % Mod \in 0 .. Mod - 1
  BY ModRange
<1>3. c % Mod <= c
  OBVIOUS
<1> QED
  BY <1>1, <1>2, <1>3 DEF Candidate, Base

(* Every number that wraps to the same value is whole turns away.          *)
LEMMA TurnsAway ==
  ASSUME NEW zero \in Raw, NEW c \in Nat, NEW m \in Nat
  PROVE  \E k \in Int : m = Candidate(wrap(m, zero), zero, c) + Mod * k
<1>0. /\ c \div Mod \in Int /\ c = Mod * (c \div Mod) + (c % Mod)
      /\ m \div Mod \in Int /\ m = Mod * (m \div Mod) + (m % Mod)
  BY ModDiv
<1>1. PICK qc \in Int : c = Mod * qc + (c % Mod)
  BY <1>0, Zenon
<1>2. PICK qm \in Int : m = Mod * qm + (m % Mod)
  BY <1>0, Zenon
<1>3. c % Mod \in Int /\ m % Mod \in Int
  BY ModRange
<1>4. Candidate(wrap(m, zero), zero, c) = Base(c) + (m % Mod)
  BY OffsetOf DEF Candidate
<1>5. Mod * (qm - qc) = Mod * qm - Mod * qc
  OBVIOUS
<1>6. m = Candidate(wrap(m, zero), zero, c) + Mod * (qm - qc)
  BY <1>1, <1>2, <1>3, <1>4, <1>5 DEF Base
<1>7. qm - qc \in Int
  OBVIOUS
<1> QED
  BY <1>6, <1>7

(* What unwrap makes of the candidate, when nothing overflows.             *)
LEMMA UnwrapCases ==
  ASSUME NEW rv \in Raw, NEW zero \in Raw, NEW c \in Nat, c + Mod < U64
  PROVE  LET t == Candidate(rv, zero, c) IN
         unwrap(rv, zero, c) =
           IF t - c > Half THEN IF t >= Mod THEN t - Mod ELSE t
           ELSE IF c - t > Half THEN t + Mod ELSE t
<1> DEFINE t == Candidate(rv, zero, c)
<1>1. t \in Nat /\ t - c < Mod /\ c - t < Mod
  BY CandidateFacts
<1>2. unwrap(rv, zero, c) =
        IF t > c /\ t - c > Half THEN IF t >= Mod THEN t - Mod ELSE t
        ELSE IF t < c /\ c - t > Half THEN (t + Mod) % U64 ELSE t
  BY DEF unwrap, TooFar, Half, Candidate, Base
<1> HIDE DEF t
<1>3. CASE c - t > Half
  <2>1. t + Mod \in 0 .. U64 - 1 /\ t < c
    BY <1>1, <1>3, HalfFact
  <2>2. (t + Mod) % U64 = t + Mod
    BY <2>1, ModSmall
  <2>3. unwrap(rv, zero, c) = t + Mod
    BY <1>1, <1>2, <1>3, <2>1, <2>2, HalfFact
  <2>4. ~(t - c > Half)
    BY <1>1, <2>1, HalfFact
  <2> QED
    BY <1>3, <2>3, <2>4 DEF t
<1>4. CASE ~(c - t > Half)
  <2>1. t - c > Half => t > c
    BY <1>1, HalfFact
  <2>2. unwrap(rv, zero, c) = IF t - c > Half THEN IF t >= Mod THEN t - Mod ELSE t ELSE t
    BY <1>2, <1>4, <2>1
  <2> QED
    BY <1>4, <2>2 DEF t
<1> QED
  BY <1>3, <1>4

(* Less than half a turn from the checkpoint, unwrap inverts wrap.         *)
LEMMA UnwrapWrap ==
  ASSUME NEW zero \in Raw, NEW c \in Nat, NEW n \in Nat, c + Mod < U64,
         Distance(n, c) < Half
  PROVE  unwrap(wrap(n, zero), zero, c) = n
<1> DEFINE rv == wrap(n, zero)
           t  == Candidate(rv, zero, c)
<1>1. rv \in Raw
  <2>1. PICK w \in Int : w = zero + n
    BY DEF Raw
  <2> QED
    BY <2>1, ModRange DEF wrap, Raw
<1>2. t \in Nat /\ t - c < Mod /\ c - t < Mod
  BY <1>1, CandidateFacts
<1>3. PICK k \in Int : n = t + Mod * k
  BY TurnsAway
<1>4. unwrap(rv, zero, c) =
        IF t - c > Half THEN IF t >= Mod THEN t - Mod ELSE t
        ELSE IF c - t > Half THEN t + Mod ELSE t
  BY <1>1, UnwrapCases
<1>5. n - c < Half /\ c - n < Half
  BY HalfFact DEF Distance
<1> HIDE DEF t, rv
<1>6. PICK s \in Int : s = Mod * k
  BY Turns
<1>7. k \in {-1, 0, 1}
  BY <1>2, <1>3, <1>5, Turns, HalfFact
<1>8. CASE k = 0
  BY <1>2, <1>3, <1>4, <1>5, <1>8, Turns, HalfFact DEF rv
<1>9. CASE k = 1
  BY <1>2, <1>3, <1>4, <1>5, <1>9, Turns, HalfFact DEF rv
<1>10. CASE k = -1
  BY <1>2, <1>3, <1>4, <1>5, <1>10, Turns, HalfFact DEF rv
<1> QED
  BY <1>7, <1>8, <1>9, <1>10

(* What it returns wraps to what it was given.                             *)
LEMMA WrapUnwrap ==
  ASSUME NEW rv \in Raw, NEW zero \in Raw, NEW c \in Nat, c + Mod < U64
  PROVE  unwrap(rv, zero, c) \in Nat /\ wrap(unwrap(rv, zero, c), zero) = rv
<1> DEFINE t == Candidate(rv, zero, c)
           u == unwrap(rv, zero, c)
<1>1. t \in Nat /\ t - c < Mod /\ c - t < Mod
  BY CandidateFacts
<1>2. u = IF t - c > Half THEN IF t >= Mod THEN t - Mod ELSE t
          ELSE IF c - t > Half THEN t + Mod ELSE t
  BY UnwrapCases
<1>3. wrap(t, zero) = rv
  <2>1. c \div Mod \in Int /\ c = Mod * (c \div Mod) + (c % Mod)
    BY ModDiv
  <2>2. PICK q \in Int : c = Mod * q + (c % Mod)
    BY <2>1, Zenon
  <2>3. PICK x \in Int : x = rv - zero
    BY DEF Raw
  <2>4. PICK y \in Int : y = (x % Mod) + zero
    <3>1. x % Mod \in Int /\ zero \in Int
      BY ModRange DEF Raw
    <3> QED
      BY <3>1
  <2>5. c % Mod \in Int /\ Mod * q \in Int /\ x % Mod \in Int
    BY ModRange
  <2>6. zero + t = y + Mod * q
    BY <2>2, <2>3, <2>4, <2>5 DEF Candidate, Base, Raw
  <2>7. (y + Mod * q) % Mod = y % Mod
    BY ModPeriod
  <2>8. (x + zero) % Mod = ((x % Mod) + zero) % Mod
    <3>1. zero \in Int
      BY DEF Raw
    <3> QED
      BY <3>1, ModAdd, Zenon
  <2>9. x + zero = rv
    BY <2>3 DEF Raw
  <2>10. rv % Mod = rv
    BY ModSmall DEF Raw
  <2> QED
    BY <2>4, <2>6, <2>7, <2>8, <2>9, <2>10 DEF wrap
<1> HIDE DEF t, u
<1>4. PICK w \in Int : w = zero + t
  BY <1>1 DEF Raw
<1>5. (w + Mod * 1) % Mod = w % Mod /\ (w + Mod * (-1)) % Mod = w % Mod
  <2>1. PICK k \in Int, j \in Int : k = -1 /\ j = 1
    OBVIOUS
  <2>2. (w + Mod * j) % Mod = w % Mod
    BY ModPeriod
  <2>3. (w + Mod * k) % Mod = w % Mod
    BY ModPeriod
  <2> QED
    BY <2>1, <2>2, <2>3
<1>6. u \in Nat
  BY <1>1, <1>2
<1>7. zero + u \in {w, w + Mod * 1, w + Mod * (-1)}
  BY <1>1, <1>2, <1>4 DEF Raw
<1>8. (zero + u) % Mod = w % Mod
  BY <1>5, <1>7
<1> QED
  BY <1>3, <1>4, <1>6, <1>8 DEF wrap, u

(* No number that wraps to the raw value is nearer to the checkpoint.      *)
LEMMA UnwrapNearest ==
  ASSUME NEW zero \in Raw, NEW c \in Nat, NEW m \in Nat, c + Mod < U64
  PROVE  Distance(unwrap(wrap(m, zero), zero, c), c) <= Distance(m, c)
<1> DEFINE rv == wrap(m, zero)
           t  == Candidate(rv, zero, c)
           u  == unwrap(rv, zero, c)
<1>1. rv \in Raw
  <2>1. PICK w \in Int : w = zero + m
    BY DEF Raw
  <2> QED
    BY <2>1, ModRange DEF wrap, Raw
<1>2. t \in Nat /\ t - c < Mod /\ c - t < Mod
  BY <1>1, CandidateFacts
<1>3. PICK k \in Int : m = t + Mod * k
  BY TurnsAway
<1>4. u = IF t - c > Half THEN IF t >= Mod THEN t - Mod ELSE t
          ELSE IF c - t > Half THEN t + Mod ELSE t
  BY <1>1, UnwrapCases
<1> HIDE DEF t, rv, u
<1>5. PICK s \in Int : s = Mod * k
  BY Turns
<1>6. s = 0 \/ s >= Mod \/ s <= -Mod
  BY <1>5, Turns
<1>7. m = t + s
  BY <1>3, <1>5
<1>8. Distance(u, c) <= Distance(m, c)
  BY <1>2, <1>4, <1>6, <1>7, HalfFact DEF Distance
<1> QED
  BY <1>8 DEF u, rv

-----------------------------------------------------------------------------
StateInv ==
  raw \in Raw /\ zero_point \in Raw /\ checkpoint \in 0..MaxCheckpoint

(* The numbers stay in the ranges the lemmas above assume.                 *)
LEMMA AlwaysState == Spec => []StateInv
<1>1. Init => StateInv
  BY DEF Init, StateInv
<1>2. StateInv /\ [Advance]_vars => StateInv'
  BY DEF StateInv, Advance, vars
<1> QED
  BY <1>1, <1>2, PTL DEF Spec

(* A sequence number less than half the circle away from the checkpoint    *)
(* survives Wrap32::wrap and Wrap32::unwrap, for every even modulus and    *)
(* every zero point: sender and receiver mean the same byte.               *)
THEOREM SurvivesTheWire == Spec => []RoundTrip
<1>1. StateInv => RoundTrip
  <2> SUFFICES ASSUME StateInv, NEW n \in 0..(MaxCheckpoint + Mod),
                      Distance(n, checkpoint) < Mod \div 2
               PROVE  unwrap(wrap(n, zero_point), zero_point, checkpoint) = n
    BY DEF RoundTrip
  <2>1. /\ zero_point \in Raw /\ checkpoint \in Nat /\ n \in Nat
        /\ checkpoint + Mod < U64
        /\ Distance(n, checkpoint) < Half
    BY DEF StateInv, Half
  <2> QED
    BY <2>1, UnwrapWrap
<1> QED
  BY <1>1, AlwaysState, PTL

(* Wrap32::unwrap returns the number nearest the checkpoint among all that *)
(* wrap to the given value, as wrapping_integers.hh promises.              *)
THEOREM ReturnsNearest == Spec => []UnwrapIsNearest
<1>1. StateInv => UnwrapIsNearest
  <2> SUFFICES ASSUME StateInv PROVE UnwrapIsNearest
    OBVIOUS
  <2>1. /\ raw \in Raw /\ zero_point \in Raw /\ checkpoint \in Nat
        /\ checkpoint + Mod < U64
    BY DEF StateInv
  <2>2. /\ unwrap(raw, zero_point, checkpoint) \in Nat
        /\ wrap(unwrap(raw, zero_point, checkpoint), zero_point) = raw
    BY <2>1, WrapUnwrap
  <2>3. ASSUME NEW m \in 0..(MaxCheckpoint + 2 * Mod), wrap(m, zero_point) = raw
        PROVE  Distance(unwrap(raw, zero_point, checkpoint), checkpoint)
                 <= Distance(m, checkpoint)
    <3>1. m \in Nat
      OBVIOUS
    <3>2. Distance(unwrap(wrap(m, zero_point), zero_point, checkpoint), checkpoint)
            <= Distance(m, checkpoint)
      BY <2>1, <3>1, UnwrapNearest
    <3> QED
      BY <2>3, <3>2
  <2> QED
    BY <2>2, <2>3 DEF UnwrapIsNearest
<1> QED
  BY <1>1, AlwaysState, PTL
=============================================================================
