------------------------------- MODULE Wrap32 -------------------------------
(***************************************************************************)
(* The 32-bit sequence numbers of src/src/wrapping_integers.cc: a 64-bit   *)
(* absolute number n travels as zero + n modulo 2^32, and is recovered as  *)
(* the number nearest a checkpoint.  Mod stands for 2^32 and U64 for 2^64; *)
(* small instances take smaller powers of two.                             *)
(***************************************************************************)
EXTENDS Integers

CONSTANTS Mod, U64

ASSUME WrapAssumption ==
  /\ Mod \in Nat \ {0} /\ Mod % 2 = 0
  /\ U64 \in Nat /\ U64 % Mod = 0 /\ U64 > Mod

Raw == 0 .. Mod - 1

wrap(n, zero_point) == (zero_point + n) % Mod

(* Wrap32::operator+ (src/src/wrapping_integers.hh): raw + n in 32 bits.   *)
add(raw, n) == (raw + n) % Mod

(* A definition named Faulty... is a plausible bug that no other uses: it  *)
(* shows that a property tells it from the code.  Here: a whole circle.    *)
FaultyTooFar(distance) == distance > Mod

(* More than half the circle away, so that a neighbour is nearer.          *)
TooFar(distance) == distance > Mod \div 2

(* Only ever corrected downwards.                                          *)
FaultyUnwrap(raw, zero_point, checkpoint) ==
  LET candidate == checkpoint - (checkpoint % Mod) + ((raw - zero_point) % Mod)
  IN  IF candidate > checkpoint + Mod \div 2 /\ candidate >= Mod
      THEN candidate - Mod ELSE candidate

unwrap(raw, zero_point, checkpoint) ==
  LET offset    == (raw - zero_point) % Mod
      base      == checkpoint - (checkpoint % Mod)
      candidate == base + offset
  IN  IF candidate > checkpoint /\ TooFar(candidate - checkpoint)
      THEN IF candidate >= Mod THEN candidate - Mod ELSE candidate
      ELSE IF candidate < checkpoint /\ TooFar(checkpoint - candidate)
      THEN (candidate + Mod) % U64
      ELSE candidate
=============================================================================
