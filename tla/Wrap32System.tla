---------------------------- MODULE Wrap32System ----------------------------
(***************************************************************************)
(* Every raw number and zero point, with a checkpoint that advances from   *)
(* the start of the stream, as the receiver's and the sender's do.         *)
(***************************************************************************)
EXTENDS Wrap32

CONSTANT MaxCheckpoint      \* bound on the checkpoint

(* No stream is so long that its sequence numbers overflow 64 bits.        *)
ASSUME CheckpointAssumption ==
  MaxCheckpoint \in Nat /\ MaxCheckpoint + 2 * Mod < U64

VARIABLES raw, zero_point, checkpoint

vars == <<raw, zero_point, checkpoint>>

Init == raw \in Raw /\ zero_point \in Raw /\ checkpoint = 0

Advance ==
  /\ checkpoint < MaxCheckpoint
  /\ checkpoint' = checkpoint + 1
  /\ UNCHANGED <<raw, zero_point>>

Spec == Init /\ [][Advance]_vars

Distance(m, n) == IF m >= n THEN m - n ELSE n - m

(* unwrap returns a number that wraps to raw, and none that does is nearer *)
(* to the checkpoint: what src/src/wrapping_integers.hh promises.          *)
UnwrapIsNearest ==
  LET n == unwrap(raw, zero_point, checkpoint) IN
  /\ n \in Nat
  /\ wrap(n, zero_point) = raw
  /\ \A m \in 0..(MaxCheckpoint + 2 * Mod) :
       wrap(m, zero_point) = raw =>
         Distance(n, checkpoint) <= Distance(m, checkpoint)

(* A number less than half the circle away from the checkpoint survives    *)
(* the wire: the sender and the receiver mean the same byte.               *)
RoundTrip ==
  \A n \in 0..(MaxCheckpoint + Mod) :
    Distance(n, checkpoint) < Mod \div 2 =>
      unwrap(wrap(n, zero_point), zero_point, checkpoint) = n
=============================================================================
