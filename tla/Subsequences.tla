---------------------------- MODULE Subsequences ----------------------------
(***************************************************************************)
(* The part of a sequence at given positions.  It is what SelectSeq        *)
(* computes, in a form in which facts about it can be proved: the          *)
(* positions are a set, and the recursion is over them alone.              *)
(***************************************************************************)
EXTENDS Naturals, Sequences

(* The numbers up to n that are in I, in ascending order.                  *)
Ascending(I, n) ==
  LET upto[m \in 0..n] ==
        IF m = 0 THEN << >>
        ELSE IF m \in I THEN Append(upto[m - 1], m) ELSE upto[m - 1]
  IN  upto[n]

Chosen(s, I) ==
  [j \in DOMAIN Ascending(I, Len(s)) |-> s[Ascending(I, Len(s))[j]]]
=============================================================================
