----------------------------- MODULE Comparison -----------------------------
(***************************************************************************)
(* How both case managers compare the result a citizen claims with the     *)
(* result the rules engine computes: the same outputs, numbers within one  *)
(* per cent of the computed value, everything else equal.                  *)
(*                                                                         *)
(* They differ at exactly one per cent.  Go compares two floats, 1/100 and *)
(* 0.01, which are equal, and accepts; Python compares the float 1/100     *)
(* with the decimal 0.01, which is a little less, and refuses.             *)
(***************************************************************************)
EXTENDS Integers

Values == [num : BOOLEAN, val : Int]

Abs(n) == IF n < 0 THEN -n ELSE n

\* inclusive: does a difference of exactly one per cent match?
WithinOnePercent(claimed, verified, inclusive) ==
  LET difference == 100 * Abs(verified - claimed) IN
  difference < Abs(verified) \/ (inclusive /\ difference = Abs(verified))

ValuesMatch(claimed, verified, inclusive) ==
  IF verified.num
    THEN /\ claimed.num
         /\ IF verified.val = 0
              THEN claimed.val = 0
              ELSE WithinOnePercent(claimed.val, verified.val, inclusive)
    ELSE claimed = verified

Match(claimed, verified, inclusive) ==
  /\ DOMAIN claimed = DOMAIN verified
  /\ \A f \in DOMAIN verified : ValuesMatch(claimed[f], verified[f], inclusive)
=============================================================================
