-------------------------- MODULE MCGoCaseManager --------------------------
(***************************************************************************)
(* Values of the constants of GoCaseManager for TLC.                       *)
(***************************************************************************)
EXTENDS GoCaseManager, TLC

CONSTANTS k1, p1, p2, c1, c2, cl

\* 100 confirms a claim of 99, though by exactly one per cent; 99 does not confirm one
\* of 100.
Amount(n) == [toeslag |-> [num |-> TRUE, val |-> n]]
MCResults == {Amount(99), Amount(100)}
OneResult == {Amount(100)}
NoResult  == {}

OneFiler  == [k \in {k1} |-> {p1}]
TwoFilers == [k \in {k1} |-> {p1, p2}]

\* Goroutines that do the same, and identifiers, are interchangeable (for safety).
Symmetry == Permutations({p1, p2}) \cup Permutations({c1, c2})
=============================================================================
