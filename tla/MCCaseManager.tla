--------------------------- MODULE MCCaseManager ---------------------------
(***************************************************************************)
(* Values of the constants of CaseManager for TLC.                         *)
(***************************************************************************)
EXTENDS CaseClaims

CONSTANTS c1, c2, k1, k2, k3

\* k1 is open to objection and k2 is not; k3, open to direct appeal too, is what no
\* law of the program is today.
MCKeys            == {k1, k2, k3}
MCContestable     == {k1, k3}
MCExtensive       == {k3}
TodaysKeys        == {k1, k2}
TodaysContestable == {k1}
NoKey             == {}

\* Results with one numeric output; 101 confirms a claim of 100; 100 does not confirm
\* one of 101, which is off by exactly one per cent; the last has no output at all.
Amount(n)  == [toeslag |-> [num |-> TRUE, val |-> n]]
Nothing    == [f \in {} |-> f]
MCResults  == {Amount(100), Amount(101), Nothing}
TwoResults == {Amount(100), Amount(101)}
=============================================================================
