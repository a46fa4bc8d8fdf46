-------------------------- MODULE MCClaimManager --------------------------
(***************************************************************************)
(* Values of the constants of ClaimManager for TLC.                        *)
(***************************************************************************)
EXTENDS ClaimManager, TLC

CONSTANTS p1, p2, c1, c2

\* One files for no case or one that is not known, the other for the known one.
MCFilings == {<<p1, Null>>, <<p2, c1>>, <<p1, c2>>}

\* Identifiers, data and values are interchangeable.
Symmetry == Permutations(Ids) \cup Permutations(Slots) \cup Permutations(Values)
=============================================================================
