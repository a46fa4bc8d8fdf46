-------------------------- MODULE MCGoReadModel ---------------------------
(***************************************************************************)
(* Values of the constants of GoReadModel for TLC.                         *)
(***************************************************************************)
EXTENDS GoReadModel, TLC

CONSTANTS cl1
MCClaims == {cl1}
=============================================================================
