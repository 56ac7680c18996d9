----------------------------- MODULE MCDataPlane -----------------------------
(***************************************************************************)
(* An instance of DataPlane for TLC: one F, up to two listeners, and a key *)
(* to spare for a media change.                                            *)
(***************************************************************************)
EXTENDS DataPlane

MCKeys == 1 .. 3
=============================================================================
