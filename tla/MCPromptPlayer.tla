--------------------------- MODULE MCPromptPlayer ----------------------------
(***************************************************************************)
(* An instance of PromptPlayer for TLC: an F and two listeners, a prompt   *)
(* of two packets, and a clock that overflows every twelve units.          *)
(***************************************************************************)
EXTENDS PromptPlayer
=============================================================================
