----------------------------- MODULE MCMediaPath -----------------------------
(***************************************************************************)
(* An instance of MediaPath for TLC: two listeners, sockets for an F, both *)
(* listeners and one media change, and more packets than a socket keeps.   *)
(***************************************************************************)
EXTENDS MediaPath
=============================================================================
