------------------------------ MODULE MCStartup ------------------------------
(***************************************************************************)
(* An instance of Startup for TLC: files of up to three lines, with each   *)
(* kind of line and with numbers on both sides of the widths of their      *)
(* settings.  The third record in a file is one too many.                  *)
(***************************************************************************)
EXTENDS Startup

Rec(k, caps, num, lth) ==
    [kind |-> "record", rec |-> [key |-> k, caps |-> caps, num |-> num, lth |-> lth]]

MCLines ==
    {[kind |-> k] : k \in {"skip", "bare", "short", "long"}}
        \cup {Rec("timer_keepalive", caps, n, 5) : caps \in BOOLEAN, n \in {3000}}
        \cup {Rec("timer_keepalive", FALSE, n, 5) : n \in {999, 66000}}
        \cup {Rec("timer_offline", FALSE, n, 5) : n \in {-1, 30}}
        \cup {Rec("f-name", FALSE, 0, l) : l \in {47, 48, 49}}
        \cup {Rec("media_ip", TRUE, 192, 15), Rec("unknown", FALSE, 1, 1)}
=============================================================================
