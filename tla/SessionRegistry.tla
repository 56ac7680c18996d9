--------------------------- MODULE SessionRegistry ---------------------------
(***************************************************************************)
(* What the signalling server promises, without slots, keys, maps, clocks  *)
(* or replies: a registry that gives each Call-ID at most one session.  A  *)
(* session has a kind, the address its media goes to, and is paused or     *)
(* not.  There is at most one F session and at most MaxListeners others.   *)
(* ControlPlane implements this, with the senders of the data plane as the *)
(* sessions' media (control_plane.cpp, the two maps of data_plane.cpp).    *)
(***************************************************************************)
EXTENDS Naturals, FiniteSets

CONSTANTS CallIDs, Dsts, MaxListeners, Absent

VARIABLE reg

Open(t) == {u \in CallIDs : reg[u] # Absent /\ reg[u].kind = t}

RegInit == reg = [u \in CallIDs |-> Absent]

\* A new Call-ID logs in, while there is room for its kind.
Login(u, t, d) ==
    /\ reg[u] = Absent
    /\ t = "F" => Open("F") = {}
    /\ t = "C" => Cardinality(Open("C")) < MaxListeners
    /\ reg' = [reg EXCEPT ![u] = [kind |-> t, dst |-> d, paused |-> FALSE]]

\* A session has its media sent elsewhere, and is heard there at once.
Move(u, d) ==
    /\ reg[u] # Absent
    /\ reg' = [reg EXCEPT ![u].dst = d, ![u].paused = FALSE]

Resume(u) ==
    /\ reg[u] # Absent
    /\ reg' = [reg EXCEPT ![u].paused = FALSE]

Logout(u) ==
    /\ reg[u] # Absent
    /\ reg' = [reg EXCEPT ![u] = Absent]

\* The server ends the sessions in gone and pauses those in quiet, at once.
Sweep(gone, quiet) ==
    reg' = [u \in CallIDs |->
              IF u \in gone \/ reg[u] = Absent THEN Absent
              ELSE IF u \in quiet THEN [reg[u] EXCEPT !.paused = TRUE]
              ELSE reg[u]]

RegNext ==
    \/ \E u \in CallIDs, t \in {"F", "C"}, d \in Dsts : Login(u, t, d)
    \/ \E u \in CallIDs, d \in Dsts : Move(u, d)
    \/ \E u \in CallIDs : Resume(u) \/ Logout(u)
    \/ \E gone, quiet \in SUBSET CallIDs : Sweep(gone, quiet)

RegSpec == RegInit /\ [][RegNext]_reg
=============================================================================
