------------------------------ MODULE DataPlane ------------------------------
(***************************************************************************)
(* The threads of the data plane (core/data_plane.cpp) and the two maps    *)
(* they share under one spin lock.                                         *)
(*                                                                         *)
(*   main    the signalling thread: data_plane_add_sender, _del_sender and *)
(*           _suspend, as the handlers of module ControlPlane call them    *)
(*   hint    plays the prompt to clients whose other side is empty         *)
(*   switch  reads what F sends and passes it to every C                   *)
(*                                                                         *)
(* The lock is what pthread_spin_unlock makes of it: a word without an     *)
(* owner, which any thread can clear.  Both workers walk a map with an     *)
(* iterator that they keep while the lock is free.  An iterator is the key *)
(* it stands on; using it after that key was erased is undefined, and the  *)
(* model stops there with wild set.                                        *)
(***************************************************************************)
EXTENDS MediaTable, Sequences

CONSTANTS
    End,        \* map::end()
    AnyDst      \* what an RTP context that was never initialised sends to

ASSUME KeyAssumption == Keys \subseteq Nat
ASSUME EndAssumption == End \notin Keys
ASSUME AnyDstAssumption == AnyDst \notin Addr

VARIABLES
    senders,    \* data_plane_f_map, data_plane_c_map
    lock,       \* media_map_lock
    calls,      \* main: the calls of the current handler still to be made
    pcM,        \* main: between calls, at the lock, or holding it
    pcH, tH, itH,   \* hint: where it is, which map it walks, its iterator
    pcS, itS,   \* switch: where it is, its iterator over the F map
    out,        \* packets sent by the last step: [key, dst] records
    wild,       \* an erased map node was used
    idled,      \* history: switch once found nothing to read
    erased      \* history: some sender was once erased

mainVars == <<calls, pcM>>
hintVars == <<pcH, tH, itH>>
switchVars == <<pcS, itS>>
history == <<idled, erased>>
vars == <<senders, lock, mainVars, hintVars, switchVars, out, wild, history>>

-----------------------------------------------------------------------------
(***************************************************************************)
(* Maps in key order, the lock, and memory.                                *)
(***************************************************************************)

\* begin() of a map that is not empty, and ++: the least key above k, or end().
IsFirst(t, k) == k \in Held(senders, t) /\ \A x \in Held(senders, t) : k <= x

IsNext(t, k, n) ==
    LET above == {x \in Held(senders, t) : x > k}
    IN  IF above = {} THEN n = End ELSE n \in above /\ \A x \in above : n <= x

Acquire == lock = FALSE /\ lock' = TRUE
Unlock == lock' = FALSE

\* The thread dereferences an iterator whose node is gone.
GoWild == ~wild /\ wild' = TRUE /\ UNCHANGED <<senders, lock, history>> /\ out' = {}

Valid(t, k) == k \in Held(senders, t)

-----------------------------------------------------------------------------
(***************************************************************************)
(* main: the calls that the handlers of the control plane make.            *)
(***************************************************************************)
AddCall(t, a) == [op |-> "add", kind |-> t, dst |-> a]
DelCall(t, k) == [op |-> "del", kind |-> t, key |-> k]
SuspendCall(t, k, b) == [op |-> "suspend", kind |-> t, key |-> k, on |-> b]

Begin(cs) ==
    /\ ~wild /\ pcM = "idle" /\ calls = <<>>
    /\ calls' = cs
    /\ pcM' = "lock"
    /\ out' = {}
    /\ UNCHANGED <<senders, lock, hintVars, switchVars, wild, history>>

\* A bound of the model: a handler that adds a sender starts only when there is
\* a key for it.  A new key is no key so far; the model reuses keys that are in
\* no map and that no iterator stands on.
NewKeys == FreshKeys(senders) \ {itH, itS}

\* handle_request_CONN.  There is one F at a time.
Login(t, a) ==
    /\ NewKeys # {}
    /\ t = "F" => Held(senders, "F") = {}
    /\ Begin(<<AddCall(t, a)>>)

\* handle_request_reCONN: the sender is erased, then a new one made.
Move(t, k, a) == NewKeys # {} /\ Begin(<<DelCall(t, k), AddCall(t, a)>>)

\* handle_request_DISCONN, handle_request_RESET, and the release by the tick.
Leave(t, k) == Begin(<<DelCall(t, k)>>)

\* The tick suspends, a NOTIFY resumes.
Pause(t, k, b) == Begin(<<SuspendCall(t, k, b)>>)

MainLock ==
    /\ ~wild /\ pcM = "lock"
    /\ Acquire
    /\ pcM' = "in"
    /\ out' = {}
    /\ UNCHANGED <<senders, calls, hintVars, switchVars, wild, history>>

\* The map operation of a call, its unlock, and on to the handler's next call.
Perform(c) ==
    \/ /\ c.op = "add"
       /\ \E k \in NewKeys : senders' = AddSender(senders, c.kind, k, c.dst)
       /\ UNCHANGED erased
    \/ /\ c.op = "del"
       /\ senders' = DelSender(senders, c.kind, c.key)
       /\ erased' = TRUE
    \/ /\ c.op = "suspend"
       /\ senders' = Suspend(senders, c.kind, c.key, c.on)
       /\ UNCHANGED erased

\* Mutant: the handler does not return after its last call.
MainCall_GoesOn ==
    /\ ~wild /\ pcM = "in"
    /\ Perform(Head(calls))
    /\ Unlock
    /\ calls' = Tail(calls)
    /\ pcM' = "lock"
    /\ out' = {}
    /\ UNCHANGED <<hintVars, switchVars, wild, idled>>

MainCall ==
    /\ ~wild /\ pcM = "in"
    /\ Perform(Head(calls))
    /\ Unlock
    /\ calls' = Tail(calls)
    /\ pcM' = IF Tail(calls) = <<>> THEN "idle" ELSE "lock"
    /\ out' = {}
    /\ UNCHANGED <<hintVars, switchVars, wild, idled>>

Main ==
    \/ \E t \in Kinds, a \in Addr : Login(t, a)
    \/ \E t \in Kinds : \E k \in Held(senders, t) :
          \/ \E a \in Addr : Move(t, k, a)
          \/ Leave(t, k)
          \/ \E b \in BOOLEAN : Pause(t, k, b)
    \/ MainLock
    \/ MainCall

-----------------------------------------------------------------------------
(***************************************************************************)
(* hint: data_plane_send_hint_run_thread.                                  *)
(***************************************************************************)
Hint(from, to) == ~wild /\ pcH = from /\ pcH' = to /\ UNCHANGED <<mainVars, switchVars>>

HintLock ==
    /\ Hint("lock", "checkF")
    /\ Acquire
    /\ out' = {}
    /\ UNCHANGED <<senders, tH, itH, wild, history>>

\* Nobody on the other side: walk the map of kind t, giving the lock back for
\* the time of each prompt.
HintWalk(t, from, other) ==
    /\ Held(senders, t) # {} /\ Held(senders, other) = {}
    /\ Hint(from, "play")
    /\ tH' = t
    /\ \E k \in Keys : IsFirst(t, k) /\ itH' = k
    /\ Unlock
    /\ out' = {}
    /\ UNCHANGED <<senders, wild, history>>

HintSkipF ==
    /\ Held(senders, "F") = {} \/ Held(senders, "C") # {}
    /\ Hint("checkF", "checkC")
    /\ out' = {}
    /\ UNCHANGED <<senders, lock, tH, itH, wild, history>>

HintSkipC ==
    /\ Held(senders, "C") = {} \/ Held(senders, "F") # {}
    /\ Hint("checkC", "sleep")
    /\ Unlock
    /\ out' = {}
    /\ UNCHANGED <<senders, tH, itH, wild, history>>

HintSleep ==
    /\ Hint("sleep", "lock")
    /\ out' = {}
    /\ UNCHANGED <<senders, lock, tH, itH, wild, history>>

\* send_hint_sound looks at is_suspend once, before the first packet.
HintStart ==
    /\ Valid(tH, itH)
    /\ Hint("play", IF senders[tH][itH].is_suspend THEN "relock" ELSE "playing")
    /\ out' = {}
    /\ UNCHANGED <<senders, lock, tH, itH, wild, history>>

\* One packet.  Only data_plane_add_sender of an F initialises the RTP context.
HintDst(t, k) == IF t = "F" THEN senders[t][k].dst ELSE AnyDst

HintPacket ==
    /\ Valid(tH, itH)
    /\ Hint("playing", "playing")
    /\ out' = {[kind |-> tH, key |-> itH, dst |-> HintDst(tH, itH)]}
    /\ UNCHANGED <<senders, lock, tH, itH, wild, history>>

\* The file has been played to its end.
HintDone ==
    /\ Hint("playing", "relock")
    /\ out' = {}
    /\ UNCHANGED <<senders, lock, tH, itH, wild, history>>

\* Mutant: the lock is not taken again after a prompt.
HintRelock_NoLock ==
    /\ Hint("relock", "next")
    /\ out' = {}
    /\ UNCHANGED <<senders, lock, tH, itH, wild, history>>

HintRelock ==
    /\ Hint("relock", "next")
    /\ Acquire
    /\ out' = {}
    /\ UNCHANGED <<senders, tH, itH, wild, history>>

\* ++it, and the test for the end of the map.
HintAdvance ==
    /\ Valid(tH, itH)
    /\ \E n \in Keys \cup {End} : IsNext(tH, itH, n) /\ itH' = n
    /\ \/ /\ itH' # End
          /\ Hint("next", "play")
          /\ Unlock
       \/ /\ itH' = End /\ tH = "F"
          /\ Hint("next", "checkC")
          /\ UNCHANGED lock
       \/ /\ itH' = End /\ tH = "C"
          /\ Hint("next", "sleep")
          /\ Unlock
    /\ out' = {}
    /\ UNCHANGED <<senders, tH, wild, history>>

\* The client left while its prompt was playing.
HintDangling ==
    /\ pcH \in {"play", "playing", "next"}
    /\ ~Valid(tH, itH)
    /\ GoWild
    /\ UNCHANGED <<mainVars, hintVars, switchVars>>

HintThread ==
    \/ HintLock
    \/ HintWalk("F", "checkF", "C") \/ HintSkipF
    \/ HintWalk("C", "checkC", "F") \/ HintSkipC
    \/ HintSleep
    \/ HintStart \/ HintPacket \/ HintDone
    \/ HintRelock \/ HintAdvance
    \/ HintDangling

-----------------------------------------------------------------------------
(***************************************************************************)
(* switch: data_plane_switch_data_run_thread.                              *)
(***************************************************************************)
Switch(from, to) == ~wild /\ pcS = from /\ pcS' = to /\ UNCHANGED <<mainVars, hintVars>>

SwitchLock ==
    /\ Switch("lock", "check")
    /\ Acquire
    /\ out' = {}
    /\ UNCHANGED <<senders, itS, wild, history>>

\* Mutant: the F map is not tested for being empty.
SwitchWalk_Unchecked ==
    /\ Held(senders, "C") # {}
    /\ Switch("check", "read")
    /\ \E k \in Keys \cup {End} :
          /\ IF Held(senders, "F") = {} THEN k = End ELSE IsFirst("F", k)
          /\ itS' = k
    /\ Unlock
    /\ out' = {}
    /\ UNCHANGED <<senders, wild, history>>

SwitchWalk ==
    /\ Held(senders, "F") # {} /\ Held(senders, "C") # {}
    /\ Switch("check", "read")
    /\ \E k \in Keys : IsFirst("F", k) /\ itS' = k
    /\ Unlock
    /\ out' = {}
    /\ UNCHANGED <<senders, wild, history>>

\* Mutant: the pass that finds a map empty goes on without the unlock.
SwitchSkip_NoUnlock ==
    /\ Held(senders, "F") = {} \/ Held(senders, "C") = {}
    /\ Switch("check", "lock")
    /\ out' = {}
    /\ UNCHANGED <<senders, lock, itS, wild, history>>

SwitchSkip ==
    /\ Held(senders, "F") = {} \/ Held(senders, "C") = {}
    /\ Switch("check", "lock")
    /\ Unlock
    /\ out' = {}
    /\ UNCHANGED <<senders, itS, wild, history>>

\* udp_interface_data_read returned a packet of F's.
SwitchRead ==
    /\ Valid("F", itS)
    /\ Switch("read", "relock")
    /\ out' = {}
    /\ UNCHANGED <<senders, lock, itS, wild, history>>

\* It returned nothing: on to ++it without taking the lock again.
SwitchIdle ==
    /\ Valid("F", itS)
    /\ Switch("read", "idle")
    /\ idled' = TRUE
    /\ out' = {}
    /\ UNCHANGED <<senders, lock, itS, wild, erased>>

SwitchRelock ==
    /\ Switch("relock", "forward")
    /\ Acquire
    /\ out' = {}
    /\ UNCHANGED <<senders, itS, wild, history>>

\* Every sender in the C map gets the packet, suspended or not.
SwitchForward ==
    /\ Switch("forward", "next")
    /\ out' = {[kind |-> "C", key |-> k, dst |-> senders["C"][k].dst] :
                 k \in Held(senders, "C")}
    /\ UNCHANGED <<senders, lock, itS, wild, history>>

\* ++it, and the unlock that follows it: of the loop, or after its end.
SwitchAdvance ==
    /\ Valid("F", itS)
    /\ \E n \in Keys \cup {End} : IsNext("F", itS, n) /\ itS' = n
    /\ \E from \in {"next", "idle"} :
          Switch(from, IF itS' = End THEN "lock" ELSE "read")
    /\ Unlock
    /\ out' = {}
    /\ UNCHANGED <<senders, wild, history>>

\* F left while the thread stood on its sender.
SwitchDangling ==
    /\ pcS \in {"read", "next", "idle"}
    /\ ~Valid("F", itS)
    /\ GoWild
    /\ UNCHANGED <<mainVars, hintVars, switchVars>>

SwitchThread ==
    \/ SwitchLock
    \/ SwitchWalk \/ SwitchSkip
    \/ SwitchRead \/ SwitchIdle
    \/ SwitchRelock \/ SwitchForward
    \/ SwitchAdvance
    \/ SwitchDangling

-----------------------------------------------------------------------------
Init ==
    /\ senders = EmptyTables
    /\ lock = FALSE
    /\ calls = <<>> /\ pcM = "idle"
    /\ pcH = "lock" /\ tH = "F" /\ itH = End
    /\ pcS = "lock" /\ itS = End
    /\ out = {}
    /\ wild = FALSE /\ idled = FALSE /\ erased = FALSE

Next == Main \/ HintThread \/ SwitchThread

Spec == Init /\ [][Next]_vars

-----------------------------------------------------------------------------
(***************************************************************************)
(* Correctness.                                                            *)
(***************************************************************************)
Calls ==
    [op : {"add"}, kind : Kinds, dst : Addr]
        \cup [op : {"del"}, kind : Kinds, key : Keys]
        \cup [op : {"suspend"}, kind : Kinds, key : Keys, on : BOOLEAN]

TypeOK ==
    /\ senders \in Tables
    /\ lock \in BOOLEAN
    /\ calls \in Seq(Calls)
    /\ pcM \in {"idle", "lock", "in"}
    /\ pcM # "idle" => calls # <<>>
    /\ pcH \in {"lock", "checkF", "checkC", "play", "playing", "relock", "next", "sleep"}
    /\ tH \in Kinds
    /\ itH \in Keys \cup {End}
    /\ pcS \in {"lock", "check", "read", "relock", "forward", "next", "idle"}
    /\ itS \in Keys \cup {End}
    /\ \A p \in out : p \in [kind : Kinds, key : Keys, dst : Addr \cup {AnyDst}]
    /\ wild \in BOOLEAN /\ idled \in BOOLEAN /\ erased \in BOOLEAN

\* The threads between an acquire of the lock and the unlock that belongs to it.
Holds(th) ==
    CASE th = "main"   -> pcM = "in"
      [] th = "hint"   -> pcH \in {"checkF", "checkC", "next"}
      [] th = "switch" -> pcS \in {"check", "forward", "next"}

Threads == {"main", "hint", "switch"}

\* A taken lock always has a thread that is about to give it back: whatever the
\* unlocks that belong to no acquire do, the lock is never taken for good, and a
\* DISCONN does not wait for ever on a lock that nobody holds.
LockIsNotLeaked == lock => \E th \in Threads : Holds(th)

\* As long as the switch thread always found something to read, the lock
\* excludes: at most one thread is at the maps, and then the lock is taken.
OnlyIdleReadsBreakTheLock ==
    ~idled =>
        /\ \A a, b \in Threads : Holds(a) /\ Holds(b) => a = b
        /\ \A th \in Threads : Holds(th) => lock

\* As long as no client moved or left, no thread stands on an erased node, for
\* all the time it walks with the lock open.
OnlyErasuresDangle == ~erased => ~wild

-----------------------------------------------------------------------------
(***************************************************************************)
(* What the source says of itself and the code does not do, checked by a   *)
(* run that finds it violated.                                             *)
(***************************************************************************)

\* "delete media-plane" (control_plane.cpp:673): after a DISCONN nothing uses the
\* sender any more.
DeletedSenderIsNotUsed == ~wild
=============================================================================
