---------------------------- MODULE PromptPlayer -----------------------------
(***************************************************************************)
(* The hint thread of core/data_plane.cpp: rounds over the side that is    *)
(* alone, and the prompt that send_hint_sound plays to one client, a       *)
(* packet each 20 ms by the clock (packets: utils/rtp_process.cpp).        *)
(*                                                                         *)
(* The code compares times in microseconds held in a long, on the 32-bit   *)
(* target of the Makefile a word that overflows every 71 minutes.  Here a  *)
(* time is such a word, of a range that TLC can walk through.              *)
(*                                                                         *)
(* No client leaves while the thread stands on its node: that is the       *)
(* subject of module DataPlane.                                            *)
(***************************************************************************)
EXTENDS Integers, Sequences, SequencesExt, FiniteSetsExt

CONSTANTS
    F,              \* the node of the broadcaster
    Listeners,      \* the nodes of clients
    MaxWord,        \* LONG_MAX, in units of the model; the least is -MaxWord - 1
    Interval,       \* the 20 ms
    MaxGap,         \* the longest the thread is kept from looking at the clock
    MediaLen,       \* media_file_len, in packets of 160 bytes
    NoNode

Nodes == Listeners \cup {F}

ASSUME NodesAssumption == F \notin Listeners /\ NoNode \notin Nodes
ASSUME TimesAssumption ==
    /\ MaxWord \in Nat /\ Interval \in 1 .. MaxWord
    /\ MaxGap \in Nat \ {0} /\ MediaLen \in Nat

Words == -MaxWord - 1 .. MaxWord
Period == 2 * MaxWord + 2

\* Sums of a long, as the target computes them.
Wrap(n) == ((n + MaxWord + 1) % Period) - MaxWord - 1

\* How often i * 160 <= media_file_len.  Without the file that is once, and
\* rtp_process_send then sends nothing.
Packets == MediaLen + 1

VARIABLES
    fIn,            \* data_plane_f_map is not empty
    cs,             \* the nodes of data_plane_c_map in the order of their keys
    suspended,      \* the nodes with SUSPEND_ON
    pc, node,       \* where the thread is, and the node it stands on
    i,              \* packets of this prompt so far
    now, start,     \* the clock as the thread last saw it, and time_start
    extra,          \* history: packets to each node since it was suspended
    prompts         \* history: prompts begun for each listener since F came

maps == <<fIn, cs, suspended>>
player == <<pc, node, i, now, start>>
history == <<extra, prompts>>
vars == <<maps, player, history>>

Init ==
    /\ fIn = FALSE /\ cs = <<>> /\ suspended = {}
    /\ pc = "round" /\ node = NoNode /\ i = 0 /\ now = 0 /\ start = 0
    /\ extra = [n \in Nodes |-> 0] /\ prompts = [c \in Listeners |-> 0]

-----------------------------------------------------------------------------
(***************************************************************************)
(* main.  A new node has the latest key, and is not suspended.             *)
(***************************************************************************)
Forget(n) == extra' = [extra EXCEPT ![n] = 0]

FComes ==
    /\ ~fIn /\ fIn' = TRUE
    /\ prompts' = [c \in Listeners |-> 0]
    /\ UNCHANGED <<cs, suspended, extra>>

FGoes ==
    /\ fIn /\ node # F /\ fIn' = FALSE
    /\ suspended' = suspended \ {F} /\ Forget(F)
    /\ UNCHANGED <<cs, prompts>>

CComes(c) ==
    /\ c \notin Range(cs) /\ cs' = Append(cs, c)
    /\ prompts' = [prompts EXCEPT ![c] = 0]
    /\ UNCHANGED <<fIn, suspended, extra>>

Place(c) == CHOOSE k \in DOMAIN cs : cs[k] = c

CGoes(c) ==
    /\ c \in Range(cs) /\ node # c /\ cs' = RemoveAt(cs, Place(c))
    /\ suspended' = suspended \ {c} /\ Forget(c)
    /\ UNCHANGED <<fIn, prompts>>

\* data_plane_suspend.
Suspend(n, on) ==
    /\ IF n = F THEN fIn ELSE n \in Range(cs)
    /\ suspended' = IF on THEN suspended \cup {n} ELSE suspended \ {n}
    /\ IF on THEN UNCHANGED extra ELSE Forget(n)
    /\ UNCHANGED <<fIn, cs, prompts>>

Main ==
    /\ \/ FComes \/ FGoes
       \/ \E c \in Listeners : CComes(c) \/ CGoes(c)
       \/ \E n \in Nodes, on \in BOOLEAN : Suspend(n, on)
    /\ UNCHANGED player

-----------------------------------------------------------------------------
(***************************************************************************)
(* hint: data_plane_send_hint_run_thread.                                  *)
(***************************************************************************)
Stand(n) == pc' = "enter" /\ node' = n
\* Mutant: the iterator is kept over the sleep.
Rest_Stays == pc' = "sleep" /\ node' = node

Rest == pc' = "sleep" /\ node' = NoNode

\* Under the lock: whether one side is alone is looked at once per round.
Round ==
    /\ pc = "round"
    /\ \/ fIn /\ cs = <<>> /\ Stand(F)
       \/ ~fIn /\ cs # <<>> /\ Stand(Head(cs))
       \/ fIn = (cs # <<>>) /\ Rest
    /\ UNCHANGED <<maps, i, now, start, history>>

\* Mutant: the walk over the listeners starts again at its end.
Step_Again ==
    /\ pc = "step"
    /\ IF node = F THEN Rest ELSE Stand(cs[(Place(node) % Len(cs)) + 1])
    /\ UNCHANGED <<maps, i, now, start, history>>

\* ++it, under the lock.
Step ==
    /\ pc = "step"
    /\ IF node = F \/ node = Last(cs) THEN Rest
       ELSE Stand(cs[Place(node) + 1])
    /\ UNCHANGED <<maps, i, now, start, history>>

\* usleep.
Wake == pc = "sleep" /\ pc' = "round" /\ UNCHANGED <<maps, node, i, now, start, history>>

Hint == Round \/ Step \/ Wake

-----------------------------------------------------------------------------
(***************************************************************************)
(* hint: send_hint_sound.                                                  *)
(***************************************************************************)

Begun(n) ==
    prompts' = IF fIn /\ n # F THEN [prompts EXCEPT ![n] = @ + 1] ELSE prompts

\* Mutant: is_suspend is not looked at.
Enter_Always ==
    /\ pc = "enter"
    /\ pc' = "play" /\ i' = 0
    /\ now' \in Words /\ start' = now'
    /\ Begun(node)
    /\ UNCHANGED <<maps, node, extra>>

\* Any time may have passed.  is_suspend is read here and never again.
Enter ==
    /\ pc = "enter"
    /\ \/ /\ node \in suspended
          /\ pc' = "step"
          /\ UNCHANGED <<i, now, start, prompts>>
       \/ /\ node \notin suspended
          /\ pc' = "play" /\ i' = 0
          /\ now' \in Words /\ start' = now'
          /\ Begun(node)
    /\ UNCHANGED <<maps, node, extra>>

\* Mutant: the comparison is strict.
Due_Strict(t) == t > Wrap(Interval + start)

\* What the loop of send_hint_sound waits for.
Due(t) == t >= Wrap(Interval + start)

\* Time runs on by d until the thread looks at the clock, but no packet is due.
Wait(d) ==
    /\ pc = "play"
    /\ now' = Wrap(now + d) /\ ~Due(now')
    /\ UNCHANGED <<maps, pc, node, i, start, extra, prompts>>

\* Mutant: time_start is not read again after a packet.
Send_Burst(d) ==
    /\ pc = "play" /\ i < Packets
    /\ now' = Wrap(now + d) /\ Due(now')
    /\ i' = i + 1
    /\ extra' = IF node \in suspended THEN [extra EXCEPT ![node] = @ + 1] ELSE extra
    /\ UNCHANGED <<maps, pc, node, start, prompts>>

\* A packet is due and goes out; time e passes until time_start is read anew.
Send(d) ==
    /\ pc = "play" /\ i < Packets
    /\ Due(Wrap(now + d))
    /\ \E e \in 0 .. MaxGap : now' = Wrap(now + d + e)
    /\ start' = now'
    /\ i' = i + 1
    /\ extra' = IF node \in suspended THEN [extra EXCEPT ![node] = @ + 1] ELSE extra
    /\ UNCHANGED <<maps, pc, node, prompts>>

\* The end of the prompt is waited for like a packet.  Nobody reads i and the
\* times afterwards: they are forgotten.
Done(d) ==
    /\ pc = "play" /\ i >= Packets
    /\ Due(Wrap(now + d))
    /\ pc' = "step" /\ i' = 0 /\ now' = 0 /\ start' = 0
    /\ UNCHANGED <<maps, node, history>>

Poll(d) == Wait(d) \/ Send(d) \/ Done(d)

Next == Main \/ Hint \/ Enter \/ \E d \in 0 .. MaxGap : Poll(d)

\* The thread runs on, and time with it; the lock is never held for long.
Spec ==
    /\ Init /\ [][Next]_vars
    /\ WF_vars(Hint \/ Enter \/ \E d \in 1 .. MaxGap : Poll(d))

-----------------------------------------------------------------------------
(***************************************************************************)
(* Properties.                                                             *)
(***************************************************************************)
TypeOK ==
    /\ fIn \in BOOLEAN /\ cs \in Seq(Listeners)
    /\ \A k, l \in DOMAIN cs : cs[k] = cs[l] => k = l
    /\ suspended \subseteq Nodes
    /\ pc \in {"round", "enter", "play", "step", "sleep"}
    /\ IF pc \in {"enter", "play", "step"}
       THEN IF node = F THEN fIn ELSE node \in Range(cs)
       ELSE node = NoNode
    /\ i \in 0 .. Packets /\ now \in Words /\ start \in Words
    /\ extra \in [Nodes -> Nat] /\ prompts \in [Listeners -> Nat]

\* The word overflows before the packet is due, or while the thread waits for it.
Elapsed(t) == (t - start) % Period

Overflows(t) == start + Interval > MaxWord \/ start + t > MaxWord

\* Packets of a prompt come in time: not before the interval has passed, nor
\* later than the thread can be kept from the clock.  Only an overflow of the
\* word makes a burst of the rest of the prompt, or a silence.
PacedUnlessTheWordOverflows ==
    /\ [][\A d \in 0 .. MaxGap : Send(d) =>
            LET t == Elapsed(now + d)
            IN  t \in Interval .. Interval + MaxGap - 1 \/ Overflows(t)]_vars
    /\ [](pc = "play" => Elapsed(now) < Interval \/ Overflows(Elapsed(now)))

\* is_suspend is read once per prompt: a client that is suspended hears at most
\* the rest of the prompt it was hearing, however often the thread comes round.
SuspendedHearsOutItsPrompt == \A n \in Nodes : extra[n] <= Packets

\* That the other side is empty is tested once per round: after F has come, each
\* listener is begun with at most one more prompt.
ReturnEndsTheRound == fIn => \A c \in Listeners : prompts[c] <= 1

\* A prompt ends, unless its next packet is due so close below the end of the
\* word that the thread may miss the moment each time the clock comes by.
PromptEnds ==
    pc = "play" ~> pc # "play" \/ Wrap(start + Interval) > MaxWord - MaxGap + 1
=============================================================================
