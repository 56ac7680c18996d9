# The RTP broadcast daemon: specifications, model checking and proofs

The program under `src/` is a daemon for a small wireless box. One
broadcaster, *F*, and up to 63 listeners, *C*, log in with a SIP-like text
protocol over UDP. The daemon gives each client a UDP port of its own and passes
every media packet it reads from F's port on to all listeners. While the other
side is empty it plays a prompt to whoever is there.

This directory holds a TLA+ model of the daemon, the TLC configurations that
check it, and TLAPS proofs of what matters most about its core.
`PROJECT.json` is the machine-readable index: which lines of the source each
definition stands for (`map`), what each run checks (`runs`), a plausible bug
that each property catches (`mutants`), the disagreements between the code and
what it says of itself (`findings`), what is hard to test in it (`hazards`),
and what is proved (`theorems`).

Line numbers below are short for `src/source/...`: *main* is `main.cpp`, *cp* is
`core/control_plane.cpp`, *dp* is `core/data_plane.cpp`, *codec* is
`core/s_codec.cpp`, *conf* is `core/config.cpp`, *udp* is
`utils/udp_interface.cpp`.

## 1. Inventory

### The parts and how they interact

```
          datagrams                  calls in the same thread
  clients ---------> main loop ---> signal_callback ---> handlers
     ^               (main.cpp)      (control_plane.cpp)   |  add / del / suspend sender
     |                                  |  ^               v
     |     replies                      v  |          the two maps of senders
     +------------------------------ signal codec     (data_plane.cpp, one spin lock)
     |                              (s_codec.cpp)          ^             ^
     |     media and prompts                               |             |
     +------------------------------------------- hint thread     switch thread
```

Three threads run: the main thread, which does all the signalling, and two
workers of the data plane. The main thread and the workers share the two maps
of media senders and nothing else.

| Part | Its state | Its operations | What is hard | What makes it correct |
|---|---|---|---|---|
| **Main loop** (main:100-175) | last check time, the event buffer | look at the clock, tick, wait at most a second, receive one datagram | the clock and the requests come in any order | it goes on for ever; a tick comes when it is due |
| **Signalling server** (cp) | 64 slots: state, name, Call-ID, signal address, media address, a copy of the sender | CONN (new, or known Call-ID), DISCONN, RESET (by Call-ID or by name), NOTIFY (keep-alive, log-on state, listener list), tick | re-sent and late requests, clients that vanish, slots used again, a full house, slots that `new[]` left dirty | slots and senders agree; a request touches the client it is from and no other; no slot is lost |
| **Media senders** (dp:40-160) | `data_plane_f_map`, `data_plane_c_map`, a spin lock | add, delete and suspend a sender | calls come while the workers walk the maps | mutual exclusion; no use of what was erased |
| **Hint thread** (dp:161-232) | an iterator | find the other side empty, play the prompt to each client in turn | it keeps the iterator while the lock is open | the prompt goes to clients that are there, at their address |
| **Switch thread** (dp:234-276) | an iterator | read a packet of F's, send it to every C | the same; and it unlocks a lock it may not hold | every listener that is not suspended gets the packet |
| **Signal codec** (codec) | a session: what was decoded so far | decode a request or a reply, encode a reply | input of any shape, fixed buffers, fields that end at a delimiter that is not there | what is written well is understood, what is accepted is whole, a reply means to the client what it meant to the server |
| **Start-up** (main:19-49, main:181-219, conf, cp:41-72, dp:31-47) | the settings and the copies that the two planes take of them | read `wifi_d.conf` line by line, initialise both planes, start the workers, bind the signal port | error paths that return in the middle of the file and are not looked at; calls that fail and are only logged; widths | the settings are what the file says; the daemon serves unless something it cannot do without is missing |
| **UDP sockets** (udp) | the descriptors; the datagrams the kernel keeps | open, read with a time limit, send | a bounded resource that is never given back; a result of -1 that nobody looks at | what waits is bounded, and passed on in order |
| RTP sender (`utils/rtp_process.cpp`) | sequence number, destination | send one packet of a prompt | initialised for an F only | - |
| Prompt file (`utils/media_file.cpp`) | - | open and read the file once | it may not be there | - |
| String helpers (`utils/lib_utils.cpp`) | - | compare without case, to small letters | a NULL argument, an assertion on the length | - |
| Hash map, queue (`utils/HashMap.cpp`, `lib_hash.cpp`, `queue.cpp`) | - | not built, not used | - | - |

What is hard to test in this code is the list `hazards` of `PROJECT.json`: each
entry has its line, and either the properties that would catch it or the reason
why none does yet.

### From the code to the model

| Module | Models | Lines of the code |
|---|---|---|
| `MediaTable` | the two maps and the three calls on them, as pure operators | dp:40-160 |
| `ControlPlane` | main loop, tick, lookups, every request handler and reply | main:100-175, cp |
| `SessionRegistry` | abstract: what the server promises, without slots, keys, maps or clocks | - |
| `RegistryRefinement` | the mapping under which `ControlPlane` implements it | - |
| `MCControlPlane` | instances of `ControlPlane` for TLC | - |
| `ControlPlaneProofs` | the inductive invariant of `ControlPlane` and its theorems, those about single requests and their replies among them | - |
| `RegistryProofs` | the theorem that `ControlPlane` implements `SessionRegistry` | - |
| `Timers` | the keep-alive of one client in real time, with a clock that is set | main:100-154, cp:471-514, cp:705-716 |
| `MCTimers` | an instance for TLC | - |
| `TimersProofs` | theorems about `Timers` and their proofs | - |
| `Startup` | from `main` to its loop: `load_config` and the initialisation of both planes | main:19-49, main:181-219, conf, cp:41-72, dp:31-47, dp:278-293 |
| `MCStartup` | the lines TLC makes files of | - |
| `StartupProofs` | theorems about `Startup` and their proofs | - |
| `DataPlane` | the maps under their lock, the calls of the handlers one by one, both workers | dp:120-276, cp at its calls |
| `MCDataPlane` | an instance for TLC | - |
| `DataPlaneProofs` | theorems about `DataPlane` and their proofs | - |
| `MediaPath` | the packets from F's socket to the listeners: descriptors, kernel queues, the switch thread | dp:49-141, dp:234-276, udp:71-124, udp:188-218 |
| `Broadcast` | abstract: what the media path promises, one ordered stream | - |
| `MCMediaPath` | an instance for TLC | - |
| `MediaPathProofs` | theorems about `MediaPath`, the refinement among them | - |
| `PromptPlayer` | the rounds of the hint thread and the pacing of a prompt | dp:144-232 |
| `MCPromptPlayer` | an instance for TLC | - |
| `PromptPlayerProofs` | theorems about `PromptPlayer` and their proofs | - |
| `SignalCodec` | `P_ComDecode`, `P_ComEncode`, the replies (the 400 to what does not decode among them), and a client that uses the same codec | codec, cp:101-107, cp:330-470 |
| `MCSignalCodec` | the requests TLC feeds to it | - |
| `SignalCodecProofs` | theorems about `SignalCodec` and their proofs | - |

`ControlPlane` and `DataPlane` both stand on `MediaTable`: the same three
operators are atomic parts of a handler in one, and separate critical sections
in the other. `DataPlane` asks what the lock is worth and leaves the contents
out; `MediaPath` and `PromptPlayer` each follow one of the two workers through
what it does with the maps, and take every visit under the lock as one step.

## 2. ControlPlane

**State.** `patClient` is the array of slots, slot 0 for F. A slot keeps the
fields that decisions read (`eState`, `aName`, `aUUID`, the two addresses) and
the key of its sender, which stands for the copy of the sender the code keeps in
`tMedia`. `senders` are the two maps. `sent` is the datagram the last step
sent. `phase` says where the main loop is. `up` is FALSE once the process has
dereferenced NULL. Time is kept as differences: `sinceKA[i]` is the age of slot
i's last sign of life, `sinceCheck` the time since the last tick; both stop at a
value past which no comparison of the code can tell them apart (`AgeCap`,
`TickAfter + 1`).

**Actions.** One pass of the loop is two steps: `TimerCheck` (main:129-136, with
the whole tick when it is due) and then one handler, or `NoMessage`. A handler is
one action down to its reply, because nothing else runs in that thread. Which
slot a request finds, and which handler it goes to, follows `locateClientByUUID`,
`locateClientByName` and `getClient`:

| Code | Actions |
|---|---|
| CONN, unknown Call-ID | `ConnF`, `ConnC`: 486, or a slot and 400 without media, or a slot and a sender and 200 |
| CONN, known Call-ID (`handle_request_reCONN`) | `ReConn`: 400, or 200 at once, or `MoveMedia` and 200 |
| DISCONN, RESET | `ReleaseByUUID`, `ResetByName`, `ResetMiss`, `NotFound` |
| NOTIFY | `Notify`: `KeepAlive`, then `BadEvent` (400) or a `Body` (200) |
| any other type | `Unsupported` |
| a datagram that does not decode | `Malformed` (400) |
| no From header and an unknown Call-ID | `AnonymousMiss`: the NULL dereference of cp:228 |
| tick | `Tick`: every slot released, suspended or left alone |

The environment is unrestricted: any request, in any order, from any address,
as often as it likes. This contains loss, duplication, delay and reordering of
requests, clients that restart, and the loss of replies (the server never waits
for anything).

**Start.** `control_plane_init` clears slot 0 only (cp:68-69). The other slots
begin with whatever memory `new[]` returns; `Residue` says what their `eState`
may read as. Such a slot equals no name, Call-ID or key of this run of the
program; that much is assumed of old memory.

**A key is fresh.** The key of a sender is the time in microseconds (dp:52).
`FreshKeys` takes any key that is in no map. The product is computed in a `long`;
on the 32-bit target of the Makefile it wraps after about 71 minutes, so that a
repeated key is possible, and so it is when the clock is set back. The model
leaves that out.

**The clock goes forward.** `Elapse` is the only step that changes ages here. A
clock that is set forward or back is the subject of `Timers` (section 6).

### The abstract specification

`SessionRegistry` says what the server is for: each Call-ID has at most one
session; a session has a kind, a destination and is paused or not; there is one
F at most and `MaxListeners` C at most; sessions come by `Login`, change by
`Move` and `Resume`, and go by `Logout` or by a `Sweep` that ends some and pauses
others at once. `RegistryRefinement!Registered` maps a state of `ControlPlane` to it:
the session of a Call-ID is *the sender the data plane has* for the slot with
that Call-ID. `ImplementsRegistry` therefore fails if the two planes drift
apart, if a request ends the session of another client, or if a limit is passed.

### Runs

| Run | Instance | Checks |
|---|---|---|
| `core` | 2 slots (F and one C), 3 keys, 2 Call-IDs, 2 names, 2 media and 2 signal addresses, dirty slots (free, CONNECTED or INACTIVE) | `TypeOK`, `SenderForEverySession`, `NoOrphanSender`, `ConnectedIsHeard`, `AdvertisedPortIsServed`, `ReleaseIsAcknowledged`, `ImplementsRegistry` |
| `house` | 3 slots (F and two C), 4 keys, 3 Call-IDs, 1 media and 1 signal address, list indexes 0, 1, 3 and 258 (which a BYTE makes 2) | `SessionsAreDistinct`, `FOnlyInSlotZero`, `EveryListenerIsListed`, `RequestTouchesOneClient`, `ImplementsRegistry` |
| `live` | 2 slots, dirty ones included, fair, no symmetry | `NoImmortalSession`, `ResidueIsReleased` |
| `inactive`, `resent` | as `core`, clean slots | one property each, violated: see Findings |

*Why the bounds are enough.* The handlers look at one slot, at the first slot
that matches a name or Call-ID, or at whether any slot is free; two clients of
different kinds and one Call-ID per slot make every one of these cases, and the
third slot of `house` adds a second listener (order of lookups, a full house with
somebody left to be turned away, a list with a gap). One key more than there are
slots is what a media change needs, since the old sender is erased before the
new one is made. The clock goes four seconds at a time: with a keep-alive of 1 s
and, in `core`, an offline timer of 5 s a session is first suspended (age 4 > 3)
and then released (age 6 > 5); in `house` the offline timer is shorter than
three keep-alives, so that a session goes offline without having been inactive.
Keys, Call-IDs and signal addresses are only ever compared for equality, which is
why their symmetry is sound; the liveness run does without it.

*What the properties say.* `TypeOK` says of a slot more than the types of its fields:
one that counts as a session has the address it logged in from, a media address and
the key of a sender (`SessionsAreComplete`), while a free or dirty slot may lack all
three. `SenderForEverySession` and `NoOrphanSender` are the
two halves of "the planes agree". `ConnectedIsHeard` is about the race of tick,
NOTIFY and re-sent CONN over one sender. `AdvertisedPortIsServed` is about the
stale copy of a sender in a reply. `ReleaseIsAcknowledged` says that outside the
tick no session ends without the client being told, at the address it logged in
from. `RequestTouchesOneClient` is isolation. `EveryListenerIsListed` says that
walking the list by index shows everybody. `NoImmortalSession` and
`ResidueIsReleased` are the liveness of the tick.

*Fairness.* `WF(Loop)`: `select` waits a second at most and every handler
returns, so the loop goes on. `WF(Elapse)`: time passes. Nothing is assumed of
the clients: a tick must do its work whatever they send, and both properties
hold without a client that behaves.

### Proofs

`ControlPlaneProofs` and `RegistryProofs` prove, for every number of slots, every set of
keys, Call-IDs, names and addresses, every timer and every residue:

| Theorem | States |
|---|---|
| `TypeCorrect` | `Spec => []TypeOK`, complete sessions included |
| `AgreementHolds` | the inductive invariant below |
| `SessionsAreServed` | `Spec => []SenderForEverySession` |
| `SendersAreOwned` | `Spec => []NoOrphanSender` |
| `LookupsAreUnique` | `Spec => []SessionsAreDistinct` |
| `DispatchIsConsistent` | `Spec => []FOnlyInSlotZero` |
| `ConnectedSessionsAreHeard` | `Spec => []ConnectedIsHeard` |
| `AdvertisedPortsAreServed` | `Spec => []AdvertisedPortIsServed` |
| `RequestsTouchOneClient` | `Spec => RequestTouchesOneClient` |
| `ReleasesAreAcknowledged` | `Spec => ReleaseIsAcknowledged` |
| `ListenersAreListed` | `Spec => []EveryListenerIsListed` |
| `ServerImplementsRegistry` | `Spec => ImplementsRegistry` |

*The argument.* None of the five properties is inductive alone. To erase the
sender of one session and keep those of the others one must know that senders
are not shared; that a moved session keeps a sender of its kind needs that the
old one was its own; and the release of a slot that `new[]` left dirty must not
erase anybody's sender. So the inductive invariant `Agreement` is the conjunction
of all five with `ResidueHoldsNothing`: a slot without a Call-ID has no key.
`OneSlotChanges` states once what every handler has in common: if a step changes
slot i only, and senders only under keys that were i's or nobody's, and slot i is
in order after it, then `Agreement` is preserved. `OpenAgreement`,
`MoveAgreement`, `ReleaseAgreement` and `KeepAliveAgreement` reduce the handlers
to it; `TickAgreement` treats the tick, which changes all slots at once.
`NextAgreement` has one step per action.

The theorems about single requests rest on a summary of the loop. `StepIs` says that a step is the
clock's, the top of the loop's, or handles a datagram, and `Handles` lists the five
things a datagram can lead to: nothing, the end of the process, a CONN for a slot
(new or re-sent), a NOTIFY, a release. `HandlerSpares` is isolation, from `Agreement`:
a handler writes one slot, and in the maps only what is that slot's or nobody's.
`ListenersAreListed` counts: a listener's place in the list is at most the number of
listeners, so no range check and no BYTE changes it.

`RegistryProofs` proves the refinement in two halves. `RegistryShows` says what the
mapping makes of a state in which the planes agree: each session is the entry of its
Call-ID, and there are no others. `OneEntryChanges` then turns `HandlerSpares` into a
statement about the registry, and one lemma for each of the five names the step it is
(`Login`, `Move`, `Resume`, `Logout`, or none). That `Login` respects the limits is an
injection: every entry of a listener is a session in a slot other than the free one.
`TickRefines` gives the sets that `Sweep` ends and pauses.

*From what.* The named assumptions of `MediaTable`, `ControlPlane` and
`RegistryRefinement`: at least two slots and at most as many as a listener's index, a
BYTE, can tell apart; timers that are numbers; sentinels that are no values (and no
entry of the registry); F's name among the names; residue among the states. The
freshness of keys is part of the model, as said above.

*Only model-checked:* `NoImmortalSession` and `ResidueIsReleased`. Liveness under
fairness stays with TLC: the prover has no support for it.

## 3. DataPlane

**State.** The maps; `lock`, a word without owner, as `pthread_spin_unlock` sees
it; for each thread a program counter and, for the workers, an iterator (the key
it stands on, or `End`); `calls`, the data plane calls that the current handler
still has to make; `out`, the packets the last step sent. `wild` is set when a
thread uses an iterator whose node is gone: that is undefined, and the model
stops there. `idled` and `erased` are history, for the properties.

**Actions.** The main thread begins a handler (`Login`, `Move`, `Leave`,
`Pause`), then takes the lock, makes one call and unlocks, for each of the calls:
a media change is two critical sections. The workers follow their loops from
one lock operation to the next: every place where the lock is open is a place
where the other threads may come in.

The lock matters in two ways. The workers open it while they stand on a node
(dp:199, 204, 221, 245), so a node may be erased under them. And when the switch
thread has read nothing it goes on to `++it` without having locked again and
unlocks a second time (dp:270-274): on a lock that somebody else may hold.

The model keeps every order of the critical sections; a map operation inside one
is atomic. When the lock has been broken two threads may be inside at once, and
what a `std::map` does then is undefined; the model shows that this can happen
(`OnlyIdleReadsBreakTheLock` says when it cannot) and does not follow the
corruption further. The pacing of a prompt is abstracted: a prompt is any
number of packets, and may be finished at any time (`PromptPlayer` has it).

**Runs.** `data_plane`: three keys, one address; one F and up to two listeners, or
one F, one listener and a media change. The switch thread and the hint thread each
stand on at most one node, and a node is erased at most once, so three nodes
make every case of "mine, another's, none".
`LockIsNotLeaked`: a taken lock has a thread that will give it back, in spite
of the unlocks too many; so nobody spins for ever.
`OnlyIdleReadsBreakTheLock`: as long as the switch thread always found a packet,
the lock excludes.
`OnlyErasuresDangle`: as long as nobody moved or left, no iterator dangles.
`deleted_sender` is violated: see Findings. Both runs of this module say
`CHECK_DEADLOCK FALSE`, because after undefined behaviour nothing is said of the
program. No liveness is stated: a spin lock is not fair, and the code has nothing
that would make it so.

**Proofs** (`DataPlaneProofs`), for any set of keys and addresses:

| Theorem | States |
|---|---|
| `DataPlaneTypeCorrect` | `Spec => []TypeOK` |
| `TheLockComesBack` | `Spec => []LockIsNotLeaked` |
| `TheLockExcludes` | `Spec => []OnlyIdleReadsBreakTheLock` |
| `OnlyErasuresLeaveDanglers` | `Spec => []OnlyErasuresDangle` |

*The argument.* `Lock` is the two properties of the lock, thread by thread, and one
fact more: the switch thread stands before its unlock without a lock only after it
has once read nothing. `Walks` says that without an erasure each worker stands on a
node of the map it walks, also while it waits for the lock; it needs that adding
and suspending remove no sender (`AddHolds`, `SuspendHolds`).
Each has one step per action. All properties of run `data_plane` are proved.

## 4. MediaPath and Broadcast

**State.** The descriptor of each node of the two maps (`fMap`, `cMap`), -1 among
them; how many descriptors senders have used up; the datagrams the kernel keeps for
each socket; the descriptor of the node the switch thread stands on and the
packet it has in hand. A packet is the socket it came by, which is that of one of F's
senders, and its number in the order of arrival. `sent`, `since` and `stale` are
history.

**Actions.** `AddF`, `AddC`, `DelF`, `DelC` are the calls of the handlers, composed
to logins, departures and media changes (two calls, with every step of the other
threads in between). `Socket` is `udp_interface_init`: a new descriptor, or -1 when
there is none left. Erasing a node leaves its descriptor open (dp:133). `Receive`
is the kernel, which drops what does not fit; a datagram may also come to the socket of
an F that is gone, and as long as the switch thread stands on the erased node it
reads it there (dp:245, udp:194-209). `SwitchBegin`, `SwitchRead`, `SwitchIdle` and
`SwitchForward` are the rounds of the switch thread.

Three simplifications. `is_suspend` is left out because nothing on this way reads
it: suspended listeners are fed like the others (dp:258). A thread whose node was
erased still reads that node's descriptor or finds nothing; what else it might find
there is the subject of `DataPlane`. What nobody can read any more is forgotten
(`Readable`), which only makes the model smaller.

**The abstract specification.** `Broadcast` has packets that wait, listeners, and
what each listener heard last. The order of the stream is that of F's senders, and of
arrival at each. It is not the order of arrival alone: after a media change a packet
to the old port may come when packets already wait at the new one, and the thread that
stands on the old node passes it on first. `Arrive` has such stragglers: they come
behind what is left of the speakers that have gone, and in front of all that the
present one has said. A packet is passed on to all listeners of that moment in one step,
later than all they have heard; none is lost while its speaker is there, and those of a
speaker that has gone may be dropped at any time. `ImplementsBroadcast` is the
refinement, with the waiting packets read off the kernel's queues and the thread's
hand. Listeners whose socket could not be opened are not listeners: nothing reaches
them.

**Run `media_path`.** Two listeners, three descriptors (F and both listeners, or a
media change, after which senders get -1), two datagrams in the kernel's queue,
four packets: more than the queue and the hand hold. That is 303 029 states, and with
the refinement and the liveness some two and a half minutes. Deadlock is checked.
`OldSoundIsBounded`: the first listener to come hears sound
that waited (dp:238: the socket is read only while somebody listens), at most a
queue and one packet. `SpokenIsPassedOn` is liveness: what waits is passed on, or
lost with F's sender, unless nobody listens.

*Fairness.* `WF(Switch)`: the thread waits 100 microseconds at most for a datagram
(udp:197), and the lock is never held for long. Nothing is assumed of clients.

**Proofs** (`MediaPathProofs`), for any number of listeners, descriptors and packets,
and any length of the kernel's queues:

| Theorem | States |
|---|---|
| `Invariance` | the inductive invariant below |
| `MediaPathTypeCorrect` | `Spec => []TypeOK` |
| `OldSoundStaysBounded` | `Spec => []OldSoundIsBounded` |
| `MediaPathImplementsBroadcast` | `Spec => ImplementsBroadcast` |

*The argument.* `Own` says whose a socket is: F's descriptor and the one under the
switch thread are among those already handed out, so a new one is nobody's and later
than both; a second F never comes between the halves of a media change; and nobody has
heard anything of a later sender than the one that is read. `Kept` says where packets
can be at all: at F's node and at the one under the thread. `Ordered` is what order
means here: every queue ascends and holds packets of its own socket, what was sent
comes before the packet in hand, and that before all that waits. A late packet at the
node under the thread keeps this order because the descriptor of that node is smaller
than F's new one; this is what makes a move of F in the middle of a round harmless.
`AppendQueue` and `HeadQueue` say what a queue holds, at its two ends. For the
refinement one lemma per action names the step of `Broadcast` it is (for a late packet:
the arrival of a straggler), or shows that it is none.

`Bounded` bounds what a listener has heard of old sound together with what it may
still hear: the packet in hand, or the one packet that a node erased under the thread
still gives (`InHand`), and F's queue up to the last packet older than the listener.
Because F's queue is the only one that is read to its end, the sum stays within one
queue and one packet when F moves its media in the middle of a round.

*Only model-checked:* `SpokenIsPassedOn`, which is liveness.

## 5. PromptPlayer

**State.** Who is in the maps and suspended; where the hint thread is, and on which
node; the packets of this prompt so far; the clock as the thread last saw it, and
`time_start`. Times are words that overflow, as `long` is 32 bits wide on the
target of the Makefile: a signed overflow is undefined in C++, and wraps in that
build, which does not optimise. `extra` and `prompts` are history.

**Actions.** The calls of `main`; `Round`, `Step` and `Wake` of the thread
(dp:189-232); `Enter` reads `is_suspend`, once (dp:167); `Wait`, `Send` and `Done`
are the looks at the clock in the busy loop (dp:173-186). Between two looks up to
`MaxGap` units pass. No client leaves while the thread stands on its node: that is
undefined behaviour, and belongs to `DataPlane`.

**Run `prompt_player`.** F and two listeners, prompts of two packets, an interval of
two units and a word of twelve: the overflow falls on each phase of a prompt.
`SuspendedHearsOutItsPrompt`: a client that a tick suspends hears the rest of one
prompt and no more. `ReturnEndsTheRound`: after F has come each listener is begun
with at most one more prompt, although the test is made once per round.
`PacedUnlessTheWordOverflows`: packets come neither early nor late, unless the word
overflows between `time_start` and the moment the packet is due. `PromptEnds` is
liveness, with the one exception that belongs to the code: if the moment lies so
close below the end of the word that the thread can miss it (and the next chance is
71 minutes away), nothing makes it ever hit it. Without the exception TLC finds the
property violated.

*Fairness.* The thread runs on and time passes: weak fairness of its steps with at
least one unit of time.

**Proofs** (`PromptPlayerProofs`), for any number of listeners and packets, any width
of the word, any interval and any delay:

| Theorem | States |
|---|---|
| `PlayerTypeCorrect` | `Spec => []TypeOK` |
| `SuspensionsAreHeardOut` | `Spec => []SuspendedHearsOutItsPrompt` |
| `ReturnsEndTheRound` | `Spec => []ReturnEndsTheRound` |
| `PromptsArePaced` | `Spec => PacedUnlessTheWordOverflows` |

*The argument.* Neither count is inductive. `Heard` adds that the client the thread
plays to has heard no more than `i` packets since it was suspended, and that a client
which is not suspended is owed nothing: `Enter` can then begin a prompt only where the
count is zero. `Begins` adds that no prompt was begun, since F came, for the listeners
the round has still to come to (`ToCome`: those of a later place in the map than the
node the thread stands on). It needs to know what coming and going do to places:
a newcomer is put at the end (`ComesAtTheEnd`), a departure keeps the order of the
rest (`GoesInOrder`). `OnTime`, the second half of the pacing property, is inductive;
`DueMeans` shows that the comparison of the code is the comparison of the elapsed time
with the interval as long as nothing overflows, and `Remainder`, that a remainder is
unique, carries the sums of wrapped words.

*Only model-checked:* `PromptEnds`, which is liveness.

## 6. Timers

`ControlPlane` knows time as ages that only grow. `Timers` has one client, the main
loop and a calendar clock that is set forward or back. An age is what the
code computes: a signed difference of two readings, compared as unsigned with one
timer (cp:485) and as signed with the other (cp:495). Beside it stands `silence`,
how long the client has really been silent, and by how much the clock was set
`forward` since, and `back` in all.

A tick is two readings of the clock. The loop reads it to see whether a tick is due
and keeps that reading for the next time (`Check`, main:129-136); the tick reads it
again (`Tick`, cp:473) and judges each client by that. Between the two a second may
begin and the clock may be set. `slip` is how far the last tick's reading lay before
the loop's.

Two assumptions: an iteration of the loop takes a second at most (`select` waits that
long, and handling takes no time that counts), and the clock is not set twice
between two looks of the loop (`settled`). Without the second TLC finds
`OnlySilenceOrALeapReleases` violated.

**Run `timers`.** A keep-alive of one second, offline after five, a clock set twice,
by less and by more than the timers are long.
`OnlySilenceOrALeapReleases`: nobody is suspended or released who was heard of in
time, unless the clock leapt forward since, with one exception. If the clock is set
back after the loop's reading and before the tick's, to before a client's last message,
the tick meets a negative age; the comparison at cp:485 takes it for a huge one, and a
client just heard of is released. The property shows that this window of two lines is
the only one: set back at any other moment the clock harms nobody, since no tick is
due before it has passed the last one again. `SilenceIsNoticed` bounds how late a tick
can be: by three seconds, by as much as the clock was set back, and by `slip`, for a
tick that read an earlier time than the loop passes over a client that was due, and
the next one comes that much later. The bound is tight.

**Proofs** (`TimersProofs`), for all timers, all leaps and any number of them:

| Theorem | States |
|---|---|
| `Invariance` | the inductive invariant below |
| `TimersTypeCorrect` | `Spec => []TypeOK` |
| `SilenceIsAlwaysNoticed` | `Spec => []SilenceIsNoticed` |
| `NobodyIsReleasedEarly` | `Spec => OnlySilenceOrALeapReleases` |

*The argument.* `Book` relates the readings to real time: an age differs from the
silence by what the clock was set. `Order` says that the last message is not much
younger than the last tick, or the clock leapt in this iteration and a tick comes
next; so an age is not below zero when the loop finds a tick due, and what the tick
itself reads is below zero only by what the clock was set back in between
(`TickMeans`). `Late` says how long a client can have been silent at each point of the
loop, and needs `Book` for ages and `Order` for the tick. One lemma per action; the
theorems then follow from the invariant alone.

## 7. Startup

**State.** The file, as a sequence of lines; how many were read; `chRecord`, which
keeps its contents from line to line; the counter of records; `global_confs`; what
the control plane and the data plane copied of it; the workers. Which calls will fail
is chosen at the start. A line is a comment (`skip`), has no token (`bare`), one
token (`short`), a token or a number of tokens that is asserted against (`long`), or
is a record with a known or an unknown key. A text is its length and what `atoi` makes
of it.

**Actions.** `OpenFile`, `ReadLine` (one pass of the loop of `load_config`, with every
early return), `EndOfFile`; then the calls of `main` in their order: `ControlInit`,
`MediaInit`, two `Spawn`, `OpenSocket`.

What is modelled because a property depends on it: `main` does not look at what
`load_config` returned; a line without a token takes the record before it once more,
or an array that was never written; numbers are cut to 16 bits, the keep-alive before
it is divided by 1000; the name of F is cut to 48 characters and its terminator
then lies in the timer stored behind it (cp:61); a file or host that is not there is
used through a null pointer.

**Run `startup`.** All files of up to three lines, numbers on both sides of the widths,
names on both sides of 48, up to two failing calls; the third record is the one that
the assertion on the count stops (100 in the code). `SettingsAreTheLastWords`: each
setting is what its last line before the first bad one says, and 0 without one.
`ServesWithItsSettings`: what the planes serve with is what the file asks for: a
keep-alive in whole seconds and not below one, the offline time, a name of F that
clients can match, the media address; and no worker runs before both planes have
theirs. It speaks of numbers that fit 16 bits and of names shorter than their buffer.
What the code makes of others is in the model (`Cut16`, `ServerName`), and in the list
of disagreements below: it is nothing to hold the code to.
`ServesUnlessStopped`: liveness: main comes to serve if the file is there and passes
the assertions, the host has an address and the port is free. Its fairness is
that of one running thread. Every behaviour ends, hence `CHECK_DEADLOCK FALSE`.
One assumption on inputs: a text fits its field of `global_confs_t`
(`LinesAssumption`); the code copies it without looking.

**Proofs** (`StartupProofs`), for files of any number of lines, any lines, any of the
calls failing, and any bounds on records and names:

| Theorem | States |
|---|---|
| `StartupInvariance` | the inductive invariant below |
| `StartupTypeCorrect` | `Spec => []TypeOK` |
| `SettingsAreTheFiles` | `Spec => []SettingsAreTheLastWords` |
| `ServesWithTheFilesSettings` | `Spec => []ServesWithItsSettings`, for numbers and names that fit |
| `NothingElseStopsIt` | `Spec => []OnlyThoseStopIt`, the safety half of `ServesUnlessStopped`: only a missing file, a host without an address, a port that is taken or an assertion stops the server |

*The argument.* `Loading` is the invariant of the loop of `load_config`: no line so far
ends it (`Passed`), `chRecord` holds the last record read or has never been written
(`InHand`: a line without a token takes that record once more, which is why the last
word on a setting stays the last), `count` is the number of lines that the assertion
counts, and each setting is what its last record so far says (`Took`). `Loaded` carries
this over what `control_plane_init` does to the name of F, `Given` says what each plane
has been given and when. `OnlyThoseStopIt` needs `count` from `Loading`: the assertion
fails only in a file that has too many records. What each kind of line does is one
lemma, and so is each call of `main`.

*From what.* `LinesAssumption`, as above, and `BoundsAssumption`: at least one record
may be read, and the length of a name fits a byte.

*Only model-checked:* `ServesUnlessStopped` itself, which is liveness.

## 8. SignalCodec

**State.** One request, the text behind the cursor, and what was decoded. A text
is a sequence of tokens: delimiters, and words of which only the identity and the
width in characters count. The buffer sizes are those of the code. A field is
described by what ends it, its limit, how many characters are skipped after it
and how its value is stored; the table `Fields` has these for the start lines and
the seven headers, each entry from its `Decode` function, and `ReadField` is
the copying loop they share.

What is modelled because a property depends on it: skipping a delimiter unseen;
widths at the limit; a number cut to 16 bits; a DWORD printed with `%d`; a second
value that is written over a longer first one without a terminator; the optional
blank after the colon; the end of the text where a header could begin; what a field
that is refused leaves in the session. A number too big for `atoi` wraps with one C
library and saturates with another, so both values occur.

**What clients write.** A line has a header, values that may be empty or of the wrong
kind, and a tail that may be anything: a From without its `>`, a CR without its LF, a
few characters more. The decoder does not look at what it skips, so such lines are
accepted or put it out of step with the lines (`RunsOn`): the next header is then
sought in the middle of something else. `InStep` excludes those texts from what
`GoodRequestsAreUnderstood` and `AcceptedRequestsAreWhole` say; that the decoder
returns and that no value is too wide is said, and proved, of all texts.

**The replies.** A request that is decoded gets the reply of a handler (`Handle`);
which one is the business of `ControlPlane`, and here every reply the handlers can
make is tried. One that is not decoded gets a 400 (`Reject`, cp:101-107), with as
much of Call-ID and CSeq as the decoder had come to when it gave up, the full buffer of
a value that was too wide included: it has no terminator, and `WriteString` stops at
its width (codec:586, 600).
The client's side is not in the repository: the model takes the daemon's own decoder
for it.

**Run `codec`.** All requests of up to two lines out of twenty-seven (seven good ones,
edges of widths and numbers, empty values, tails that are wrong), with and without
blanks and the empty line; all of three lines out of the fifteen for which the
neighbourhood matters; and short ones without a URL, with an unknown method or of
another kind. Three lines are enough for a line to be run over by the one before it
while another follows. `GoodRequestsAreUnderstood`: a request of good lines is accepted
and means what its lines say. `AcceptedRequestsAreWhole`: one that is accepted has its
URL and no line with an unknown header, a value left out or one that is too wide; it
does not say that nothing malformed is accepted, since the decoder takes an empty
value, a number that is none, and a tail that only looks like the end of a line.
`RepliesMeanWhatWasSent` closes the circle through encoder and decoder: a reply is
understood, and means what it meant. `DecoderReturns` is the liveness of the header
loop, under weak fairness of the one thread that runs it. Every behaviour ends, hence
`CHECK_DEADLOCK FALSE`.

Two exceptions are part of `RepliesMeanWhatWasSent` because they are part of the code.
A CSeq of eleven characters is not understood by the decoder (codec:596 prints what
codec has no room for). And the 400 to a request with a Call-ID of 48 or more
characters, or a method of 16 or more in its CSeq, repeats 48 or 16 of them, which the
client's decoder refuses as the server's did.

**Proofs** (`SignalCodecProofs`), for requests of any number of lines, with any words
and numbers of any width:

| Theorem | States |
|---|---|
| `CodecInvariance` | the inductive invariant that all the others use |
| `CodecTypeCorrect` | `Spec => []TypeOK` |
| `DecoderFollows` | `Spec => []Follows`: where the decoder is in a request |
| `CodecAcceptsWholeRequests` | `Spec => []AcceptedRequestsAreWhole` |
| `CodecUnderstandsGoodRequests` | `Spec => []GoodRequestsAreUnderstood` |
| `ClientFollows` | `Spec => []Hears`: where the client's decoder is in a reply |
| `ClientsUnderstandReplies` | `Spec => []RepliesMeanWhatWasSent` |

*The argument.* The properties speak of the end of the decoding, so the invariants say
what holds in the middle of it. `Inv`: the cursor is inside a text that ends with zeros,
what was read fits what holds it and has no end of line in it, but that the field at
which the decoder gave up may fill its buffer, and fields are read in their order. `Follows`: what is left of a request is what its lines from the k-th on
make (`Left`, with `RequestLayout` and `LineLayout` for the text token by token), and
what was read is what the lines before it say; or the request has a line that does not
fit, and was refused. It is stated for requests in which no line puts the decoder out of
step, and with each header once for the values. `Hears` is the same for a reply: `ReplyLayout` shows
that what `P_ComEncode` writes is `ReplyText`, `Stage` names the header the cursor is in
front of, and there is one lemma for each of the eight values a reply can have. That a
reply is no wider than the client's buffers is not a property of the reply alone: its
Call-ID and method are what the server's decoder had come to, and `Inv` bounds those:
they are shorter than their buffers if the request was decoded, and otherwise they may
fill them, in a 400 (`RepeatedFits`, `AnswerIs`).

What `Width` and `FlattenSeq` compute is shown by induction. The library's induction
theorems take a formula as a parameter, which the provers cannot instantiate; but they
can use that `<` is well founded on the natural numbers (`MinIs`), and from it
`NatSetInduction` and `RecursiveFunction` follow, with a set in the place of the
formula.

*From what.* `DraftsAssumption`: what a client can write at all. A line has a known or
an unknown header and no more values than the header has fields, each of them empty or
one word or number; its tail is any sequence of words, numbers and delimiters. Widths
and identities are free. Replies are those of the model: its four codes, one address
and port, and its bodies.

*Only model-checked:* `DecoderReturns`, which is liveness.

## 9. Findings

Each is a run that TLC finds violated.

| Run | What the code does | What it says |
|---|---|---|
| `inactive` | a media change of an INACTIVE session makes a sender that is not suspended; the session stays INACTIVE and no later tick suspends it (cp:627) | "inactive, NOTIFY media module t stop sending/recieving" (cp:508) |
| `resent` | a CONN that repeats its media address loses its sender and gets another port, because the new port is compared with the old IP address (cp:617) | "goto below, just return 200-OK" (cp:618) |
| `deleted_sender` | a worker goes on from a map node that a DISCONN has erased (dp:199, 245) | "delete media-plane" (cp:673) |

Disagreements that no run is spent on, because a line or two show them:

- A request without From and with an unknown Call-ID ends the process (cp:228,
  `AnonymousMiss`), although cp:315 has a branch for an "anonymous login".
- The prompt for listeners goes out through an RTP context that was never
  initialised (dp:91, 220), although it is "For both F/C." (config.h:13).
- The switch thread feeds suspended listeners too (dp:258); the comment at cp:508
  says that they are to stop receiving.
- The sample CONN of main:79 has no ID in its From line and the decoder refuses it.
- "program exit!" (conf:109) is logged when a key is unknown, and the program goes on
  with the settings read so far. Without a line for the keep-alive the timer is 0,
  and a session is INACTIVE at the first tick that finds it a second old.
- A name of F with 48 characters or more runs on into the timer behind it and matches
  no client's (cp:61-64).
- The keep-alive is stored in seconds, while the comments at config.h:15 and
  control_plane_pvt.h:31 call it "(ms)". In the file it is in milliseconds, and cut to
  16 bits before it is divided (conf:101): 66000 ms, a bit more than a minute, become
  one second.
- A clock that is set back between main:130 and cp:473 has a client released that was
  just heard of; the log at cp:486 says that it has reached its offline time.
- A packet to F's old port that comes late, while the switch thread stands on the erased
  node, is passed on before earlier ones that wait at the new port (dp:245).
- The sockets of erased senders are never closed (dp:133): each login and each media
  change uses up a descriptor, and when there is none left sessions are accepted with
  a sender that has none.
- A Content-Length of five digits is refused (codec:152-172) although the comment at
  codec:164 has "65535" as an example of what must fit.
- The decoder accepts an empty Call-ID, a number that is none, and a From without its
  `>`, although the comments at codec:275 and 288 name the delimiters
  they skip.
- The 400 to a request whose Call-ID or CSeq method is too wide (cp:105) repeats so much
  of it that a client with the same decoder refuses the reply.
- `wifi_d.conf:31` calls the name of F "useless now", while cp:228 compares it with
  every new client's name.
- main:129 speaks of a tick every second, while the test at main:131 is for more than
  one. `MaxConn` is stored and never used.

## 10. Not modelled

- *Hash map and queue* (`HashMap.cpp`, `lib_hash.cpp`, `queue.cpp`): not in the
  Makefile's build, included by nothing in it, and they do not compile as they stand.
- *RTP header and sequence number* (`rtp_process.cpp`): a fixed header and a counter
  that nothing in the daemon reads. The socket that `rtp_prcess_init` opens is never
  used.
- *`udp_interface_read` and its callbacks*: not used by the daemon.
- *Text of reasons and bodies*, log lines, the fields `aID`, `dwSeq` and
  `bMethod` of a slot: no decision reads them.
- *Encoding of a request*: nothing in the daemon sends one.
- *Reading the prompt file*: two calls of libsndfile.
- *Texts longer than their field in `global_confs_t`, and lines of more than 255
  characters*: assumed away in `Startup`.
- *Functions declared `int` that return nothing* (dp:31, 123, 144, 278): harmless in
  the build of the Makefile, which does not optimise, and their results are not used.

## 11. Plan

Done, in this order: `MediaTable` and `ControlPlane` with the runs `core`,
`house`, `live`; the abstract `SessionRegistry` and the refinement;
`DataPlane`; the proofs of `TypeOK` and `Agreement`; `SignalCodec`; `Startup`;
`Broadcast` and `MediaPath`; `PromptPlayer`; `Timers` with its proofs; the proofs
about `MediaPath` and `DataPlane`; the proofs about single requests and the
refinement of `SessionRegistry`; the proofs about `PromptPlayer`, and the bound on
old sound in `MediaPath`.

Then the proofs about `Startup`, and those about `SignalCodec`: with them every safety
property and every refinement that a run checks is a theorem too.

Last, where the models were coarser than the code: the two readings of the clock in
`Timers`, late packets to an erased sender in `MediaPath`, and in `SignalCodec` the
lines that are malformed and yet accepted and the 400 to what is not decoded; each with
its proofs done anew.

Next, proving more: the safety half of the liveness properties, which is that each step
of the decoder, of the prompt and of the round of the switch thread brings its end
nearer. The liveness properties themselves stay with TLC.

A composition of `ControlPlane` with the threads of `DataPlane`, one call at a time,
would add no behaviour to either: the workers change nothing that the control plane
reads, and the calls of the handlers are in `DataPlane` as they are made.
