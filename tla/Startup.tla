------------------------------- MODULE Startup -------------------------------
(***************************************************************************)
(* From main() to its loop: load_config reads wifi_d.conf line by line     *)
(* (core/config.cpp), control_plane_init copies what it needs,             *)
(* data_plane_init and data_plane_run prepare the prompt and start the two *)
(* workers, init_socket binds the signal port (main.cpp).                  *)
(*                                                                         *)
(* A text is known by its length and by what atoi makes of it.  Which      *)
(* calls of the operating system will fail is chosen at the start.         *)
(***************************************************************************)
EXTENDS Integers, Sequences, FiniteSets, FiniteSetsExt

CONSTANTS
    Lines,          \* lines that a file may have
    MaxLines,       \* a bound of the model: the length of a file
    MaxFaults,      \* a bound of the model: how many calls fail
    MaxRecords,     \* the number of records that load_config asserts against
    UserLth         \* USER_LTH

NumberKeys == {"serviceport", "mediaport", "maxconn", "timer_keepalive", "timer_offline"}
TextKeys == {"servicename", "f-name", "moh_cn", "moh_noconn", "media_ip"}
Keys == NumberKeys \cup TextKeys

\* chRecord[0] and chRecord[1]; caps: the key is not written in small letters.
Records ==
    [key : Keys \cup {"unknown"}, caps : BOOLEAN, num : Int, lth : Nat]

\* skip: a comment or an empty line.  bare: separators only, so no token.
\* short: one token.  long: a key or a number of tokens that is asserted against.
Line == [kind : {"skip", "bare", "short", "long"}]
            \cup [kind : {"record"}, rec : Records]

\* A bound of the model: no text is longer than its field of global_confs_t.
FieldLth(k) == IF k \in {"servicename", "f-name"} THEN 63 ELSE 127

ASSUME LinesAssumption ==
    /\ Lines \subseteq Line
    /\ \A line \in Lines : line.kind = "record" /\ line.rec.key \in TextKeys
                                => line.rec.lth <= FieldLth(line.rec.key)
ASSUME BoundsAssumption ==
    /\ MaxLines \in Nat /\ MaxFaults \in Nat
    /\ MaxRecords \in Nat \ {0} /\ UserLth \in 0 .. 255

\* What chRecord holds before the first record.
Garbage == [key |-> "garbage"]

Faults == {"file", "host", "sound", "hint", "switch", "socket"}

VARIABLES
    pc,
    faults,     \* the calls that will fail
    file,       \* the lines of wifi_d.conf
    pos,        \* the lines read so far
    record,     \* chRecord
    count,      \* n32RecordCount
    confs,      \* global_confs
    server,     \* m_confs of the control plane
    media,      \* data_global_confs and whether the prompt is in memory
    workers     \* the threads of the data plane

mainVars == <<pc, faults, file>>
loadVars == <<pos, record, count, confs>>
vars == <<mainVars, loadVars, server, media, workers>>

NoServer == [set |-> FALSE]
NoMedia == [set |-> FALSE]

Word16 == 0 .. 65535

Cut16(n) == n % 65536

\* Where load_config stops for good, and where main does.
Final == {"loop", "ended", "crashed"}

Goto(l) == pc' = l /\ UNCHANGED <<faults, file>>

-----------------------------------------------------------------------------
(***************************************************************************)
(* load_config.                                                            *)
(***************************************************************************)
Init ==
    /\ pc = "fopen"
    /\ \E n \in 0 .. MaxLines : file \in [1 .. n -> Lines]
    /\ faults \in {f \in SUBSET Faults : Cardinality(f) <= MaxFaults}
    /\ pos = 0 /\ record = Garbage /\ count = 0
    /\ confs = [k \in Keys |-> 0]
    /\ server = NoServer /\ media = NoMedia /\ workers = {}

\* A file that cannot be opened is logged, and then fgets reads from NULL.
OpenFile ==
    /\ pc = "fopen"
    /\ Goto(IF "file" \in faults THEN "crashed" ELSE "read")
    /\ UNCHANGED <<loadVars, server, media, workers>>

\* Mutant: keys are compared as they were written.
Known_AsWritten(rec) == rec.key \in Keys /\ ~rec.caps

\* strToLower and strcmp: a key is found however it is written.
Known(rec) == rec.key \in Keys

\* Mutant: a number is stored as atoi returns it.
Setting_NoCut(rec) == IF rec.key \in TextKeys THEN rec.lth ELSE rec.num

\* Mutant: a keep-alive below a second becomes 0.
Setting_NoFloor(rec) ==
    CASE rec.key \in TextKeys -> rec.lth
      [] rec.key = "timer_keepalive" -> Cut16(rec.num) \div 1000
      [] OTHER -> Cut16(rec.num)

\* What a record makes of its setting.  The keep-alive is given in milliseconds.
Setting(rec) ==
    IF rec.key \in TextKeys THEN rec.lth
    ELSE IF rec.key = "timer_keepalive" THEN Max({1, Cut16(rec.num) \div 1000})
    ELSE Cut16(rec.num)

\* The rest of the loop body for the record in chRecord: an unknown key ends
\* load_config, one record too many fails an assertion.
TakeRecord(rec) ==
    \/ /\ rec # Garbage /\ Known(rec)
       /\ confs' = [confs EXCEPT ![rec.key] = Setting(rec)]
       /\ count' = count + 1
       /\ Goto(IF count + 1 < MaxRecords THEN "read" ELSE "crashed")
    \/ /\ rec # Garbage /\ ~Known(rec)
       /\ Goto("control")
       /\ UNCHANGED <<count, confs>>
    \/ \* An array never written is no key, and may be too long for strToLower.
       /\ rec = Garbage
       /\ Goto("control") \/ Goto("crashed")
       /\ UNCHANGED <<count, confs>>

ReadLine ==
    /\ pc = "read" /\ pos < Len(file)
    /\ pos' = pos + 1
    /\ LET line == file[pos']
       IN  \/ /\ line.kind = "skip"
              /\ Goto("read")
              /\ UNCHANGED <<record, count, confs>>
           \/ /\ line.kind = "short"
              /\ Goto("control")
              /\ UNCHANGED <<record, count, confs>>
           \/ /\ line.kind = "long"
              /\ Goto("crashed")
              /\ UNCHANGED <<record, count, confs>>
           \/ \* No token is written to chRecord: the last record is taken again.
              /\ line.kind = "bare"
              /\ TakeRecord(record)
              /\ UNCHANGED record
           \/ /\ line.kind = "record"
              /\ record' = line.rec
              /\ TakeRecord(line.rec)
    /\ UNCHANGED <<server, media, workers>>

EndOfFile ==
    /\ pc = "read" /\ pos = Len(file)
    /\ Goto("control")
    /\ UNCHANGED <<loadVars, server, media, workers>>

-----------------------------------------------------------------------------
(***************************************************************************)
(* The rest of main, up to its loop.  It does not look at what load_config *)
(* returned.                                                               *)
(***************************************************************************)

NameCut == Min({confs["f-name"], UserLth})

\* The cut name as m_confs holds it.  With USER_LTH characters its terminator
\* lies in the timer that is stored next: the name runs on unless that is 0.
ServerName == [lth |-> NameCut, ends |-> NameCut < UserLth \/ confs["timer_keepalive"] = 0]

ServerConfs ==
    [set |-> TRUE, name |-> ServerName,
     ka |-> confs["timer_keepalive"], offline |-> confs["timer_offline"]]

\* Mutant: main goes on to the workers and leaves data_plane_init for later.
ControlInit_RunsFirst ==
    /\ pc = "control" /\ "host" \notin faults
    /\ server' = ServerConfs
    /\ Goto("hint")
    /\ UNCHANGED <<loadVars, media, workers>>

\* control_plane_init.  A host name that does not resolve is used through NULL.
\* The name is cut in place, in global_confs.
ControlInit ==
    /\ pc = "control"
    /\ \/ /\ "host" \in faults
          /\ Goto("crashed")
          /\ UNCHANGED <<server, confs>>
       \/ /\ "host" \notin faults
          /\ server' = ServerConfs
          /\ confs' = [confs EXCEPT !["f-name"] = NameCut]
          /\ Goto("media")
    /\ UNCHANGED <<pos, record, count, media, workers>>

\* Mutant: main ends when the prompt cannot be read.
MediaInit_Strict ==
    /\ pc = "media"
    /\ media' = [set |-> TRUE, ip |-> confs["media_ip"], prompt |-> "sound" \notin faults]
    /\ Goto(IF "sound" \in faults THEN "ended" ELSE "hint")
    /\ UNCHANGED <<loadVars, server, workers>>

\* data_plane_init.  Without the file the prompt stays a null buffer.
MediaInit ==
    /\ pc = "media"
    /\ media' = [set |-> TRUE, ip |-> confs["media_ip"], prompt |-> "sound" \notin faults]
    /\ Goto("hint")
    /\ UNCHANGED <<loadVars, server, workers>>

\* data_plane_run: a thread that cannot be created is logged.
Spawn(t, next) ==
    /\ pc = t
    /\ workers' = IF t \in faults THEN workers ELSE workers \cup {t}
    /\ Goto(next)
    /\ UNCHANGED <<loadVars, server, media>>

\* init_socket.  When it fails main returns, and the workers end with it.
OpenSocket ==
    /\ pc = "socket"
    /\ \/ "socket" \in faults /\ Goto("ended") /\ workers' = {}
       \/ "socket" \notin faults /\ Goto("loop") /\ UNCHANGED workers
    /\ UNCHANGED <<loadVars, server, media>>

Next ==
    \/ OpenFile \/ ReadLine \/ EndOfFile
    \/ ControlInit \/ MediaInit
    \/ Spawn("hint", "switch") \/ Spawn("switch", "socket")
    \/ OpenSocket

\* main is a running thread, and none of its calls blocks for good.
Spec == Init /\ [][Next]_vars /\ WF_vars(Next)

-----------------------------------------------------------------------------
(***************************************************************************)
(* Properties.                                                             *)
(***************************************************************************)
TypeOK ==
    /\ pc \in {"fopen", "read", "control", "media", "hint", "switch", "socket"} \cup Final
    /\ pos \in 0 .. Len(file) /\ count \in 0 .. MaxRecords
    /\ record = Garbage \/ record \in Records
    /\ confs \in [Keys -> Word16]
    /\ server.set => server.name.lth <= UserLth /\ server.ka = confs["timer_keepalive"]
    /\ media.set => media.prompt \in BOOLEAN
    /\ workers \subseteq {"hint", "switch"}

\* What a reader of the file expects: a line counts up to the first that cannot
\* be taken, and the last line that counts gives a setting its value.
Stops(i) ==
    LET line == file[i]
    IN  \/ line.kind \in {"short", "long"}
        \/ line.kind = "record" /\ line.rec.key = "unknown"
        \/ line.kind = "bare" /\ \A j \in 1 .. i - 1 : file[j].kind # "record"

Counts(i) == \A j \in 1 .. i : ~Stops(j)

Settles(i, k) == file[i].kind = "record" /\ file[i].rec.key = k /\ Counts(i)

LinesFor(k) == {i \in 1 .. Len(file) : Settles(i, k)}

Meant(k) == LET last == file[Max(LinesFor(k))].rec
            IN  IF k \in TextKeys THEN last.lth ELSE last.num

\* load_config, though its error paths return from the middle of the file and a
\* line without a token takes the record before it once more, gives each setting
\* what its last line before the first bad one says, and 0 without a line.
SettingsAreTheLastWords ==
    pc \in {"control", "media"} =>
        \A k \in Keys \ {"timer_keepalive", "f-name"} :
            confs[k] = IF LinesFor(k) = {} THEN 0 ELSE Cut16(Meant(k))

Wanted(k) == IF LinesFor(k) = {} THEN 0 ELSE Meant(k)

\* The settings that the planes serve with, after load_config, the copies of
\* control_plane_init and data_plane_init, and the cut of the name in place, are
\* those that the file asks for: a keep-alive in whole seconds and not below one,
\* an offline time, a name of F that clients can match, and the media address;
\* and 0 or the empty text without a line.  This holds of numbers that fit 16 bits
\* and of names shorter than USER_LTH, and nothing is claimed of others.  No worker
\* runs before both planes have their settings and the prompt was tried.
ServesWithItsSettings ==
    /\ workers # {} => /\ server.set /\ media.set
                       /\ media.ip = confs["media_ip"]
                       /\ media.prompt = ("sound" \notin faults)
    /\ pc = "loop" =>
        /\ LinesFor("timer_keepalive") = {} => server.ka = 0
        /\ LinesFor("timer_keepalive") # {} /\ Meant("timer_keepalive") \in Word16
                => server.ka = Max({1, Meant("timer_keepalive") \div 1000})
        /\ Wanted("timer_offline") \in Word16
                => server.offline = Wanted("timer_offline")
        /\ Wanted("f-name") < UserLth
                => server.name = [lth |-> Wanted("f-name"), ends |-> TRUE]
        /\ media.ip = Wanted("media_ip")

\* What an assertion of load_config catches, or a record that was never written.
Asserts ==
    \/ Cardinality({i \in 1 .. Len(file) : file[i].kind \in {"record", "bare"} /\ Counts(i)})
            >= MaxRecords
    \/ \E i \in 1 .. Len(file) :
          /\ file[i].kind \in {"long", "bare"} /\ Stops(i)
          /\ \A j \in 1 .. i - 1 : ~Stops(j)

\* Whatever fails in the media plane, and whatever load_config returned, main
\* comes to serve if the file is there and passes the assertions, the host has
\* an address and the port is free; and then with every worker that could start.
ServesUnlessStopped ==
    {"file", "host", "socket"} \cap faults = {} /\ ~Asserts
        => <>[](pc = "loop" /\ workers = {"hint", "switch"} \ faults)
=============================================================================
