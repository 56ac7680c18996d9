---------------------------- MODULE StartupProofs ----------------------------
(***************************************************************************)
(* Proofs about Startup, for files of any length: what load_config makes   *)
(* of a file, what of it reaches the two planes, and that nothing else     *)
(* keeps main from its loop.                                               *)
(*                                                                         *)
(* The argument is an invariant of the loop of load_config: what the lines *)
(* read so far have settled (Took), and what chRecord holds (InHand).      *)
(***************************************************************************)
EXTENDS Startup, FiniteSetTheorems, TLAPS

\* Line i is a record for setting k.
Is(i, k) == file[i].kind = "record" /\ file[i].rec.key = k

\* v is what the first n lines make of setting k: what the last record for it
\* says, or 0.
Took(n, k, v) ==
    \/ v = 0 /\ \A i \in 1 .. n : ~Is(i, k)
    \/ \E i \in 1 .. n : /\ Is(i, k) /\ v = Setting(file[i].rec)
                         /\ \A j \in i + 1 .. n : ~Is(j, k)

\* None of the first n lines ends load_config, and the next one does.
Passed(n) == \A i \in 1 .. n : ~Stops(i)

Reached(n) == n \in 0 .. Len(file) /\ Passed(n) /\ (n = Len(file) \/ Stops(n + 1))

\* chRecord holds the last record that was read, if there was one.
InHand ==
    \/ record = Garbage /\ \A i \in 1 .. pos : file[i].kind # "record"
    \/ \E i \in 1 .. pos : /\ file[i].kind = "record" /\ record = file[i].rec
                           /\ Known(record)
                           /\ \A j \in i + 1 .. pos : file[j].kind # "record"

\* The lines that count for the assertion on the number of records.
Taken(n) == {i \in 1 .. n : file[i].kind \in {"record", "bare"}}

Loading ==
    pc \in {"fopen", "read"} =>
        /\ Passed(pos) /\ InHand
        /\ count = Cardinality(Taken(pos)) /\ count < MaxRecords
        /\ \A k \in Keys : Took(pos, k, confs[k])

\* From load_config on: the settings are those of the lines that count, but for
\* the name of F that control_plane_init cuts.
Cut(v) == Min({v, UserLth})

Beyond == {"media", "hint", "switch", "socket", "loop"}

Loaded ==
    pc \in {"control"} \cup Beyond =>
        \E n \in 0 .. Len(file), v \in Word16 :
            /\ Reached(n) /\ Took(n, "f-name", v)
            /\ \A k \in Keys \ {"f-name"} : Took(n, k, confs[k])
            /\ pc = "control" => confs["f-name"] = v
            /\ pc # "control" =>
                 server.name = [lth |-> Cut(v),
                                ends |-> Cut(v) < UserLth \/ confs["timer_keepalive"] = 0]

\* What the planes have been given, and when.
Given ==
    /\ pc \in Beyond => server.set /\ server.offline = confs["timer_offline"]
    /\ pc \in {"fopen", "read", "control"} => server = NoServer
    /\ pc \in Beyond \ {"media"} =>
          /\ media.set /\ media.ip = confs["media_ip"]
          /\ media.prompt = ("sound" \notin faults)
    /\ workers = IF pc \in {"socket", "loop"} THEN {"hint", "switch"} \ faults
                 ELSE IF pc = "switch" THEN {"hint"} \ faults
                 ELSE {}

\* What ServesUnlessStopped says of every state: unless a file, the host, the
\* port or an assertion stops it, main neither crashes nor ends before its loop,
\* and in the loop every worker that could start is there.
OnlyThoseStopIt ==
    {"file", "host", "socket"} \cap faults = {} /\ ~Asserts
        => /\ pc \notin {"crashed", "ended"}
           /\ pc = "loop" => workers = {"hint", "switch"} \ faults

Typed == TypeOK /\ file \in Seq(Lines) /\ faults \subseteq Faults

Inv == Typed /\ Loading /\ Loaded /\ Given /\ OnlyThoseStopIt

-----------------------------------------------------------------------------
(***************************************************************************)
(* Numbers and lines.                                                      *)
(***************************************************************************)

\* The greater and the lesser of two numbers.
LEMMA MaxOfTwo ==
  ASSUME NEW a \in Int, NEW b \in Int
  PROVE  Max({a, b}) = IF a >= b THEN a ELSE b
BY DEF Max

LEMMA MinOfTwo ==
  ASSUME NEW a \in Int, NEW b \in Int
  PROVE  Min({a, b}) = IF a <= b THEN a ELSE b
BY DEF Min

\* A range, in numbers.
LEMMA RangeIs ==
  ASSUME NEW n \in Nat
  PROVE  \A x : x \in 0 .. n <=> x \in Int /\ 0 <= x /\ x <= n
OBVIOUS

LEMMA Word16Is == \A x : x \in Word16 <=> x \in Int /\ 0 <= x /\ x <= 65535
<1> DEFINE m == 65535
<1>1. m \in Nat OBVIOUS
<1>2. \A x : x \in Int /\ 0 <= x /\ x <= m <=> x \in Int /\ 0 <= x /\ x <= 65535 OBVIOUS
<1>3. Word16 = 0 .. m BY DEF Word16
<1> HIDE DEF m
<1>4. \A x : x \in 0 .. m <=> x \in Int /\ 0 <= x /\ x <= m BY <1>1, RangeIs
<1>5. QED BY <1>2, <1>3, <1>4

\* Numbers that fit 16 bits, and what their thousands are.
LEMMA Fits16 ==
  ASSUME NEW n \in Int, n >= 0, n <= 65535
  PROVE  n % 65536 = n
OBVIOUS

LEMMA Thousands ==
  ASSUME NEW n \in Int, n >= 0, n <= 65535
  PROVE  n \div 1000 \in 0 .. 65
OBVIOUS

\* What is left of a number in 16 bits.
LEMMA CutIs ==
  ASSUME NEW n \in Int
  PROVE  Cut16(n) \in Word16 /\ (n \in Word16 => Cut16(n) = n)
<1> DEFINE r == n % 65536
<1>1. r \in Int /\ 0 <= r /\ r <= 65535 OBVIOUS
<1>2. ASSUME n \in Word16 PROVE r = n BY <1>2, Word16Is, Fits16
<1>3. Cut16(n) = r BY DEF Cut16
<1> HIDE DEF r
<1>4. QED BY <1>1, <1>2, <1>3, Word16Is

\* A keep-alive is 1 to 65 seconds.
LEMMA KeepAliveIs ==
  ASSUME NEW n \in Int
  PROVE  /\ Max({1, Cut16(n) \div 1000}) \in 1 .. 65
         /\ n \in Word16 => Max({1, Cut16(n) \div 1000}) = Max({1, n \div 1000})
<1> DEFINE c == Cut16(n)
           s == c \div 1000
<1>1. c \in Word16 /\ (n \in Word16 => c = n) BY CutIs
<1> HIDE DEF c
<1>2. c \in Int /\ c >= 0 /\ c <= 65535 BY <1>1, Word16Is
<1>3. s \in 0 .. 65 BY <1>2, Thousands
<1>4. n \in Word16 => s = n \div 1000 BY <1>1
<1> HIDE DEF s
<1>5. Max({1, s}) = IF 1 >= s THEN 1 ELSE s BY <1>3, MaxOfTwo
<1>6. Max({1, s}) \in 1 .. 65 BY <1>3, <1>5
<1>7. n \in Word16 => Max({1, s}) = Max({1, n \div 1000}) BY <1>4
<1>8. QED BY <1>6, <1>7 DEF c, s

\* What a line is.
LEMMA LineIs ==
  ASSUME NEW line \in Lines
  PROVE  /\ line.kind \in {"skip", "bare", "short", "long", "record"}
         /\ line.kind = "record" =>
              /\ line.rec \in Records
              /\ line.rec.key \in TextKeys => line.rec.lth \in Word16
<1>1. line \in Line BY LinesAssumption
<1>2. line.kind \in {"skip", "bare", "short", "long", "record"}
      /\ (line.kind = "record" => line.rec \in Records)
  BY <1>1 DEF Line
<1>3. ASSUME line.kind = "record", line.rec.key \in TextKeys PROVE line.rec.lth \in Word16
  <2>1. line.rec.lth \in Nat BY <1>2, <1>3 DEF Records
  <2>2. line.rec.lth <= FieldLth(line.rec.key) BY <1>3, LinesAssumption
  <2>3. FieldLth(line.rec.key) \in Nat /\ FieldLth(line.rec.key) <= 127 BY DEF FieldLth
  <2>4. QED BY <2>1, <2>2, <2>3, Word16Is
<1>4. QED BY <1>2, <1>3

\* A record that was taken makes a number of 16 bits of its setting, and 1 to 65
\* seconds of a keep-alive.
LEMMA KeepAliveSetting ==
  ASSUME NEW line \in Lines, line.kind = "record", line.rec.key = "timer_keepalive"
  PROVE  /\ Setting(line.rec) \in 1 .. 65
         /\ line.rec.num \in Word16
              => Setting(line.rec) = Max({1, line.rec.num \div 1000})
<1>1. line.rec.num \in Int BY LineIs DEF Records
<1>2. "timer_keepalive" \notin TextKeys BY DEF TextKeys
<1>3. Setting(line.rec) = Max({1, Cut16(line.rec.num) \div 1000}) BY <1>2 DEF Setting
<1>4. QED BY <1>1, <1>3, KeepAliveIs

LEMMA SettingIs ==
  ASSUME NEW line \in Lines, line.kind = "record", line.rec.key \in Keys
  PROVE  /\ Setting(line.rec) \in Word16
         /\ line.rec.key # "timer_keepalive" =>
              Setting(line.rec) =
                Cut16(IF line.rec.key \in TextKeys THEN line.rec.lth ELSE line.rec.num)
         /\ line.rec.key \in TextKeys => Setting(line.rec) = line.rec.lth
<1>1. line.rec.num \in Int /\ line.rec.lth \in Nat
      /\ (line.rec.key \in TextKeys => line.rec.lth \in Word16)
  BY LineIs DEF Records
<1>2. "timer_keepalive" \notin TextKeys BY DEF TextKeys
<1>3. CASE line.rec.key \in TextKeys
  <2>1. Setting(line.rec) = line.rec.lth BY <1>3 DEF Setting
  <2>2. Cut16(line.rec.lth) = line.rec.lth BY <1>1, <1>3, CutIs
  <2>3. QED BY <1>1, <1>2, <1>3, <2>1, <2>2
<1>4. CASE line.rec.key = "timer_keepalive"
  <2>1. \A x \in 1 .. 65 : x \in Word16 BY Word16Is
  <2>2. Setting(line.rec) \in 1 .. 65 BY <1>4, KeepAliveSetting
  <2>3. Setting(line.rec) \in Word16 BY <2>1, <2>2, Zenon
  <2>4. QED BY <1>2, <1>4, <2>3
<1>5. CASE line.rec.key \notin TextKeys /\ line.rec.key # "timer_keepalive"
  <2>1. Setting(line.rec) = Cut16(line.rec.num) BY <1>5 DEF Setting
  <2>2. QED BY <1>1, <1>5, <2>1, CutIs
<1>6. QED BY <1>3, <1>4, <1>5

-----------------------------------------------------------------------------
(***************************************************************************)
(* What one more line does to what the lines before it made.               *)
(***************************************************************************)

LEMMA TookMore ==
  ASSUME NEW n \in Nat, NEW k, NEW v, Took(n, k, v), ~Is(n + 1, k)
  PROVE  Took(n + 1, k, v)
<1>1. \A i \in 1 .. n + 1 : i \in 1 .. n \/ i = n + 1 OBVIOUS
<1>2. CASE v = 0 /\ \A i \in 1 .. n : ~Is(i, k) BY <1>1, <1>2 DEF Took
<1>3. CASE \E i \in 1 .. n : /\ Is(i, k) /\ v = Setting(file[i].rec)
                             /\ \A j \in i + 1 .. n : ~Is(j, k)
  <2>1. PICK i \in 1 .. n : /\ Is(i, k) /\ v = Setting(file[i].rec)
                            /\ \A j \in i + 1 .. n : ~Is(j, k)
    BY <1>3
  <2>2. i \in 1 .. n + 1 OBVIOUS
  <2>3. \A j \in i + 1 .. n + 1 : j \in i + 1 .. n \/ j = n + 1 OBVIOUS
  <2>4. QED BY <2>1, <2>2, <2>3 DEF Took
<1>4. QED BY <1>2, <1>3 DEF Took

LEMMA TookNow ==
  ASSUME NEW n \in Nat, NEW k, Is(n + 1, k)
  PROVE  Took(n + 1, k, Setting(file[n + 1].rec))
<1>1. n + 1 \in 1 .. n + 1 /\ \A j \in (n + 1) + 1 .. n + 1 : FALSE OBVIOUS
<1>2. QED BY <1>1 DEF Took

\* A line without a token gives the last record its setting once more.
LEMMA TookAgain ==
  ASSUME NEW n \in Nat, NEW i \in 1 .. n, NEW k, Is(i, k), file[n + 1].kind # "record",
         \A j \in i + 1 .. n : file[j].kind # "record"
  PROVE  Took(n + 1, k, Setting(file[i].rec))
<1>1. i \in 1 .. n + 1 /\ \A j \in i + 1 .. n + 1 : j \in i + 1 .. n \/ j = n + 1 OBVIOUS
<1>2. \A j \in i + 1 .. n + 1 : ~Is(j, k) BY <1>1 DEF Is
<1>3. QED BY <1>1, <1>2 DEF Took

\* What was taken of a setting is a number of 16 bits.
LEMMA TookIs ==
  ASSUME file \in Seq(Lines), NEW n \in 0 .. Len(file), NEW k \in Keys, NEW v, Took(n, k, v)
  PROVE  v \in Word16
<1>1. CASE v = 0 BY <1>1, Word16Is
<1>2. CASE \E i \in 1 .. n : Is(i, k) /\ v = Setting(file[i].rec)
  <2>1. PICK i \in 1 .. n : Is(i, k) /\ v = Setting(file[i].rec) BY <1>2
  <2>2. file[i] \in Lines OBVIOUS
  <2>3. QED BY <2>1, <2>2, SettingIs DEF Is
<1>3. QED BY <1>1, <1>2 DEF Took

LEMMA PassedMore ==
  ASSUME NEW n \in Nat, Passed(n), ~Stops(n + 1)
  PROVE  Passed(n + 1)
<1>1. \A i \in 1 .. n + 1 : i \in 1 .. n \/ i = n + 1 OBVIOUS
<1>2. QED BY <1>1 DEF Passed

\* The lines that count, counted.
LEMMA TakenIs ==
  ASSUME NEW n \in Nat
  PROVE  /\ IsFiniteSet(Taken(n)) /\ Cardinality(Taken(n)) \in Nat
         /\ Cardinality(Taken(n + 1)) =
              Cardinality(Taken(n))
                + (IF file[n + 1].kind \in {"record", "bare"} THEN 1 ELSE 0)
<1>1. IsFiniteSet(1 .. n) BY FS_Interval
<1>2. Taken(n) \subseteq 1 .. n BY DEF Taken
<1>3. IsFiniteSet(Taken(n)) BY <1>1, <1>2, FS_Subset
<1>4. Cardinality(Taken(n)) \in Nat BY <1>3, FS_CardinalityType
<1>5. 1 .. n + 1 = (1 .. n) \cup {n + 1} /\ n + 1 \notin 1 .. n OBVIOUS
<1>6. n + 1 \notin Taken(n) BY <1>2, <1>5
<1>7. CASE file[n + 1].kind \in {"record", "bare"}
  <2>1. Taken(n + 1) = Taken(n) \cup {n + 1} BY <1>5, <1>7 DEF Taken
  <2>2. Cardinality(Taken(n + 1)) = Cardinality(Taken(n)) + 1
    BY <1>3, <1>6, <2>1, FS_AddElement
  <2>3. QED BY <1>3, <1>4, <1>7, <2>2
<1>8. CASE file[n + 1].kind \notin {"record", "bare"}
  <2>1. Taken(n + 1) = Taken(n) BY <1>5, <1>8 DEF Taken
  <2>2. QED BY <1>3, <1>4, <1>8, <2>1
<1>9. QED BY <1>7, <1>8

\* Records that were taken one too often fail the assertion.
LEMMA TooManyAssert ==
  ASSUME file \in Seq(Lines), NEW n \in 0 .. Len(file), Passed(n),
         Cardinality(Taken(n)) >= MaxRecords
  PROVE  Asserts
<1> DEFINE T == {i \in 1 .. Len(file) : file[i].kind \in {"record", "bare"} /\ Counts(i)}
<1>1. Len(file) \in Nat OBVIOUS
<1>2. IsFiniteSet(1 .. Len(file)) BY <1>1, FS_Interval
<1>3. IsFiniteSet(T) BY <1>2, FS_Subset
<1>4. Taken(n) \subseteq T
  <2>1. SUFFICES ASSUME NEW i \in Taken(n) PROVE i \in T OBVIOUS
  <2>2. i \in 1 .. n /\ file[i].kind \in {"record", "bare"} BY DEF Taken
  <2>3. i \in 1 .. Len(file) /\ \A j \in 1 .. i : j \in 1 .. n BY <1>1, <2>2
  <2>4. Counts(i) BY <2>3 DEF Passed, Counts
  <2>5. QED BY <2>2, <2>3, <2>4
<1>5. Cardinality(Taken(n)) <= Cardinality(T) BY <1>3, <1>4, FS_Subset
<1>6. Cardinality(T) \in Nat /\ Cardinality(Taken(n)) \in Nat
  BY <1>3, <1>4, FS_Subset, FS_CardinalityType
<1>7. Cardinality(T) >= MaxRecords BY <1>5, <1>6, BoundsAssumption
<1>8. QED BY <1>7 DEF Asserts

\* So does a line that is too long, and one without a token before any record.
LEMMA BadLineAsserts ==
  ASSUME NEW n \in Nat, n < Len(file), Passed(n), Stops(n + 1),
         file[n + 1].kind \in {"long", "bare"}, file \in Seq(Lines)
  PROVE  Asserts
<1>1. n + 1 \in 1 .. Len(file) /\ (n + 1) - 1 = n OBVIOUS
<1>2. \A j \in 1 .. (n + 1) - 1 : ~Stops(j) BY <1>1 DEF Passed
<1>3. QED BY <1>1, <1>2 DEF Asserts

-----------------------------------------------------------------------------
(***************************************************************************)
(* The first state, and one lemma for every action.                        *)
(***************************************************************************)

LEMMA InitInv == Init => Inv
<1> SUFFICES ASSUME Init PROVE Inv OBVIOUS
<1>1. PICK n \in 0 .. MaxLines : file \in [1 .. n -> Lines] BY DEF Init
<1>2. n \in Nat BY BoundsAssumption
<1>3. file \in Seq(Lines) /\ Len(file) = n BY <1>1, <1>2
<1>4. 0 \in Word16 BY Word16Is
<1>5. Typed
  BY <1>3, <1>4, BoundsAssumption DEF Init, Typed, TypeOK, NoServer, NoMedia
<1>6. Loading
  <2>1. pos = 0 /\ record = Garbage /\ count = 0 /\ confs = [k \in Keys |-> 0] BY DEF Init
  <2>2. 1 .. 0 = {} OBVIOUS
  <2>3. Passed(pos) /\ InHand BY <2>1, <2>2 DEF Passed, InHand
  <2>4. \A k \in Keys : Took(pos, k, confs[k]) BY <2>1, <2>2 DEF Took
  <2>5. Taken(pos) = {} BY <2>1, <2>2 DEF Taken
  <2>6. Cardinality(Taken(pos)) = 0 BY <2>5, FS_EmptySet
  <2>7. QED BY <2>1, <2>3, <2>4, <2>6, BoundsAssumption DEF Loading
<1>7. Loaded /\ Given /\ OnlyThoseStopIt
  BY DEF Init, Loaded, Given, OnlyThoseStopIt, Beyond, NoServer
<1>8. QED BY <1>5, <1>6, <1>7 DEF Inv

\* While the file stays what it is, so does all that is said of its lines.
LEMMA LinesStay ==
  ASSUME UNCHANGED file
  PROVE  /\ \A n : Passed(n)' <=> Passed(n)
         /\ \A n : Reached(n)' <=> Reached(n)
         /\ \A n, k, v : Took(n, k, v)' <=> Took(n, k, v)
         /\ \A n : Taken(n)' = Taken(n)
         /\ Asserts' <=> Asserts
<1>1. \A i : Stops(i)' <=> Stops(i) BY DEF Stops
<1>2. \A i : Counts(i)' <=> Counts(i) BY <1>1 DEF Counts
<1>3. \A n : Passed(n)' <=> Passed(n) BY <1>1 DEF Passed
<1>4. \A i, k : Is(i, k)' <=> Is(i, k) BY DEF Is
<1>5. \A n, k, v : Took(n, k, v)' <=> Took(n, k, v) BY <1>4 DEF Took
<1>6. \A n : Taken(n)' = Taken(n) BY DEF Taken
<1>7. \A n : Reached(n)' <=> Reached(n) BY <1>1, <1>3 DEF Reached
<1>8. Asserts' <=> Asserts BY <1>1, <1>2 DEF Asserts
<1>9. QED BY <1>3, <1>5, <1>6, <1>7, <1>8

\* Typed, when only the place in main changes.
LEMMA GotoTyped ==
  ASSUME Typed, NEW l \in {"fopen", "read", "control", "media", "hint", "switch", "socket"}
                              \cup Final,
         Goto(l), UNCHANGED <<loadVars, server, media>>, workers' \subseteq {"hint", "switch"}
  PROVE  Typed'
BY DEF Typed, TypeOK, Goto, loadVars

LEMMA OpenFileInv == Inv /\ OpenFile => Inv'
<1> SUFFICES ASSUME Inv, OpenFile PROVE Inv' OBVIOUS
<1>1. UNCHANGED <<faults, file, pos, record, count, confs, server, media, workers>>
      /\ pc = "fopen" /\ pc' = IF "file" \in faults THEN "crashed" ELSE "read"
  BY DEF OpenFile, Goto, loadVars
<1>2. Typed'
  BY GotoTyped DEF OpenFile, Inv, Final, loadVars, Typed, TypeOK
<1>3. Loading'
  <2>1. Loading BY DEF Inv
  <2>2. InHand' <=> InHand BY <1>1 DEF InHand
  <2>3. QED BY <1>1, <2>1, <2>2, LinesStay DEF Loading
<1>4. Loaded' BY <1>1 DEF Loaded, Beyond
<1>5. Given' BY <1>1 DEF Inv, Given, Beyond
<1>6. OnlyThoseStopIt' BY <1>1, LinesStay DEF Inv, OnlyThoseStopIt
<1>7. QED BY <1>2, <1>3, <1>4, <1>5, <1>6 DEF Inv

\* What load_config leaves behind, however it ends: the next state of a step to
\* control_plane_init.
LEMMA LeavesLoaded ==
  ASSUME Inv, pc = "read", NEW n \in 0 .. Len(file), Reached(n),
         \A k \in Keys : Took(n, k, confs[k]),
         Goto("control"), UNCHANGED <<confs, server, media, workers>>
  PROVE  Loading' /\ Loaded' /\ Given' /\ OnlyThoseStopIt'
<1>1. UNCHANGED <<faults, file, confs, server, media, workers>> /\ pc' = "control" BY DEF Goto
<1>2. Loading' BY <1>1 DEF Loading
<1>3. Loaded'
  <2>1. file \in Seq(Lines) /\ "f-name" \in Keys BY DEF Inv, Typed, Keys, TextKeys
  <2>2. confs["f-name"] \in Word16 /\ Took(n, "f-name", confs["f-name"]) BY <2>1, TookIs
  <2>3. n \in 0 .. Len(file)' BY <1>1
  <2>4. Reached(n)' /\ Took(n, "f-name", confs["f-name"])'
        /\ \A k \in Keys \ {"f-name"} : Took(n, k, confs[k])'
    BY <1>1, <2>2, LinesStay
  <2>5. QED BY <1>1, <2>2, <2>3, <2>4 DEF Loaded, Beyond
<1>4. Given' BY <1>1 DEF Inv, Given, Beyond
<1>5. OnlyThoseStopIt' BY <1>1 DEF OnlyThoseStopIt
<1>6. QED BY <1>2, <1>3, <1>4, <1>5

LEMMA EndOfFileInv == Inv /\ EndOfFile => Inv'
<1> SUFFICES ASSUME Inv, EndOfFile PROVE Inv' OBVIOUS
<1>1. pc = "read" /\ pos = Len(file) /\ Goto("control") /\ UNCHANGED <<loadVars, server, media, workers>>
  BY DEF EndOfFile
<1>2. Typed' BY <1>1, GotoTyped DEF Inv, Typed, TypeOK
<1>3. Reached(pos) /\ \A k \in Keys : Took(pos, k, confs[k])
  <2>1. pos \in 0 .. Len(file) BY DEF Inv, Typed, TypeOK
  <2>2. QED BY <1>1, <2>1 DEF Inv, Loading, Reached
<1>4. pos \in 0 .. Len(file) BY DEF Inv, Typed, TypeOK
<1>5. UNCHANGED <<confs, server, media, workers>> BY <1>1 DEF loadVars
<1>6. QED BY <1>1, <1>2, <1>3, <1>4, <1>5, LeavesLoaded DEF Inv

\* The line after those that were read, and where it leaves the file.
LEMMA NextLine ==
  ASSUME Inv, pc = "read", pos < Len(file)
  PROVE  /\ pos \in Nat /\ pos + 1 \in 0 .. Len(file) /\ pos + 1 \in 1 .. Len(file)
         /\ pos \in 0 .. Len(file) /\ (pos + 1) - 1 = pos
         /\ file[pos + 1] \in Lines /\ file \in Seq(Lines)
         /\ Passed(pos) /\ \A k \in Keys : Took(pos, k, confs[k])
         /\ InHand /\ count = Cardinality(Taken(pos)) /\ count \in Nat /\ count < MaxRecords
         /\ confs \in [Keys -> Word16]
<1>1. pos \in 0 .. Len(file) /\ file \in Seq(Lines) /\ confs \in [Keys -> Word16]
      /\ count \in 0 .. MaxRecords
  BY DEF Inv, Typed, TypeOK
<1>2. Loading BY DEF Inv
<1>3. count \in Nat BY <1>1, BoundsAssumption
<1>4. pos \in Nat /\ pos + 1 \in 1 .. Len(file) /\ pos + 1 \in 0 .. Len(file)
      /\ (pos + 1) - 1 = pos
  BY <1>1
<1>5. file[pos + 1] \in Lines BY <1>1, <1>4
<1>6. QED BY <1>1, <1>2, <1>3, <1>4, <1>5 DEF Loading

\* A line that was read keeps the state well typed.
LEMMA ReadTyped ==
  ASSUME Inv, pc = "read", pos < Len(file), pos' = pos + 1,
         NEW l \in {"read", "control", "crashed"}, Goto(l),
         record' = Garbage \/ record' \in Records,
         confs' \in [Keys -> Word16], count' \in 0 .. MaxRecords,
         UNCHANGED <<server, media, workers>>
  PROVE  Typed'
<1>1. pos + 1 \in 0 .. Len(file) BY NextLine
<1>2. server = NoServer BY DEF Inv, Given
<1>3. ~server.set BY <1>2 DEF NoServer
<1>4. QED BY <1>1, <1>3 DEF Inv, Typed, TypeOK, Goto, Final

\* A line after which load_config reads on.
LEMMA ReadsOn ==
  ASSUME Inv, pc = "read", pos < Len(file), pos' = pos + 1, Goto("read"),
         ~Stops(pos + 1), InHand',
         count' = count + (IF file[pos + 1].kind \in {"record", "bare"} THEN 1 ELSE 0),
         count' < MaxRecords,
         \A k \in Keys : Took(pos + 1, k, confs'[k]),
         UNCHANGED <<server, media, workers>>
  PROVE  Loading' /\ Loaded' /\ Given' /\ OnlyThoseStopIt'
<1>1. UNCHANGED <<faults, file, server, media, workers>> /\ pc' = "read" BY DEF Goto
<1>2. Passed(pos + 1) BY NextLine, PassedMore
<1>3. count' = Cardinality(Taken(pos + 1)) BY NextLine, TakenIs
<1>4. \A k \in Keys : Took(pos, k, confs[k])' BY <1>1, LinesStay
<1>5. Passed(pos)' /\ Taken(pos)' = Taken(pos + 1) BY <1>1, <1>2, LinesStay
<1>6. Loading' BY <1>1, <1>3, <1>4, <1>5 DEF Loading
<1>7. Loaded' BY <1>1 DEF Loaded, Beyond
<1>8. Given' BY <1>1 DEF Inv, Given, Beyond
<1>9. OnlyThoseStopIt' BY <1>1 DEF OnlyThoseStopIt
<1>10. QED BY <1>6, <1>7, <1>8, <1>9

\* A line that fails an assertion.
LEMMA ReadCrashes ==
  ASSUME Inv, pc = "read", Goto("crashed"), Asserts, UNCHANGED <<server, media, workers>>
  PROVE  Loading' /\ Loaded' /\ Given' /\ OnlyThoseStopIt'
<1>1. UNCHANGED <<faults, file, server, media, workers>> /\ pc' = "crashed" BY DEF Goto
<1>2. Loading' /\ Loaded' BY <1>1 DEF Loading, Loaded, Beyond
<1>3. Given' BY <1>1 DEF Inv, Given, Beyond
<1>4. OnlyThoseStopIt' BY <1>1, LinesStay DEF OnlyThoseStopIt
<1>5. QED BY <1>2, <1>3, <1>4

\* A line that ends load_config.
LEMMA ReadStops ==
  ASSUME Inv, pc = "read", pos < Len(file), Stops(pos + 1), Goto("control"),
         UNCHANGED <<confs, server, media, workers>>
  PROVE  Loading' /\ Loaded' /\ Given' /\ OnlyThoseStopIt'
<1>1. Reached(pos) BY NextLine DEF Reached
<1>2. QED BY <1>1, NextLine, LeavesLoaded

\* A record with a known key, read now or in hand since an earlier line.
LEMMA TakesKnown ==
  ASSUME Inv, pc = "read", pos < Len(file), pos' = pos + 1,
         file[pos + 1].kind \in {"record", "bare"}, ~Stops(pos + 1),
         NEW i \in 1 .. pos + 1, file[i].kind = "record", file[i].rec.key \in Keys,
         \A j \in i + 1 .. pos + 1 : file[j].kind # "record",
         confs' = [confs EXCEPT ![file[i].rec.key] = Setting(file[i].rec)],
         count' = count + 1, record' = file[i].rec,
         Goto(IF count + 1 < MaxRecords THEN "read" ELSE "crashed"),
         UNCHANGED <<server, media, workers>>
  PROVE  Inv'
<1> DEFINE r == file[i].rec
<1>1. file[i] \in Lines /\ i \in Nat BY NextLine
<1>2. Setting(r) \in Word16 /\ r \in Records BY <1>1, SettingIs, LineIs
<1>3. Typed'
  <2>1. confs' \in [Keys -> Word16] BY <1>2, NextLine
  <2>2. count' \in 0 .. MaxRecords BY NextLine, BoundsAssumption
  <2>3. CASE count + 1 < MaxRecords BY <1>2, <2>1, <2>2, <2>3, ReadTyped
  <2>4. CASE ~(count + 1 < MaxRecords) BY <1>2, <2>1, <2>2, <2>4, ReadTyped
  <2>5. QED BY <2>3, <2>4
<1>4. CASE count + 1 < MaxRecords
  <2>1. Goto("read") BY <1>4
  <2>2. InHand'
    <3>1. file' = file BY <2>1 DEF Goto
    <3>2. QED BY <3>1 DEF InHand, Known
  <2>3. \A k \in Keys : Took(pos + 1, k, confs'[k])
    <3>1. SUFFICES ASSUME NEW k \in Keys PROVE Took(pos + 1, k, confs'[k]) OBVIOUS
    <3>2. CASE k = r.key
      <4>1. confs'[k] = Setting(r) BY <3>2, NextLine
      <4>2. Is(i, k) BY <3>2 DEF Is
      <4>3. \A j \in i + 1 .. pos + 1 : ~Is(j, k) BY DEF Is
      <4>4. QED BY <4>1, <4>2, <4>3 DEF Took
    <3>3. CASE k # r.key
      <4>1. confs'[k] = confs[k] BY <3>3, NextLine
      <4>2. ~Is(pos + 1, k)
        <5>1. CASE i = pos + 1 BY <3>3, <5>1 DEF Is
        <5>2. CASE i # pos + 1
          <6>1. pos + 1 \in i + 1 .. pos + 1 BY <5>2, NextLine
          <6>2. QED BY <6>1 DEF Is
        <5>3. QED BY <5>1, <5>2
      <4>3. QED BY <4>1, <4>2, NextLine, TookMore
    <3>4. QED BY <3>2, <3>3
  <2>4. count' < MaxRecords BY <1>4
  <2>5. count' = count + (IF file[pos + 1].kind \in {"record", "bare"} THEN 1 ELSE 0) OBVIOUS
  <2>6. QED BY <1>3, <2>1, <2>2, <2>3, <2>4, <2>5, ReadsOn DEF Inv
<1>5. CASE ~(count + 1 < MaxRecords)
  <2>1. Goto("crashed") BY <1>5
  <2>2. Passed(pos + 1) BY NextLine, PassedMore
  <2>3. Cardinality(Taken(pos + 1)) >= MaxRecords
    <3>1. Cardinality(Taken(pos + 1)) = count + 1 BY NextLine, TakenIs
    <3>2. MaxRecords \in Nat /\ count \in Nat BY NextLine, BoundsAssumption
    <3>3. QED BY <1>5, <3>1, <3>2
  <2>4. Asserts BY <2>2, <2>3, NextLine, TooManyAssert
  <2>5. QED BY <1>3, <2>1, <2>4, ReadCrashes DEF Inv
<1>6. QED BY <1>4, <1>5

LEMMA ReadLineInv == Inv /\ ReadLine => Inv'
<1> SUFFICES ASSUME Inv, ReadLine PROVE Inv' OBVIOUS
<1> DEFINE line == file[pos + 1]
<1>1. pc = "read" /\ pos < Len(file) /\ pos' = pos + 1
      /\ UNCHANGED <<server, media, workers>>
  BY DEF ReadLine
<1>2. pos \in Nat /\ line \in Lines /\ pos + 1 \in 1 .. Len(file)
      /\ confs \in [Keys -> Word16] /\ count \in 0 .. MaxRecords
      /\ (record = Garbage \/ record \in Records)
  BY <1>1, NextLine DEF Inv, Typed, TypeOK
<1>3. CASE line.kind = "skip" /\ Goto("read") /\ UNCHANGED <<record, count, confs>>
  <2>1. ~Stops(pos + 1) BY <1>3 DEF Stops
  <2>2. Typed' BY <1>1, <1>2, <1>3, ReadTyped
  <2>3. InHand'
    <3>1. file' = file /\ record' = record BY <1>3 DEF Goto
    <3>2. CASE record = Garbage /\ \A i \in 1 .. pos : file[i].kind # "record"
      <4>1. \A i \in 1 .. pos + 1 : i \in 1 .. pos \/ i = pos + 1 BY <1>2
      <4>2. QED BY <1>1, <1>3, <3>1, <3>2, <4>1 DEF InHand
    <3>3. CASE \E i \in 1 .. pos : /\ file[i].kind = "record" /\ record = file[i].rec
                                   /\ Known(record)
                                   /\ \A j \in i + 1 .. pos : file[j].kind # "record"
      <4>1. PICK i \in 1 .. pos : /\ file[i].kind = "record" /\ record = file[i].rec
                                  /\ Known(record)
                                  /\ \A j \in i + 1 .. pos : file[j].kind # "record"
        BY <3>3
      <4>2. i \in 1 .. pos + 1 BY <1>2
      <4>3. \A j \in i + 1 .. pos + 1 : j \in i + 1 .. pos \/ j = pos + 1 BY <1>2
      <4>4. QED BY <1>1, <1>3, <3>1, <4>1, <4>2, <4>3 DEF InHand, Known
    <3>4. QED BY <1>1, <3>2, <3>3, NextLine DEF InHand
  <2>4. \A k \in Keys : Took(pos + 1, k, confs[k])
    BY <1>1, <1>3, NextLine, TookMore DEF Is
  <2>5. count' < MaxRecords
        /\ count' = count + (IF line.kind \in {"record", "bare"} THEN 1 ELSE 0)
    BY <1>1, <1>3, NextLine
  <2>6. \A k \in Keys : Took(pos + 1, k, confs'[k]) BY <1>3, <2>4
  <2>7. QED BY <1>1, <1>3, <2>1, <2>2, <2>3, <2>5, <2>6, ReadsOn DEF Inv
<1>4. CASE line.kind = "short" /\ Goto("control") /\ UNCHANGED <<record, count, confs>>
  <2>1. Stops(pos + 1) BY <1>4 DEF Stops
  <2>2. Typed' BY <1>1, <1>2, <1>4, ReadTyped
  <2>3. QED BY <1>1, <1>4, <2>1, <2>2, ReadStops DEF Inv
<1>5. CASE line.kind = "long" /\ Goto("crashed") /\ UNCHANGED <<record, count, confs>>
  <2>1. Stops(pos + 1) BY <1>5 DEF Stops
  <2>2. Typed' BY <1>1, <1>2, <1>5, ReadTyped
  <2>3. Asserts BY <1>1, <1>5, <2>1, NextLine, BadLineAsserts
  <2>4. QED BY <1>1, <1>5, <2>2, <2>3, ReadCrashes DEF Inv
<1>6. CASE line.kind = "bare" /\ TakeRecord(record) /\ UNCHANGED record
  <2>1. CASE record = Garbage
    <3>1. \A i \in 1 .. pos : file[i].kind # "record"
      <4>1. ASSUME NEW i \in 1 .. pos, file[i].kind = "record", record = file[i].rec
            PROVE  FALSE
        <5>1. file[i] \in Lines BY <1>1, <1>2, NextLine
        <5>2. record \in Records BY <4>1, <5>1, LineIs
        <5>3. record.key \in Keys \cup {"unknown"} BY <5>2 DEF Records
        <5>4. QED BY <2>1, <5>3 DEF Garbage, Keys, NumberKeys, TextKeys
      <4>2. QED BY <1>1, <4>1, NextLine DEF InHand
    <3>2. Stops(pos + 1) BY <1>1, <1>6, <3>1, NextLine DEF Stops
    <3>3. UNCHANGED <<count, confs>> /\ (Goto("control") \/ Goto("crashed"))
      BY <1>6, <2>1 DEF TakeRecord
    <3>4. CASE Goto("control")
      <4>1. Typed' BY <1>1, <1>2, <1>6, <3>3, <3>4, ReadTyped
      <4>2. QED BY <1>1, <3>2, <3>3, <3>4, <4>1, ReadStops DEF Inv
    <3>5. CASE Goto("crashed")
      <4>1. Typed' BY <1>1, <1>2, <1>6, <3>3, <3>5, ReadTyped
      <4>2. Asserts BY <1>1, <1>6, <3>2, NextLine, BadLineAsserts
      <4>3. QED BY <1>1, <3>5, <4>1, <4>2, ReadCrashes DEF Inv
    <3>6. QED BY <3>3, <3>4, <3>5
  <2>2. CASE record # Garbage
    <3>1. PICK i \in 1 .. pos : /\ file[i].kind = "record" /\ record = file[i].rec
                                /\ Known(record)
                                /\ \A j \in i + 1 .. pos : file[j].kind # "record"
      BY <1>1, <2>2, NextLine DEF InHand
    <3>2. i \in 1 .. pos + 1 /\ \A j \in i + 1 .. pos + 1 : j \in i + 1 .. pos \/ j = pos + 1
      BY <1>2
    <3>3. \A j \in i + 1 .. pos + 1 : file[j].kind # "record" BY <1>6, <3>1, <3>2
    <3>4. ~Stops(pos + 1) BY <1>1, <1>6, <3>1, NextLine DEF Stops
    <3>5. confs' = [confs EXCEPT ![file[i].rec.key] = Setting(file[i].rec)]
          /\ count' = count + 1
          /\ Goto(IF count + 1 < MaxRecords THEN "read" ELSE "crashed")
      BY <1>6, <2>2, <3>1 DEF TakeRecord
    <3>6. file[i].rec.key \in Keys /\ record' = file[i].rec BY <1>6, <3>1 DEF Known
    <3>7. QED BY <1>1, <1>6, <3>1, <3>2, <3>3, <3>4, <3>5, <3>6, TakesKnown
  <2>3. QED BY <2>1, <2>2
<1>7. CASE line.kind = "record" /\ record' = line.rec /\ TakeRecord(line.rec)
  <2>1. line.rec \in Records BY <1>2, <1>7, LineIs
  <2>2. line.rec.key \in Keys \cup {"unknown"} BY <2>1 DEF Records
  <2>3. line.rec # Garbage BY <2>2 DEF Garbage, Keys, NumberKeys, TextKeys
  <2>4. "unknown" \notin Keys BY DEF Keys, NumberKeys, TextKeys
  <2>5. CASE line.rec.key \in Keys
    <3>1. ~Stops(pos + 1) BY <1>7, <2>4, <2>5 DEF Stops
    <3>2. confs' = [confs EXCEPT ![line.rec.key] = Setting(line.rec)]
          /\ count' = count + 1
          /\ Goto(IF count + 1 < MaxRecords THEN "read" ELSE "crashed")
      BY <1>7, <2>3, <2>5 DEF TakeRecord, Known
    <3>3. pos + 1 \in 1 .. pos + 1 /\ \A j \in (pos + 1) + 1 .. pos + 1 : FALSE BY <1>2
    <3>4. \A j \in (pos + 1) + 1 .. pos + 1 : file[j].kind # "record" BY <3>3
    <3>5. QED BY <1>1, <1>7, <2>5, <3>1, <3>2, <3>3, <3>4, TakesKnown
  <2>6. CASE line.rec.key \notin Keys
    <3>1. Stops(pos + 1) BY <1>7, <2>2, <2>6 DEF Stops
    <3>2. UNCHANGED <<count, confs>> /\ Goto("control")
      BY <1>7, <2>3, <2>6 DEF TakeRecord, Known
    <3>3. Typed' BY <1>1, <1>2, <1>7, <2>1, <3>2, ReadTyped
    <3>4. QED BY <1>1, <3>1, <3>2, <3>3, ReadStops DEF Inv
  <2>7. QED BY <2>5, <2>6
<1>8. QED BY <1>1, <1>3, <1>4, <1>5, <1>6, <1>7 DEF ReadLine

LEMMA ControlInitInv == Inv /\ ControlInit => Inv'
<1> SUFFICES ASSUME Inv, ControlInit PROVE Inv' OBVIOUS
<1>1. pc = "control" /\ UNCHANGED <<faults, file, pos, record, count, media, workers>>
  BY DEF ControlInit, Goto
<1>2. CASE "host" \in faults /\ Goto("crashed") /\ UNCHANGED <<server, confs>>
  <2>1. Typed' BY <1>1, <1>2 DEF Inv, Typed, TypeOK, Goto, Final
  <2>2. Loading' /\ Loaded' BY <1>2 DEF Goto, Loading, Loaded, Beyond
  <2>3. Given' BY <1>1, <1>2 DEF Inv, Given, Goto, Beyond
  <2>4. OnlyThoseStopIt' BY <1>1, <1>2 DEF OnlyThoseStopIt
  <2>5. QED BY <2>1, <2>2, <2>3, <2>4 DEF Inv
<1>3. CASE /\ server' = ServerConfs /\ confs' = [confs EXCEPT !["f-name"] = NameCut]
           /\ Goto("media")
  <2>1. PICK n \in 0 .. Len(file), v \in Word16 :
          /\ Reached(n) /\ Took(n, "f-name", v)
          /\ \A k \in Keys \ {"f-name"} : Took(n, k, confs[k])
          /\ confs["f-name"] = v
    BY <1>1 DEF Inv, Loaded
  <2>2. v \in Int /\ 0 <= v /\ v <= 65535 /\ UserLth \in Nat
    BY Word16Is, BoundsAssumption
  <2>3. NameCut = Cut(v) /\ Cut(v) = IF v <= UserLth THEN v ELSE UserLth
    BY <2>1, <2>2, MinOfTwo DEF NameCut, Cut
  <2>4. Cut(v) \in Word16 /\ Cut(v) <= UserLth BY <2>2, <2>3, Word16Is
  <2>5. {"f-name", "timer_keepalive", "timer_offline"} \subseteq Keys /\ confs \in [Keys -> Word16]
    BY DEF Keys, TextKeys, NumberKeys, Inv, Typed, TypeOK
  <2>6. confs' \in [Keys -> Word16] /\ \A k \in Keys \ {"f-name"} : confs'[k] = confs[k]
    BY <1>3, <2>3, <2>4, <2>5
  <2>7. server'.set /\ server'.ka = confs'["timer_keepalive"]
        /\ server'.offline = confs'["timer_offline"]
        /\ server'.name = [lth |-> Cut(v),
                           ends |-> Cut(v) < UserLth \/ confs'["timer_keepalive"] = 0]
    BY <1>3, <2>3, <2>5, <2>6 DEF ServerConfs, ServerName
  <2>8. Typed'
    BY <1>1, <1>3, <2>4, <2>6, <2>7 DEF Inv, Typed, TypeOK, Goto
  <2>9. Loading' BY <1>3 DEF Goto, Loading
  <2>10. Loaded'
    <3>1. pc' = "media" /\ n \in 0 .. Len(file') BY <1>1, <1>3 DEF Goto
    <3>2. Reached(n)' /\ Took(n, "f-name", v)' BY <1>1, <2>1, LinesStay
    <3>3. \A k \in Keys \ {"f-name"} : Took(n, k, confs[k])'
      BY <1>1, <2>1, <2>6, LinesStay
    <3>4. QED BY <2>7, <3>1, <3>2, <3>3 DEF Loaded
  <2>11. Given' BY <1>1, <1>3, <2>7 DEF Inv, Given, Goto, Beyond
  <2>12. OnlyThoseStopIt' BY <1>3 DEF OnlyThoseStopIt, Goto
  <2>13. QED BY <2>8, <2>9, <2>10, <2>11, <2>12 DEF Inv
<1>4. QED BY <1>1, <1>2, <1>3 DEF ControlInit

\* A step after control_plane_init, up to the loop, leaves what was loaded.
LEMMA LoadedStays ==
  ASSUME Loaded, pc \in Beyond, pc' \in Beyond, UNCHANGED <<file, confs, server>>
  PROVE  Loaded'
<1>1. PICK n \in 0 .. Len(file), v \in Word16 :
        /\ Reached(n) /\ Took(n, "f-name", v)
        /\ \A k \in Keys \ {"f-name"} : Took(n, k, confs[k])
        /\ server.name = [lth |-> Cut(v),
                          ends |-> Cut(v) < UserLth \/ confs["timer_keepalive"] = 0]
  BY DEF Loaded, Beyond
<1>2. n \in 0 .. Len(file') /\ Reached(n)' /\ Took(n, "f-name", v)'
      /\ \A k \in Keys \ {"f-name"} : Took(n, k, confs[k])'
  BY <1>1, LinesStay
<1>3. pc' # "control" BY DEF Beyond
<1>4. QED BY <1>1, <1>2, <1>3 DEF Loaded

LEMMA MediaInitInv == Inv /\ MediaInit => Inv'
<1> SUFFICES ASSUME Inv, MediaInit PROVE Inv' OBVIOUS
<1>1. /\ pc = "media" /\ pc' = "hint"
      /\ UNCHANGED <<faults, file, pos, record, count, confs, server, workers>>
      /\ media' = [set |-> TRUE, ip |-> confs["media_ip"], prompt |-> "sound" \notin faults]
  BY DEF MediaInit, Goto, loadVars
<1>2. Typed' BY <1>1 DEF Inv, Typed, TypeOK
<1>3. Loading' BY <1>1 DEF Loading
<1>4. Loaded' BY <1>1, LoadedStays DEF Inv, Beyond
<1>5. Given' BY <1>1 DEF Inv, Given, Beyond
<1>6. OnlyThoseStopIt' BY <1>1 DEF OnlyThoseStopIt
<1>7. QED BY <1>2, <1>3, <1>4, <1>5, <1>6 DEF Inv

LEMMA SpawnInv ==
  ASSUME Inv, NEW t \in {"hint", "switch"}, NEW l, Spawn(t, l),
         l = IF t = "hint" THEN "switch" ELSE "socket"
  PROVE  Inv'
<1>1. /\ pc = t /\ Goto(l) /\ UNCHANGED <<loadVars, server, media>>
      /\ workers' = IF t \in faults THEN workers ELSE workers \cup {t}
  BY DEF Spawn
<1>2. UNCHANGED <<file, faults, confs, server, media>> /\ pc' = l BY <1>1 DEF Goto, loadVars
<1>3. Typed' BY <1>1, GotoTyped DEF Inv, Typed, TypeOK
<1>4. Loading' BY <1>2 DEF Loading
<1>5. Loaded' BY <1>1, <1>2, LoadedStays DEF Inv, Beyond
<1>6. workers' = IF l = "socket" THEN {"hint", "switch"} \ faults ELSE {"hint"} \ faults
  <2>1. workers = IF t = "switch" THEN {"hint"} \ faults ELSE {} BY <1>1 DEF Inv, Given
  <2>2. QED BY <1>1, <2>1
<1>7. Given' BY <1>1, <1>2, <1>6 DEF Inv, Given, Beyond
<1>8. OnlyThoseStopIt' BY <1>2 DEF OnlyThoseStopIt
<1>9. QED BY <1>3, <1>4, <1>5, <1>7, <1>8 DEF Inv

LEMMA OpenSocketInv == Inv /\ OpenSocket => Inv'
<1> SUFFICES ASSUME Inv, OpenSocket PROVE Inv' OBVIOUS
<1>1. pc = "socket" /\ UNCHANGED <<loadVars, server, media>> BY DEF OpenSocket
<1>2. workers = {"hint", "switch"} \ faults BY <1>1 DEF Inv, Given
<1>3. CASE "socket" \in faults /\ Goto("ended") /\ workers' = {}
  <2>1. Typed' BY <1>1, <1>3, GotoTyped DEF Inv, Final
  <2>2. Loading' /\ Loaded' BY <1>3 DEF Goto, Loading, Loaded, Beyond
  <2>3. Given' BY <1>3 DEF Given, Goto, Beyond
  <2>4. OnlyThoseStopIt' BY <1>3 DEF OnlyThoseStopIt, Goto
  <2>5. QED BY <2>1, <2>2, <2>3, <2>4 DEF Inv
<1>4. CASE "socket" \notin faults /\ Goto("loop") /\ UNCHANGED workers
  <2>1. UNCHANGED <<file, faults, confs, server, media>> /\ pc' = "loop"
    BY <1>1, <1>4 DEF Goto, loadVars
  <2>2. Typed' BY <1>1, <1>4, GotoTyped DEF Inv, Final, Typed, TypeOK
  <2>3. Loading' BY <2>1 DEF Loading
  <2>4. Loaded' BY <1>1, <2>1, LoadedStays DEF Inv, Beyond
  <2>5. Given' BY <1>1, <1>2, <1>4, <2>1 DEF Inv, Given, Beyond
  <2>6. OnlyThoseStopIt' BY <1>2, <1>4, <2>1 DEF OnlyThoseStopIt
  <2>7. QED BY <2>2, <2>3, <2>4, <2>5, <2>6 DEF Inv
<1>5. QED BY <1>3, <1>4 DEF OpenSocket

LEMMA StutterInv == Inv /\ UNCHANGED vars => Inv'
<1> SUFFICES ASSUME Inv, UNCHANGED vars PROVE Inv' OBVIOUS
<1>1. UNCHANGED <<pc, faults, file, pos, record, count, confs, server, media, workers>>
  BY DEF vars, mainVars, loadVars
<1>2. Typed' BY <1>1 DEF Inv, Typed, TypeOK
<1>3. Loading'
  <2>1. InHand' <=> InHand BY <1>1 DEF InHand
  <2>2. QED BY <1>1, <2>1, LinesStay DEF Inv, Loading
<1>4. Loaded' BY <1>1, LinesStay DEF Inv, Loaded
<1>5. Given' BY <1>1 DEF Inv, Given
<1>6. OnlyThoseStopIt' BY <1>1, LinesStay DEF Inv, OnlyThoseStopIt
<1>7. QED BY <1>2, <1>3, <1>4, <1>5, <1>6 DEF Inv

-----------------------------------------------------------------------------
(***************************************************************************)
(* What the invariant says to a reader of the file.                        *)
(***************************************************************************)

\* Where load_config got to, the lines that count are those before the first bad
\* one, and what was taken of a setting is what its last line that counts means.
LEMMA TookLast ==
  ASSUME file \in Seq(Lines), NEW n \in Nat, Reached(n), NEW k \in Keys, NEW v, Took(n, k, v)
  PROVE  \/ v = 0 /\ LinesFor(k) = {}
         \/ /\ LinesFor(k) # {}
            /\ file[Max(LinesFor(k))] \in Lines /\ Is(Max(LinesFor(k)), k)
            /\ v = Setting(file[Max(LinesFor(k))].rec)
<1>1. n \in 0 .. Len(file) /\ Len(file) \in Nat BY DEF Reached
<1>2. \A i \in 1 .. Len(file) : Counts(i) <=> i <= n
  <2>1. SUFFICES ASSUME NEW i \in 1 .. Len(file) PROVE Counts(i) <=> i <= n OBVIOUS
  <2>2. CASE i <= n
    <3>1. \A j \in 1 .. i : j \in 1 .. n BY <1>1, <2>2
    <3>2. QED BY <2>2, <3>1 DEF Reached, Passed, Counts
  <2>3. CASE ~(i <= n)
    <3>1. n + 1 \in 1 .. i /\ n # Len(file) BY <1>1, <2>3
    <3>2. QED BY <2>3, <3>1 DEF Reached, Counts
  <2>4. QED BY <2>2, <2>3
<1>3. LinesFor(k) = {i \in 1 .. n : Is(i, k)}
  <2>1. \A i : i \in 1 .. n <=> i \in 1 .. Len(file) /\ i <= n BY <1>1
  <2>2. QED BY <1>2, <2>1 DEF LinesFor, Settles, Is
<1>4. CASE v = 0 /\ \A i \in 1 .. n : ~Is(i, k) BY <1>3, <1>4
<1>5. CASE \E i \in 1 .. n : /\ Is(i, k) /\ v = Setting(file[i].rec)
                             /\ \A j \in i + 1 .. n : ~Is(j, k)
  <2>1. PICK i \in 1 .. n : /\ Is(i, k) /\ v = Setting(file[i].rec)
                            /\ \A j \in i + 1 .. n : ~Is(j, k)
    BY <1>5
  <2>2. i \in LinesFor(k) BY <1>3, <2>1
  <2>3. \A y \in LinesFor(k) : i >= y /\ y \in Int
    <3>1. SUFFICES ASSUME NEW y \in LinesFor(k), ~(i >= y) PROVE FALSE BY <1>3
    <3>2. y \in 1 .. n /\ Is(y, k) BY <1>3
    <3>3. y \in i + 1 .. n BY <1>1, <3>1, <3>2
    <3>4. QED BY <2>1, <3>2, <3>3
  <2>4. Max(LinesFor(k)) = i
    <3>1. \A x \in LinesFor(k) : (\A y \in LinesFor(k) : x >= y) => x = i BY <2>2, <2>3
    <3>2. QED BY <2>2, <2>3, <3>1 DEF Max
  <2>5. file[i] \in Lines BY <1>1
  <2>6. QED BY <2>1, <2>2, <2>4, <2>5
<1>6. QED BY <1>4, <1>5 DEF Took

\* In short, for each setting that is not divided.
LEMMA TookMeans ==
  ASSUME file \in Seq(Lines), NEW n \in Nat, Reached(n),
         NEW k \in Keys \ {"timer_keepalive"}, NEW v, Took(n, k, v)
  PROVE  /\ v = IF LinesFor(k) = {} THEN 0 ELSE Cut16(Meant(k))
         /\ k \in TextKeys /\ LinesFor(k) # {} => v = Meant(k)
<1> DEFINE l == Max(LinesFor(k))
<1>1. CASE v = 0 /\ LinesFor(k) = {} BY <1>1
<1>2. CASE LinesFor(k) # {} /\ file[l] \in Lines /\ Is(l, k) /\ v = Setting(file[l].rec)
  <2>1. file[l].kind = "record" /\ file[l].rec.key = k BY <1>2 DEF Is
  <2>2. Meant(k) = IF k \in TextKeys THEN file[l].rec.lth ELSE file[l].rec.num BY DEF Meant
  <2>3. QED BY <1>2, <2>1, <2>2, SettingIs
<1>3. QED BY <1>1, <1>2, TookLast

LEMMA KeepAliveMeans ==
  ASSUME file \in Seq(Lines), NEW n \in Nat, Reached(n),
         NEW k, k = "timer_keepalive", NEW v, Took(n, k, v)
  PROVE  /\ LinesFor(k) = {} => v = 0
         /\ LinesFor(k) # {} /\ Meant(k) \in Word16 => v = Max({1, Meant(k) \div 1000})
<1> DEFINE l == Max(LinesFor(k))
           s == Setting(file[l].rec)
<1>1. k \in Keys /\ k \notin TextKeys BY DEF Keys, NumberKeys, TextKeys
<1>2. CASE v = 0 /\ LinesFor(k) = {} BY <1>2
<1>3. CASE LinesFor(k) # {} /\ file[l] \in Lines /\ Is(l, k) /\ v = s
  <2>1. file[l].kind = "record" /\ file[l].rec.key = k BY <1>3 DEF Is
  <2>2. Meant(k) = file[l].rec.num BY <1>1 DEF Meant
  <2> DEFINE line == file[l]
  <2>3. line \in Lines /\ line.kind = "record" /\ line.rec.key = "timer_keepalive"
    BY <1>3, <2>1
  <2>4. Meant(k) = line.rec.num /\ v = Setting(line.rec) BY <1>3, <2>2
  <2> HIDE DEF l, s, line
  <2>5. line.rec.num \in Word16 => Setting(line.rec) = Max({1, line.rec.num \div 1000})
    BY <2>3, KeepAliveSetting
  <2> DEFINE Floored(x) == Max({1, x \div 1000})
  <2>6. Meant(k) \in Word16 => v = Floored(Meant(k))
    <3> HIDE DEF Floored
    <3>1. line.rec.num \in Word16 => Setting(line.rec) = Floored(line.rec.num)
      BY <2>5 DEF Floored
    <3>2. QED BY <2>4, <3>1
  <2>7. QED BY <1>3, <2>6
<1>4. QED BY <1>1, <1>2, <1>3, TookLast

-----------------------------------------------------------------------------
(***************************************************************************)
(* The theorems.                                                           *)
(***************************************************************************)

\* The inductive invariant of the start-up: what the lines read so far made of
\* every setting, what chRecord holds, and what the planes were given.
THEOREM StartupInvariance == Spec => []Inv
<1>1. Inv /\ Spawn("hint", "switch") => Inv' BY SpawnInv
<1>2. Inv /\ Spawn("switch", "socket") => Inv' BY SpawnInv
<1>3. Inv /\ [Next]_vars => Inv'
  BY OpenFileInv, ReadLineInv, EndOfFileInv, ControlInitInv, MediaInitInv, <1>1, <1>2,
     OpenSocketInv, StutterInv DEF Next
<1>4. QED BY InitInv, <1>3, PTL DEF Spec

\* TypeOK for files of any length: no setting leaves its 16 bits, no name its
\* field in m_confs, and no record is counted past the assertion.
THEOREM StartupTypeCorrect == Spec => []TypeOK
<1>1. Inv => TypeOK BY DEF Inv, Typed
<1>2. QED BY StartupInvariance, <1>1, PTL

\* However load_config leaves a file of any length, each setting is what its last
\* line before the first bad one says, and 0 without a line.
THEOREM SettingsAreTheFiles == Spec => []SettingsAreTheLastWords
<1>1. ASSUME Inv PROVE SettingsAreTheLastWords
  <2>1. SUFFICES ASSUME pc \in {"control", "media"},
                        NEW k \in Keys \ {"timer_keepalive", "f-name"}
                 PROVE  confs[k] = IF LinesFor(k) = {} THEN 0 ELSE Cut16(Meant(k))
    BY DEF SettingsAreTheLastWords
  <2>2. PICK n \in 0 .. Len(file) : Reached(n) /\ Took(n, k, confs[k])
    BY <1>1, <2>1 DEF Inv, Loaded, Beyond
  <2>3. file \in Seq(Lines) /\ n \in Nat BY <1>1 DEF Inv, Typed
  <2>4. QED BY <2>2, <2>3, TookMeans
<1>2. QED BY StartupInvariance, <1>1, PTL

\* The daemon serves with the timers, the name of F and the media address that
\* its file asks for, where the numbers fit 16 bits and the name is shorter than
\* USER_LTH; and no worker starts before the planes are set.
THEOREM ServesWithTheFilesSettings == Spec => []ServesWithItsSettings
<1>1. ASSUME Inv PROVE ServesWithItsSettings
  <2>1. ASSUME workers # {}
        PROVE  /\ server.set /\ media.set /\ media.ip = confs["media_ip"]
               /\ media.prompt = ("sound" \notin faults)
    <3>1. pc \in {"switch", "socket", "loop"} BY <1>1, <2>1 DEF Inv, Given
    <3>2. QED BY <1>1, <3>1 DEF Inv, Given, Beyond
  <2> DEFINE ka == "timer_keepalive"
             off == "timer_offline"
             ip == "media_ip"
             name == "f-name"
  <2>2. ASSUME pc = "loop"
        PROVE  /\ LinesFor(ka) = {} => server.ka = 0
               /\ LinesFor(ka) # {} /\ Meant(ka) \in Word16
                       => server.ka = Max({1, Meant(ka) \div 1000})
               /\ Wanted(off) \in Word16 => server.offline = Wanted(off)
               /\ Wanted(name) < UserLth
                       => server.name = [lth |-> Wanted(name), ends |-> TRUE]
               /\ media.ip = Wanted(ip)
    <3>1. PICK n \in 0 .. Len(file), v \in Word16 :
            /\ Reached(n) /\ Took(n, "f-name", v)
            /\ \A k \in Keys \ {"f-name"} : Took(n, k, confs[k])
            /\ server.name = [lth |-> Cut(v),
                              ends |-> Cut(v) < UserLth \/ confs["timer_keepalive"] = 0]
      BY <1>1, <2>2 DEF Inv, Loaded, Beyond
    <3>2. /\ file \in Seq(Lines) /\ n \in Nat
          /\ server.ka = confs[ka] /\ server.offline = confs[off] /\ media.ip = confs[ip]
      BY <1>1, <2>2 DEF Inv, Typed, TypeOK, Given, Beyond
    <3>3. /\ ka \in Keys \ {"f-name"} /\ off \in Keys \ {"f-name"}
          /\ ip \in Keys \ {"f-name"}
          /\ off \in Keys \ {ka} /\ ip \in Keys \ {ka} /\ name \in Keys \ {ka}
          /\ ip \in TextKeys /\ name \in TextKeys
      BY DEF Keys, NumberKeys, TextKeys
    <3>4. /\ LinesFor(ka) = {} => server.ka = 0
          /\ LinesFor(ka) # {} /\ Meant(ka) \in Word16
                => server.ka = Max({1, Meant(ka) \div 1000})
      <4> DEFINE v0 == server.ka
      <4>1. Took(n, ka, v0) /\ Reached(n) /\ n \in Nat /\ file \in Seq(Lines)
        BY <3>1, <3>2, <3>3
      <4> HIDE DEF v0
      <4>2. /\ LinesFor(ka) = {} => v0 = 0
            /\ LinesFor(ka) # {} /\ Meant(ka) \in Word16
                  => v0 = Max({1, Meant(ka) \div 1000})
        BY <4>1, KeepAliveMeans
      <4>3. QED BY <4>2 DEF v0
    <3>5. Wanted(off) \in Word16 => server.offline = Wanted(off)
      <4>1. Took(n, off, server.offline) BY <3>1, <3>2, <3>3
      <4>2. server.offline = IF LinesFor(off) = {} THEN 0 ELSE Cut16(Meant(off))
        BY <3>1, <3>2, <3>3, <4>1, TookMeans
      <4>3. ASSUME LinesFor(off) # {}, Meant(off) \in Word16
            PROVE  Cut16(Meant(off)) = Meant(off)
        <5>1. Meant(off) \in Int BY <4>3, Word16Is
        <5>2. QED BY <4>3, <5>1, CutIs
      <4>4. QED BY <4>2, <4>3 DEF Wanted
    <3>6. Wanted(name) < UserLth => server.name = [lth |-> Wanted(name), ends |-> TRUE]
      <4>1. v = Wanted(name) BY <3>1, <3>2, <3>3, TookMeans DEF Wanted
      <4>2. v \in Int /\ UserLth \in Int BY Word16Is, BoundsAssumption
      <4>3. v < UserLth => Cut(v) = v /\ Cut(v) < UserLth BY <4>2, MinOfTwo DEF Cut
      <4>4. QED BY <3>1, <4>1, <4>3
    <3>7. media.ip = Wanted(ip)
      <4>1. Took(n, ip, media.ip) BY <3>1, <3>2, <3>3
      <4>2. QED BY <3>1, <3>2, <3>3, <4>1, TookMeans DEF Wanted
    <3>8. QED BY <3>4, <3>5, <3>6, <3>7
  <2>3. QED BY <2>1, <2>2 DEF ServesWithItsSettings
<1>2. QED BY StartupInvariance, <1>1, PTL

\* The safety half of ServesUnlessStopped: with the file there, an address for the
\* host, the port free and no assertion failing, main never crashes or ends on its way, and in
\* its loop every worker runs that could be started.  That it gets there is
\* liveness.
THEOREM NothingElseStopsIt == Spec => []OnlyThoseStopIt
<1>1. Inv => OnlyThoseStopIt BY DEF Inv
<1>2. QED BY StartupInvariance, <1>1, PTL

=============================================================================
