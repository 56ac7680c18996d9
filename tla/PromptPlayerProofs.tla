-------------------------- MODULE PromptPlayerProofs --------------------------
(***************************************************************************)
(* Proofs about PromptPlayer, for any number of listeners and packets, any *)
(* width of the word, interval and delay: what a suspended client hears,   *)
(* how long a round goes on after F came, and the pacing of packets.       *)
(***************************************************************************)
EXTENDS PromptPlayer, SequenceTheorems, TLAPS

\* A node that is not suspended is owed nothing; one that is has heard no more
\* than the prompt it was hearing.
Heard ==
    \A n \in Nodes :
        /\ extra[n] <= Packets
        /\ n \notin suspended => extra[n] = 0
        /\ pc = "play" /\ node = n => extra[n] <= i

\* The listeners that the round has still to come to.
ToCome ==
    {c \in Range(cs) : Place(node) < Place(c) \/ (c = node /\ pc = "enter")}

\* Since F came, only listeners behind the thread have had a prompt begun.
Begins ==
    fIn => /\ \A c \in Listeners : prompts[c] <= 1
           /\ node \in Listeners => \A c \in ToCome : prompts[c] = 0

\* What the loop waits for has not been missed, unless the word overflowed.
OnTime == pc = "play" => Elapsed(now) < Interval \/ Overflows(Elapsed(now))

-----------------------------------------------------------------------------
(***************************************************************************)
(* Remainders: the library says that they exist, not that they are unique. *)
(***************************************************************************)
\* A number is a multiple and a remainder.
LEMMA Quotient ==
    ASSUME NEW p \in Nat \ {0}, NEW n \in Int
    PROVE  \E q \in Int, r \in 0 .. p - 1 : r = n % p /\ n = p * q + r
<1> DEFINE d == n \div p
           r == n % p
<1>1. d \in Int
  <2>1. p \in Int /\ p > 0 OBVIOUS
  <2>2. QED BY <2>1
<1>2. n = p * d + r /\ r \in 0 .. p - 1 /\ r = n % p OBVIOUS
<1> HIDE DEF d, r
<1>3. QED BY <1>1, <1>2

\* Multiples are at least p apart.
LEMMA Multiples ==
    ASSUME NEW p \in Nat \ {0}, NEW z \in Int
    PROVE  (z >= 1 => p * z >= p) /\ (z <= -1 => p * z <= -p) /\ p * z \in Int
OBVIOUS

\* A product distributes.
LEMMA Distributes ==
    ASSUME NEW p \in Int, NEW q \in Int, NEW s \in Int
    PROVE  /\ p * q \in Int /\ p * s \in Int
           /\ p * (q - s) = p * q - p * s /\ p * (q + s) = p * q + p * s
OBVIOUS

\* The remainder is the only one there is.
LEMMA Remainder ==
    ASSUME NEW p \in Nat \ {0}, NEW n \in Int, NEW q \in Int, NEW r \in 0 .. p - 1,
           n = p * q + r
    PROVE  n % p = r
<1>1. PICK s \in Int, t \in 0 .. p - 1 : t = n % p /\ n = p * s + t BY Quotient
<1>2. p * q \in Int /\ p * s \in Int /\ p * (q - s) = p * q - p * s
  <2>1. p \in Int OBVIOUS
  <2>2. QED BY <2>1, Distributes
<1> DEFINE z == q - s
<1>3. z = 0
  <2>1. z \in Int /\ p * z = t - r BY <1>1, <1>2
  <2> HIDE DEF z
  <2>2. (z >= 1 => p * z >= p) /\ (z <= -1 => p * z <= -p) BY <2>1, Multiples
  <2>3. QED BY <2>1, <2>2
<1>4. q = s BY <1>3
<1>5. QED BY <1>1, <1>2, <1>4

LEMMA RemainderOfNext ==
    ASSUME NEW p \in Nat \ {0}, NEW n \in Int PROVE (n + p) % p = n % p
<1>1. PICK q \in Int, r \in 0 .. p - 1 : r = n % p /\ n = p * q + r BY Quotient
<1>2. p \in Int /\ 1 \in Int /\ p * 1 = p OBVIOUS
<1>3. p * q \in Int /\ p * (q + 1) = p * q + p * 1 BY <1>2, Distributes
<1>4. n + p = p * (q + 1) + r
  <2> DEFINE x == p * q
             y == p * (q + 1)
  <2>1. x \in Int /\ y = x + p /\ n = x + r BY <1>1, <1>2, <1>3
  <2> HIDE DEF x, y
  <2>2. n + p = y + r BY <1>2, <2>1
  <2>3. QED BY <2>2 DEF y
<1>5. q + 1 \in Int /\ n + p \in Int OBVIOUS
<1>6. QED BY <1>1, <1>4, <1>5, Remainder

\* Taking the remainder of a summand first changes nothing.
LEMMA RemainderOfSum ==
    ASSUME NEW p \in Nat \ {0}, NEW a \in Int, NEW b \in Int
    PROVE  ((a % p) + b) % p = (a + b) % p
<1>1. PICK q \in Int, r \in 0 .. p - 1 : r = a % p /\ a = p * q + r BY Quotient
<1>2. PICK s \in Int, t \in 0 .. p - 1 : t = (r + b) % p /\ r + b = p * s + t
  BY Quotient
<1>3. p * q \in Int /\ p * s \in Int /\ p * (q + s) = p * q + p * s
  <2>1. p \in Int OBVIOUS
  <2>2. QED BY <2>1, Distributes
<1>4. a + b = p * (q + s) + t
  <2> DEFINE x == p * q
             y == p * s
             z == p * (q + s)
  <2>1. x \in Int /\ y \in Int /\ z = x + y /\ a = x + r /\ r + b = y + t
    BY <1>1, <1>2, <1>3
  <2> HIDE DEF x, y, z
  <2>2. a + b = z + t BY <1>1, <1>2, <2>1
  <2>3. QED BY <2>2 DEF z
<1>5. q + s \in Int /\ a + b \in Int OBVIOUS
<1>6. (a + b) % p = t BY <1>4, <1>5, Remainder
<1>7. QED BY <1>1, <1>2, <1>6

-----------------------------------------------------------------------------
(***************************************************************************)
(* Words.                                                                  *)
(***************************************************************************)
LEMMA PeriodType == Period \in Nat \ {0} /\ Words \subseteq Int
BY TimesAssumption DEF Period, Words

\* What a sum of a long comes to.
LEMMA WrapMeans ==
    ASSUME NEW n \in Int
    PROVE  /\ Wrap(n) \in Words
           /\ n \in Words => Wrap(n) = n
           /\ \A s \in Int : (Wrap(n) - s) % Period = (n - s) % Period
<1>1. n + MaxWord + 1 \in Int /\ Period \in Nat \ {0} /\ MaxWord \in Nat
  BY PeriodType, TimesAssumption
<1> DEFINE r == (n + MaxWord + 1) % Period
<1>2. r \in 0 .. Period - 1 BY <1>1
<1>3. Wrap(n) = r - MaxWord - 1 BY DEF Wrap
<1>4. Wrap(n) \in Words BY <1>1, <1>2, <1>3 DEF Words, Period
<1>5. n \in Words => Wrap(n) = n
  <2>1. SUFFICES ASSUME n \in Words PROVE r = n + MaxWord + 1 BY <1>1, <1>3
  <2>2. n + MaxWord + 1 \in 0 .. Period - 1 BY <1>1, <2>1 DEF Words, Period
  <2>3. QED BY <1>1, <2>2
<1>6. ASSUME NEW s \in Int PROVE (Wrap(n) - s) % Period = (n - s) % Period
  <2> DEFINE a == n + MaxWord + 1
             b == -MaxWord - 1 - s
  <2>1. a \in Int /\ b \in Int /\ a + b = n - s BY <1>1
  <2>2. Wrap(n) - s = (a % Period) + b BY <1>1, <1>2, <1>3
  <2> HIDE DEF a, b, r
  <2>3. ((a % Period) + b) % Period = (a + b) % Period BY <1>1, <2>1, RemainderOfSum
  <2>4. QED BY <2>1, <2>2, <2>3
<1>7. QED BY <1>4, <1>5, <1>6

\* The time since start, of a word that lies after or before it.
LEMMA ElapsedIs ==
    ASSUME start \in Words, NEW x \in Words
    PROVE  Elapsed(x) = IF x >= start THEN x - start ELSE x - start + Period
<1>1. Period \in Nat \ {0} /\ MaxWord \in Nat /\ x \in Int /\ start \in Int
  BY PeriodType, TimesAssumption
<1>2. CASE x >= start
  <2>1. x - start \in 0 .. Period - 1 BY <1>1, <1>2 DEF Words, Period
  <2>2. (x - start) % Period = x - start BY <1>1, <2>1
  <2>3. QED BY <1>2, <2>2 DEF Elapsed
<1>3. CASE x < start
  <2>1. x - start + Period \in 0 .. Period - 1 BY <1>1, <1>3 DEF Words, Period
  <2>2. (x - start + Period) % Period = x - start + Period BY <1>1, <2>1
  <2>3. (x - start + Period) % Period = (x - start) % Period
    <3> DEFINE y == x - start
    <3>1. y \in Int BY <1>1
    <3> HIDE DEF y
    <3>2. (y + Period) % Period = y % Period BY <1>1, <3>1, RemainderOfNext
    <3>3. QED BY <3>2 DEF y
  <2>4. QED BY <1>1, <1>3, <2>2, <2>3 DEF Elapsed
<1>4. QED BY <1>1, <1>2, <1>3

-----------------------------------------------------------------------------
(***************************************************************************)
(* The walk over the listeners.                                            *)
(***************************************************************************)
\* Each listener has one place.
OnePlaceEach ==
    /\ \A c \in Range(cs) : Place(c) \in 1 .. Len(cs) /\ cs[Place(c)] = c
    /\ \A k \in 1 .. Len(cs) : Place(cs[k]) = k /\ cs[k] \in Range(cs)
    /\ Range(cs) \subseteq Listeners /\ DOMAIN cs = 1 .. Len(cs) /\ Len(cs) \in Nat

\* The types say so.
LEMMA Places == TypeOK => OnePlaceEach
<1> SUFFICES ASSUME TypeOK PROVE OnePlaceEach OBVIOUS
<1>1. DOMAIN cs = 1 .. Len(cs) /\ Len(cs) \in Nat /\ cs \in Seq(Listeners) BY DEF TypeOK
<1>2. ASSUME NEW c \in Range(cs) PROVE Place(c) \in 1 .. Len(cs) /\ cs[Place(c)] = c
  <2>1. \E k \in DOMAIN cs : cs[k] = c BY DEF Range
  <2>2. QED BY <1>1, <2>1 DEF Place
<1>3. ASSUME NEW k \in 1 .. Len(cs) PROVE Place(cs[k]) = k /\ cs[k] \in Range(cs)
  <2>1. cs[k] \in Range(cs) BY <1>1 DEF Range
  <2>2. QED BY <1>1, <1>2, <2>1 DEF TypeOK
<1>4. Range(cs) \subseteq Listeners BY <1>1 DEF Range
<1>5. QED BY <1>1, <1>2, <1>3, <1>4 DEF OnePlaceEach

LEMMA PlacesNext == TypeOK' => OnePlaceEach'
BY Places, PTL

\* A sequence without its k-th element.
LEMMA RemoveAtMeans ==
    ASSUME NEW S, NEW s \in Seq(S), NEW k \in 1 .. Len(s)
    PROVE  /\ RemoveAt(s, k) \in Seq(S)
           /\ Len(RemoveAt(s, k)) = Len(s) - 1
           /\ \A m \in 1 .. Len(s) - 1 :
                  RemoveAt(s, k)[m] = IF m < k THEN s[m] ELSE s[m + 1]
<1> DEFINE a == SubSeq(s, 1, k - 1)
           b == SubSeq(s, k + 1, Len(s))
<1>1. a \in Seq(S) /\ Len(a) = k - 1 /\ \A m \in 1 .. k - 1 : a[m] = s[m]
  OBVIOUS
<1>2. b \in Seq(S) /\ Len(b) = Len(s) - k /\ \A m \in 1 .. Len(s) - k : b[m] = s[m + k]
  OBVIOUS
<1>3. RemoveAt(s, k) = a \o b BY DEF RemoveAt
<1> HIDE DEF a, b
<1>4. a \o b \in Seq(S) /\ Len(a \o b) = Len(a) + Len(b)
  BY <1>1, <1>2, ConcatProperties
<1>5. \A m \in 1 .. Len(a) + Len(b) :
         (a \o b)[m] = IF m <= Len(a) THEN a[m] ELSE b[m - Len(a)]
  BY <1>1, <1>2, ConcatProperties
<1>6. QED BY <1>1, <1>2, <1>3, <1>4, <1>5

\* A listener that comes goes to the end.
LEMMA ComesAtTheEnd ==
    ASSUME TypeOK, NEW c \in Listeners, CComes(c)
    PROVE  /\ cs' \in Seq(Listeners) /\ Range(cs') = Range(cs) \cup {c}
           /\ \A k, l \in DOMAIN cs' : cs'[k] = cs'[l] => k = l
           /\ Len(cs') = Len(cs) + 1 /\ cs'[Len(cs) + 1] = c
           /\ \A k \in 1 .. Len(cs) : cs'[k] = cs[k]
<1>1. cs \in Seq(Listeners) /\ DOMAIN cs = 1 .. Len(cs) /\ Len(cs) \in Nat BY DEF TypeOK
<1>2. /\ cs' \in Seq(Listeners) /\ Len(cs') = Len(cs) + 1 /\ cs'[Len(cs) + 1] = c
      /\ \A k \in 1 .. Len(cs) : cs'[k] = cs[k]
      /\ DOMAIN cs' = 1 .. Len(cs) + 1
  BY <1>1 DEF CComes
<1>3. Range(cs') = Range(cs) \cup {c}
  <2>1. \A x \in Range(cs') : x \in Range(cs) \cup {c} BY <1>1, <1>2 DEF Range
  <2>2. \A x \in Range(cs) \cup {c} : x \in Range(cs') BY <1>1, <1>2 DEF Range
  <2>3. QED BY <2>1, <2>2
<1>4. \A k \in 1 .. Len(cs) : cs[k] # c BY <1>1 DEF CComes, Range
<1>5. \A k, l \in DOMAIN cs' : cs'[k] = cs'[l] => k = l
  <2>1. \A k, l \in 1 .. Len(cs) : cs[k] = cs[l] => k = l BY <1>1 DEF TypeOK
  <2>2. \A k \in DOMAIN cs' : k \in 1 .. Len(cs) \/ k = Len(cs) + 1 BY <1>1, <1>2
  <2>3. QED BY <1>2, <1>4, <2>1, <2>2
<1>6. QED BY <1>2, <1>3, <1>5

\* One that goes leaves the others in their order.
LEMMA GoesInOrder ==
    ASSUME TypeOK, NEW c \in Listeners, CGoes(c)
    PROVE  /\ cs' \in Seq(Listeners) /\ Range(cs') = Range(cs) \ {c}
           /\ \A k, l \in DOMAIN cs' : cs'[k] = cs'[l] => k = l
           /\ Place(c) \in 1 .. Len(cs) /\ Len(cs') = Len(cs) - 1
           /\ \A k \in 1 .. Len(cs) - 1 :
                  cs'[k] = IF k < Place(c) THEN cs[k] ELSE cs[k + 1]
<1>1. cs \in Seq(Listeners) /\ DOMAIN cs = 1 .. Len(cs) /\ Len(cs) \in Nat BY DEF TypeOK
<1>2. Place(c) \in 1 .. Len(cs) /\ cs[Place(c)] = c /\ cs' = RemoveAt(cs, Place(c))
  BY Places DEF OnePlaceEach, CGoes
<1>3. /\ cs' \in Seq(Listeners) /\ Len(cs') = Len(cs) - 1
      /\ \A k \in 1 .. Len(cs) - 1 : cs'[k] = IF k < Place(c) THEN cs[k] ELSE cs[k + 1]
  BY <1>1, <1>2, RemoveAtMeans
<1>4. DOMAIN cs' = 1 .. Len(cs) - 1 BY <1>3
<1>5. \A k, l \in 1 .. Len(cs) : cs[k] = cs[l] => k = l BY <1>1 DEF TypeOK
<1>6. Range(cs') = Range(cs) \ {c}
  <2>1. ASSUME NEW x \in Range(cs') PROVE x \in Range(cs) \ {c}
    <3>1. PICK k \in 1 .. Len(cs) - 1 : x = cs'[k] BY <1>4 DEF Range
    <3>2. PICK l \in 1 .. Len(cs) : x = cs[l] /\ l # Place(c) BY <1>1, <1>2, <1>3, <3>1
    <3>3. QED BY <1>1, <1>2, <1>5, <3>2 DEF Range
  <2>2. ASSUME NEW x \in Range(cs), x # c PROVE x \in Range(cs')
    <3>1. PICK l \in 1 .. Len(cs) : x = cs[l] BY <1>1 DEF Range
    <3>2. l # Place(c) BY <1>2, <2>2, <3>1
    <3>3. \E k \in 1 .. Len(cs) - 1 : x = cs'[k]
      <4>1. CASE l < Place(c) BY <1>1, <1>2, <1>3, <3>1, <4>1
      <4>2. CASE l > Place(c)
        <5>1. l - 1 \in 1 .. Len(cs) - 1 /\ ~(l - 1 < Place(c)) /\ (l - 1) + 1 = l
          BY <1>1, <1>2, <4>2
        <5>2. QED BY <1>3, <3>1, <5>1
      <4>3. QED BY <1>1, <1>2, <3>2, <4>1, <4>2
    <3>4. QED BY <1>4, <3>3 DEF Range
  <2>3. QED BY <2>1, <2>2
<1>7. \A k, l \in DOMAIN cs' : cs'[k] = cs'[l] => k = l BY <1>1, <1>2, <1>3, <1>4, <1>5
<1>8. QED BY <1>2, <1>3, <1>6, <1>7

-----------------------------------------------------------------------------
(***************************************************************************)
(* Type correctness.                                                       *)
(***************************************************************************)
\* A time of the clock is a word.
LEMMA TimeType == ASSUME NEW w \in Words, NEW d \in Int PROVE Wrap(w + d) \in Words
<1>1. w + d \in Int BY PeriodType
<1>2. QED BY <1>1, WrapMeans

LEMMA InitType == Init => TypeOK
<1> SUFFICES ASSUME Init PROVE TypeOK OBVIOUS
<1>1. 0 \in Words /\ 0 \in 0 .. Packets BY TimesAssumption DEF Words, Packets
<1>2. cs \in Seq(Listeners) /\ \A k, l \in DOMAIN cs : cs[k] = cs[l] => k = l BY DEF Init
<1>3. QED BY <1>1, <1>2 DEF Init, TypeOK

\* main.
LEMMA MainType == ASSUME TypeOK, Main PROVE TypeOK'
<1>1. CASE FComes BY <1>1 DEF Main, FComes, TypeOK, player
<1>2. CASE FGoes BY <1>2 DEF Main, FGoes, Forget, TypeOK, player, Nodes
<1>3. ASSUME NEW c \in Listeners, CComes(c) PROVE TypeOK'
  <2>1. /\ cs' \in Seq(Listeners) /\ Range(cs') = Range(cs) \cup {c}
        /\ \A k, l \in DOMAIN cs' : cs'[k] = cs'[l] => k = l
    BY <1>3, ComesAtTheEnd
  <2>2. QED BY <1>3, <2>1 DEF Main, CComes, TypeOK, player
<1>4. ASSUME NEW c \in Listeners, CGoes(c) PROVE TypeOK'
  <2>1. /\ cs' \in Seq(Listeners) /\ Range(cs') = Range(cs) \ {c}
        /\ \A k, l \in DOMAIN cs' : cs'[k] = cs'[l] => k = l
    BY <1>4, GoesInOrder
  <2>2. QED BY <1>4, <2>1 DEF Main, CGoes, Forget, TypeOK, player, Nodes
<1>5. ASSUME NEW n \in Nodes, NEW on \in BOOLEAN, Suspend(n, on) PROVE TypeOK'
  <2>1. suspended' \subseteq Nodes /\ extra' \in [Nodes -> Nat]
    BY <1>5 DEF Suspend, Forget, TypeOK
  <2>2. QED BY <1>5, <2>1 DEF Main, Suspend, TypeOK, player
<1>6. QED BY <1>1, <1>2, <1>3, <1>4, <1>5 DEF Main

\* The rounds of the thread.
LEMMA HintType == ASSUME TypeOK, Hint PROVE TypeOK'
<1>1. UNCHANGED <<maps, i, now, start, history>> BY DEF Hint, Round, Step, Wake
<1>2. CASE Round
  <2>1. cs # <<>> => Head(cs) \in Range(cs) /\ Head(cs) # F
    <3>1. cs # <<>> => Head(cs) = cs[1] /\ 1 \in 1 .. Len(cs) BY DEF TypeOK
    <3>2. QED BY <3>1, Places, NodesAssumption DEF OnePlaceEach
  <2>2. QED BY <1>1, <1>2, <2>1 DEF Round, Stand, Rest, TypeOK, maps, history
<1>3. CASE Step
  <2>1. CASE node = F \/ node = Last(cs)
    BY <1>1, <1>3, <2>1 DEF Step, Rest, TypeOK, maps, history
  <2>2. CASE node # F /\ node # Last(cs)
    <3>1. node \in Range(cs) BY <1>3, <2>2 DEF Step, TypeOK
    <3>2. Place(node) + 1 \in 1 .. Len(cs) BY <2>2, <3>1, Places DEF OnePlaceEach, Last
    <3>3. cs[Place(node) + 1] \in Range(cs) /\ cs[Place(node) + 1] # F
      BY <3>2, Places, NodesAssumption DEF OnePlaceEach
    <3>4. QED BY <1>1, <1>3, <2>2, <3>3 DEF Step, Stand, TypeOK, maps, history
  <2>3. QED BY <2>1, <2>2
<1>4. CASE Wake BY <1>1, <1>4 DEF Wake, TypeOK, maps, history
<1>5. QED BY <1>2, <1>3, <1>4 DEF Hint

\* The prompt.
LEMMA PlayType == ASSUME TypeOK, Enter \/ \E d \in 0 .. MaxGap : Poll(d) PROVE TypeOK'
<1>1. 0 \in 0 .. Packets /\ 0 \in Words /\ Packets \in Nat /\ Words \subseteq Int
  BY TimesAssumption, PeriodType DEF Words, Packets
<1>2. CASE Enter
  <2>1. prompts' \in [Listeners -> Nat]
    BY <1>2 DEF Enter, Begun, TypeOK, maps
  <2>2. QED BY <1>1, <1>2, <2>1 DEF Enter, TypeOK, maps
<1>3. ASSUME NEW d \in 0 .. MaxGap, Wait(d) PROVE TypeOK'
  <2>1. d \in Int BY TimesAssumption
  <2>2. now' \in Words BY <1>3, <2>1, TimeType DEF Wait, TypeOK
  <2>3. QED BY <1>3, <2>2 DEF Wait, TypeOK, maps
<1>4. ASSUME NEW d \in 0 .. MaxGap, Send(d) PROVE TypeOK'
  <2>1. PICK e \in 0 .. MaxGap : now' = Wrap(now + d + e) BY <1>4 DEF Send
  <2>2. now + d + e = now + (d + e) /\ d + e \in Int
    BY <1>1, TimesAssumption DEF TypeOK
  <2>3. now' \in Words BY <2>1, <2>2, TimeType DEF TypeOK
  <2>4. i' \in 0 .. Packets BY <1>1, <1>4 DEF Send, TypeOK
  <2>5. extra' \in [Nodes -> Nat] BY <1>4 DEF Send, TypeOK
  <2>6. QED BY <1>4, <2>3, <2>4, <2>5 DEF Send, TypeOK, maps
<1>5. ASSUME NEW d \in 0 .. MaxGap, Done(d) PROVE TypeOK'
  BY <1>1, <1>5 DEF Done, TypeOK, maps, history
<1>6. QED BY <1>2, <1>3, <1>4, <1>5 DEF Poll

LEMMA NextType == TypeOK /\ [Next]_vars => TypeOK'
<1> SUFFICES ASSUME TypeOK, [Next]_vars PROVE TypeOK' OBVIOUS
<1>1. CASE UNCHANGED vars BY <1>1 DEF vars, maps, player, history, TypeOK
<1>2. QED BY <1>1, MainType, HintType, PlayType DEF Next

\* Every reachable state is well typed: the maps, and the place of the thread in them
\* (data_plane.cpp:161-232).
THEOREM PlayerTypeCorrect == Spec => []TypeOK
<1>1. QED BY InitType, NextType, PTL DEF Spec

-----------------------------------------------------------------------------
(***************************************************************************)
(* What a suspended client hears.                                          *)
(***************************************************************************)
LEMMA InitHeard == Init => Heard
BY TimesAssumption DEF Init, Heard, Packets

LEMMA NextHeard == TypeOK /\ Heard /\ [Next]_vars => Heard'
<1> SUFFICES ASSUME TypeOK, Heard, [Next]_vars PROVE Heard' OBVIOUS
<1>1. Packets \in Nat /\ i \in Nat BY TimesAssumption DEF TypeOK, Packets
\* main leaves the thread alone, and keeps a count or forgets it.
<1>2. CASE Main
  <2>1. ASSUME NEW n \in Nodes
        PROVE  \/ extra'[n] = 0
               \/ extra'[n] = extra[n] /\ (n \notin suspended' => n \notin suspended)
    <3>1. CASE FComes BY <3>1 DEF FComes
    <3>2. CASE FGoes BY <3>2 DEF FGoes, Forget, TypeOK
    <3>3. ASSUME NEW c \in Listeners, CComes(c) \/ CGoes(c)
          PROVE  \/ extra'[n] = 0
                 \/ extra'[n] = extra[n] /\ (n \notin suspended' => n \notin suspended)
      BY <3>3 DEF CComes, CGoes, Forget, TypeOK
    <3>4. ASSUME NEW x \in Nodes, NEW on \in BOOLEAN, Suspend(x, on)
          PROVE  \/ extra'[n] = 0
                 \/ extra'[n] = extra[n] /\ (n \notin suspended' => n \notin suspended)
      BY <3>4 DEF Suspend, Forget, TypeOK
    <3>5. QED BY <1>2, <3>1, <3>2, <3>3, <3>4 DEF Main
  <2>2. UNCHANGED <<pc, node, i>> BY <1>2 DEF Main, player
  <2>3. QED BY <1>1, <2>1, <2>2 DEF Heard
<1>3. CASE Hint
  <2>1. UNCHANGED <<maps, i, history>> /\ pc' # "play"
    BY <1>3 DEF Hint, Round, Step, Wake, Stand, Rest
  <2>2. QED BY <2>1 DEF Heard, maps, history
<1>4. CASE Enter
  <2>1. UNCHANGED <<maps, node, extra>> /\ (pc' = "play" => i' = 0 /\ node \notin suspended)
    BY <1>4 DEF Enter
  <2>2. QED BY <2>1 DEF Heard, maps
<1>5. ASSUME NEW d \in 0 .. MaxGap, Poll(d) PROVE Heard'
  <2>1. CASE Wait(d) BY <2>1 DEF Wait, Heard, maps
  <2>2. CASE Send(d)
    <3>1. /\ pc = "play" /\ i < Packets /\ i' = i + 1 /\ UNCHANGED <<maps, pc, node>>
          /\ extra' = IF node \in suspended THEN [extra EXCEPT ![node] = @ + 1] ELSE extra
      BY <2>2 DEF Send
    <3>2. extra \in [Nodes -> Nat] BY DEF TypeOK
    <3>3. QED BY <1>1, <3>1, <3>2 DEF Heard, maps
  <2>3. CASE Done(d) BY <2>3 DEF Done, Heard, maps, history
  <2>4. QED BY <1>5, <2>1, <2>2, <2>3 DEF Poll
<1>6. CASE UNCHANGED vars BY <1>6 DEF vars, maps, player, history, Heard
<1>7. QED BY <1>2, <1>3, <1>4, <1>5, <1>6 DEF Next

\* is_suspend is read once per prompt (data_plane.cpp:167): a client that is suspended
\* hears no more than one prompt to its end.
THEOREM SuspensionsAreHeardOut == Spec => []SuspendedHearsOutItsPrompt
<1>1. Heard => SuspendedHearsOutItsPrompt BY DEF Heard, SuspendedHearsOutItsPrompt
<1>2. QED BY <1>1, InitHeard, NextHeard, PlayerTypeCorrect, PTL DEF Spec

-----------------------------------------------------------------------------
(***************************************************************************)
(* How long a round goes on after F came.                                  *)
(***************************************************************************)
\* Whom the round has still to come to depends on the walk alone.
LEMMA SameToCome ==
    ASSUME UNCHANGED <<cs, node>>, pc' = "enter" => pc = "enter"
    PROVE  ToCome' \subseteq ToCome
BY DEF ToCome, Place

LEMMA InitBegins == Init => Begins
BY DEF Init, Begins

\* Logins and departures.
LEMMA MainBegins == ASSUME TypeOK, TypeOK', Begins, Main PROVE Begins'
<1>1. UNCHANGED <<pc, node>> BY DEF Main, player
<1>2. CASE FComes
  <2>1. prompts' = [c \in Listeners |-> 0] BY <1>2 DEF FComes
  <2>2. ToCome' \subseteq Listeners BY PlacesNext DEF OnePlaceEach, ToCome
  <2>3. QED BY <2>1, <2>2 DEF Begins
<1>3. CASE FGoes BY <1>3 DEF FGoes, Begins
<1>4. ASSUME NEW c \in Listeners, CComes(c) PROVE Begins'
  <2>1. SUFFICES ASSUME fIn' PROVE /\ \A x \in Listeners : prompts'[x] <= 1
                                   /\ node' \in Listeners => \A x \in ToCome' : prompts'[x] = 0
    BY DEF Begins
  <2>2. fIn /\ prompts' = [prompts EXCEPT ![c] = 0] BY <1>4, <2>1 DEF CComes
  <2>3. \A x \in Listeners : prompts'[x] <= 1 BY <2>2 DEF Begins, TypeOK
  <2>4. ASSUME node \in Listeners, NEW x \in ToCome', x # c PROVE x \in ToCome
    <3>1. x \in Range(cs) BY <1>4, <2>4, ComesAtTheEnd DEF ToCome
    <3>2. node \in Range(cs)
      BY <1>1, <2>4, NodesAssumption DEF TypeOK, Nodes
    <3>3. ASSUME NEW y \in Range(cs) PROVE Place(y)' = Place(y)
      <4>1. Place(y) \in 1 .. Len(cs) /\ cs[Place(y)] = y BY Places DEF OnePlaceEach
      <4>2. Place(y) \in 1 .. Len(cs') /\ cs'[Place(y)] = y
        BY <1>4, <4>1, ComesAtTheEnd
      <4>3. \A k \in 1 .. Len(cs') : Place(cs[k])' = k BY PlacesNext DEF OnePlaceEach
      <4>4. QED BY <4>2, <4>3
    <3>4. QED BY <1>1, <2>4, <3>1, <3>2, <3>3 DEF ToCome
  <2>5. node' \in Listeners => \A x \in ToCome' : prompts'[x] = 0
    <3>1. ToCome' \subseteq Listeners BY PlacesNext DEF OnePlaceEach, ToCome
    <3>2. QED BY <1>1, <2>2, <2>4, <3>1 DEF Begins, TypeOK
  <2>6. QED BY <2>3, <2>5
<1>5. ASSUME NEW c \in Listeners, CGoes(c) PROVE Begins'
  <2>1. SUFFICES ASSUME fIn, node \in Listeners PROVE ToCome' \subseteq ToCome
    BY <1>1, <1>5 DEF Begins, CGoes
  <2>2. node \in Range(cs) BY <2>1, NodesAssumption DEF TypeOK, Nodes
  <2>3. Range(cs') = Range(cs) \ {c} /\ node # c BY <1>5, GoesInOrder DEF CGoes
  <2>4. ASSUME NEW y \in Range(cs) \ {c}
        PROVE  /\ Place(y)' = IF Place(y) < Place(c) THEN Place(y) ELSE Place(y) - 1
               /\ Place(y) \in Nat /\ Place(c) \in Nat /\ Place(y) # Place(c)
    <3>1. /\ Place(y) \in 1 .. Len(cs) /\ cs[Place(y)] = y
          /\ Place(c) \in 1 .. Len(cs) /\ cs[Place(c)] = c /\ Len(cs) \in Nat
      BY <1>5, Places DEF OnePlaceEach, CGoes
    <3>2. Place(y) # Place(c) BY <3>1
    <3>3. \A k \in 1 .. Len(cs') : Place(cs[k])' = k BY PlacesNext DEF OnePlaceEach
    <3>4. /\ Len(cs') = Len(cs) - 1
          /\ \A k \in 1 .. Len(cs) - 1 : cs'[k] = IF k < Place(c) THEN cs[k] ELSE cs[k + 1]
      BY <1>5, GoesInOrder
    <3>5. CASE Place(y) < Place(c)
      <4>1. Place(y) \in 1 .. Len(cs') /\ cs'[Place(y)] = y BY <3>1, <3>4, <3>5
      <4>2. QED BY <3>1, <3>3, <3>5, <4>1
    <3>6. CASE Place(y) > Place(c)
      <4> DEFINE k == Place(y) - 1
      <4>1. k \in 1 .. Len(cs) - 1 /\ ~(k < Place(c)) /\ k + 1 = Place(y)
        BY <3>1, <3>6
      <4>2. k \in 1 .. Len(cs') /\ cs'[k] = y BY <3>1, <3>4, <4>1
      <4>3. Place(y)' = k BY <3>3, <4>2
      <4>4. QED BY <3>1, <3>6, <4>3
    <3>7. QED BY <3>1, <3>2, <3>5, <3>6
  <2>5. QED BY <1>1, <2>2, <2>3, <2>4 DEF ToCome
<1>6. ASSUME NEW n \in Nodes, NEW on \in BOOLEAN, Suspend(n, on) PROVE Begins'
  BY <1>1, <1>6, SameToCome DEF Suspend, Begins
<1>7. QED BY <1>2, <1>3, <1>4, <1>5, <1>6 DEF Main

\* A round that starts while F is there comes to no listener; one that goes on leaves
\* a listener behind with each step.
LEMMA HintBegins == ASSUME TypeOK, TypeOK', Begins, Hint PROVE Begins'
<1>1. UNCHANGED <<maps, i, now, start, history>> BY DEF Hint, Round, Step, Wake
<1>2. CASE Round
  <2>1. fIn => node' \notin Listeners
    BY <1>2, NodesAssumption DEF Round, Stand, Rest, Nodes
  <2>2. QED BY <1>1, <2>1 DEF Begins, maps, history
<1>3. CASE Step
  <2>1. CASE node = F \/ node = Last(cs)
    BY <1>1, <1>3, <2>1, NodesAssumption DEF Step, Rest, Begins, maps, history, Nodes
  <2>2. CASE node # F /\ node # Last(cs)
    <3>1. node \in Range(cs) /\ node' = cs[Place(node) + 1] /\ UNCHANGED cs
      BY <1>1, <1>3, <2>2 DEF Step, Stand, TypeOK, maps
    <3>2. node \in Listeners BY <3>1, Places DEF OnePlaceEach
    <3>3. Place(node) \in Nat /\ Place(node) + 1 \in 1 .. Len(cs)
      BY <2>2, <3>1, Places DEF OnePlaceEach, Last
    <3>4. Place(node)' = Place(node) + 1
      <4>1. Place(node)' = Place(cs[Place(node) + 1]) BY <3>1 DEF Place
      <4>2. QED BY <3>3, <4>1, Places DEF OnePlaceEach
    <3>5. \A c : Place(c)' = Place(c) BY <3>1 DEF Place
    <3>6. \A c \in Range(cs) : Place(c) \in Nat BY Places DEF OnePlaceEach
    <3>7. ASSUME NEW c \in ToCome' PROVE c \in ToCome
      <4>1. c \in Range(cs) BY <3>1 DEF ToCome
      <4>2. CASE Place(node)' < Place(c)' BY <3>3, <3>4, <3>5, <3>6, <4>1, <4>2 DEF ToCome
      <4>3. CASE c = node' BY <3>3, <3>4, <3>5, <3>6, <4>1, <4>3 DEF ToCome
      <4>4. QED BY <4>2, <4>3 DEF ToCome
    <3>8. QED BY <1>1, <3>2, <3>7 DEF Begins, maps, history
  <2>3. QED BY <2>1, <2>2
<1>4. CASE Wake BY <1>1, <1>4, SameToCome DEF Wake, Begins, maps, history
<1>5. QED BY <1>2, <1>3, <1>4 DEF Hint

\* The prompt that begins is the first one for its listener.
LEMMA EnterBegins == ASSUME TypeOK, Begins, Enter PROVE Begins'
<1>1. pc = "enter" /\ pc' # "enter" /\ UNCHANGED <<maps, node>> BY DEF Enter
<1>2. ToCome' \subseteq ToCome BY <1>1, SameToCome DEF maps
<1>3. fIn' = fIn /\ node' = node BY <1>1 DEF maps
<1>4. SUFFICES ASSUME fIn'
               PROVE  /\ \A c \in Listeners : prompts'[c] <= 1
                      /\ node' \in Listeners => \A c \in ToCome' : prompts'[c] = 0
  BY DEF Begins
<1>5. CASE node \notin Listeners
  <2>1. node = F BY <1>1, <1>5, Places DEF TypeOK, OnePlaceEach
  <2>2. prompts' = prompts BY <2>1 DEF Enter, Begun
  <2>3. QED BY <1>3, <1>4, <1>5, <2>2 DEF Begins
<1>6. CASE node \in Listeners
  <2>1. node \in Range(cs) BY <1>1, <1>6, NodesAssumption DEF TypeOK
  <2>2. node \in ToCome BY <1>1, <2>1 DEF ToCome
  <2>3. prompts[node] = 0 BY <1>3, <1>4, <1>6, <2>2 DEF Begins
  <2>4. prompts' = prompts \/ prompts' = [prompts EXCEPT ![node] = @ + 1]
    BY DEF Enter, Begun
  <2>5. node \notin ToCome'
    <3>1. Place(node) \in Nat BY <2>1, Places DEF OnePlaceEach
    <3>2. Place(node)' = Place(node) BY <1>1 DEF Place, maps
    <3>3. QED BY <1>1, <3>1, <3>2 DEF ToCome
  <2>6. ToCome \subseteq Listeners BY Places DEF ToCome, OnePlaceEach
  <2>7. \A c \in Listeners : prompts'[c] = IF prompts' # prompts /\ c = node THEN 1 ELSE prompts[c]
    BY <1>6, <2>3, <2>4 DEF TypeOK
  <2>8. QED BY <1>3, <1>2, <1>4, <1>6, <2>5, <2>6, <2>7 DEF Begins
<1>7. QED BY <1>5, <1>6

LEMMA NextBegins == TypeOK /\ TypeOK' /\ Begins /\ [Next]_vars => Begins'
<1> SUFFICES ASSUME TypeOK, TypeOK', Begins, [Next]_vars PROVE Begins' OBVIOUS
<1>1. ASSUME UNCHANGED <<fIn, cs, node, prompts>>, pc' = "enter" => pc = "enter"
      PROVE  Begins'
  BY <1>1, SameToCome DEF Begins
<1>2. ASSUME NEW d \in 0 .. MaxGap, Poll(d) PROVE Begins'
  BY <1>1, <1>2 DEF Poll, Wait, Send, Done, maps, history
<1>3. CASE UNCHANGED vars BY <1>1, <1>3 DEF vars, maps, player, history
<1>4. QED BY <1>2, <1>3, MainBegins, HintBegins, EnterBegins DEF Next

\* That the other side is empty is tested once per round (data_plane.cpp:215): after F has
\* come each listener is begun with at most one more prompt.
THEOREM ReturnsEndTheRound == Spec => []ReturnEndsTheRound
<1>1. Begins => ReturnEndsTheRound BY DEF Begins, ReturnEndsTheRound
<1>2. QED BY <1>1, InitBegins, NextBegins, PlayerTypeCorrect, PTL DEF Spec

-----------------------------------------------------------------------------
(***************************************************************************)
(* The pacing.                                                             *)
(***************************************************************************)
\* What the comparison of the code says of the time that has passed.
LEMMA DueMeans ==
    ASSUME start \in Words, NEW x \in Words
    PROVE  Elapsed(x) \in Nat
           /\ ((Due(x) <=> Elapsed(x) >= Interval) \/ Overflows(Elapsed(x)))
<1>1. /\ Period \in Nat \ {0} /\ MaxWord \in Nat /\ Interval \in Nat
      /\ x \in Int /\ start \in Int
  BY PeriodType, TimesAssumption
<1>2. Elapsed(x) = IF x >= start THEN x - start ELSE x - start + Period BY ElapsedIs
<1>3. Elapsed(x) \in Nat BY <1>1, <1>2 DEF Words, Period
<1>4. SUFFICES ASSUME start + Interval <= MaxWord, start + Elapsed(x) <= MaxWord
               PROVE  Due(x) <=> Elapsed(x) >= Interval
  BY <1>1, <1>3 DEF Overflows
<1>5. Wrap(Interval + start) = Interval + start
  <2>1. Interval + start \in Words BY <1>1, <1>4 DEF Words
  <2>2. QED BY <1>1, <2>1, WrapMeans
<1>6. x >= start BY <1>1, <1>2, <1>4 DEF Words, Period
<1>7. QED BY <1>1, <1>2, <1>5, <1>6 DEF Due

LEMMA InitOnTime == Init => OnTime
BY DEF Init, OnTime

LEMMA NextOnTime == TypeOK /\ TypeOK' /\ OnTime /\ [Next]_vars => OnTime'
<1> SUFFICES ASSUME TypeOK, TypeOK', OnTime, [Next]_vars, pc' = "play"
             PROVE  Elapsed(now)' < Interval \/ Overflows(Elapsed(now))'
  BY DEF OnTime
<1>1. CASE UNCHANGED <<pc, now, start>> BY <1>1 DEF OnTime, Elapsed, Overflows
<1>2. CASE start' = now'
  <2>1. now' \in Int /\ Period \in Nat \ {0} /\ Interval >= 1
    BY PeriodType, TimesAssumption DEF TypeOK
  <2>2. Elapsed(now)' = (now' - start') % Period BY DEF Elapsed, Period
  <2>3. now' - start' = 0
    <3> DEFINE y == now'
    <3>1. y \in Int /\ start' = y BY <1>2, <2>1
    <3> HIDE DEF y
    <3>2. y - y = 0 BY <3>1
    <3>3. QED BY <1>2, <3>2 DEF y
  <2>4. 0 % Period = 0 BY <2>1
  <2>5. Elapsed(now)' = 0 BY <2>2, <2>3, <2>4
  <2>6. QED BY <2>1, <2>5, TimesAssumption
<1>3. ASSUME NEW d \in 0 .. MaxGap, Wait(d)
      PROVE  Elapsed(now)' < Interval \/ Overflows(Elapsed(now))'
  <2>1. start' = start /\ ~Due(now') /\ now' \in Words /\ start \in Words
    BY <1>3 DEF Wait, TypeOK
  <2>2. Elapsed(now)' = Elapsed(now') /\ (Overflows(Elapsed(now))' <=> Overflows(Elapsed(now')))
    BY <2>1 DEF Elapsed, Overflows
  <2>3. QED BY <2>1, <2>2, DueMeans, TimesAssumption
<1>4. CASE Enter BY <1>2, <1>4 DEF Enter
<1>5. ASSUME NEW d \in 0 .. MaxGap, Poll(d)
      PROVE  Elapsed(now)' < Interval \/ Overflows(Elapsed(now))'
  BY <1>2, <1>3, <1>5 DEF Poll, Send, Done
<1>6. CASE Main BY <1>1, <1>6 DEF Main, player
<1>7. CASE Hint BY <1>7 DEF Hint, Round, Step, Wake, Stand, Rest
<1>8. CASE UNCHANGED vars BY <1>1, <1>8 DEF vars, player
<1>9. QED BY <1>4, <1>5, <1>6, <1>7, <1>8 DEF Next

\* A packet that goes out goes out in time.
LEMMA SendsInTime ==
    ASSUME TypeOK, OnTime, NEW d \in 0 .. MaxGap, Send(d)
    PROVE  \/ Elapsed(now + d) \in Interval .. Interval + MaxGap - 1
           \/ Overflows(Elapsed(now + d))
<1> DEFINE x == Wrap(now + d)
           after == Elapsed(now + d)
           before == Elapsed(now)
<1>1. /\ Period \in Nat \ {0} /\ MaxWord \in Nat /\ Interval \in Nat /\ MaxGap \in Nat
      /\ now \in Int /\ start \in Int /\ d \in Nat /\ d <= MaxGap /\ now + d \in Int
      /\ start \in Words /\ now \in Words
  BY PeriodType, TimesAssumption DEF TypeOK
<1>2. x \in Words /\ Elapsed(x) = after
  BY <1>1, WrapMeans DEF Elapsed
<1>3. after \in 0 .. Period - 1 /\ (after >= Interval \/ Overflows(after))
  <2>1. (now + d) - start \in Int BY <1>1
  <2>2. after \in 0 .. Period - 1 BY <1>1, <2>1 DEF Elapsed
  <2>3. Due(x) BY DEF Send
  <2>4. Elapsed(x) >= Interval \/ Overflows(Elapsed(x)) BY <1>1, <1>2, <2>3, DueMeans
  <2>5. QED BY <1>2, <2>2, <2>4
<1>4. before \in 0 .. Period - 1 /\ (before < Interval \/ Overflows(before))
  <2>1. now - start \in Int BY <1>1
  <2>2. before \in 0 .. Period - 1 BY <1>1, <2>1 DEF Elapsed
  <2>3. QED BY <2>2 DEF OnTime, Send
<1>5. after = (before + d) % Period
  <2>1. (((now - start) % Period) + d) % Period = ((now - start) + d) % Period
    <3> DEFINE y == now - start
    <3>1. y \in Int /\ d \in Int BY <1>1
    <3> HIDE DEF y
    <3>2. ((y % Period) + d) % Period = (y + d) % Period BY <1>1, <3>1, RemainderOfSum
    <3>3. QED BY <3>2 DEF y
  <2>2. (now - start) + d = (now + d) - start BY <1>1
  <2>3. after = ((now + d) - start) % Period BY DEF Elapsed
  <2>4. before = (now - start) % Period BY DEF Elapsed
  <2> HIDE DEF after, before
  <2>5. QED BY <2>1, <2>2, <2>3, <2>4
<1>6. after <= before + d /\ (after <= before + d - Period \/ after = before + d)
  BY <1>1, <1>3, <1>4, <1>5
<1> HIDE DEF after, before, x
<1>7. CASE before < Interval BY <1>1, <1>3, <1>4, <1>6, <1>7 DEF after
<1>8. CASE Overflows(before)
  BY <1>1, <1>3, <1>4, <1>6, <1>8 DEF Overflows, after
<1>9. QED BY <1>4, <1>7, <1>8

\* A packet of a prompt goes out neither early nor late, unless the word overflows
\* before it is due or while the thread waits for it (data_plane.cpp:173-186).
THEOREM PromptsArePaced == Spec => PacedUnlessTheWordOverflows
<1>1. TypeOK /\ OnTime /\ [Next]_vars
        => [\A d \in 0 .. MaxGap : Send(d) =>
              LET t == Elapsed(now + d)
              IN  t \in Interval .. Interval + MaxGap - 1 \/ Overflows(t)]_vars
  BY SendsInTime
<1>2. OnTime => (pc = "play" => Elapsed(now) < Interval \/ Overflows(Elapsed(now)))
  BY DEF OnTime
<1>3. QED
  BY <1>1, <1>2, InitOnTime, NextOnTime, PlayerTypeCorrect, PTL
  DEF Spec, PacedUnlessTheWordOverflows
=============================================================================
