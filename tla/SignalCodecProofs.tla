-------------------------- MODULE SignalCodecProofs --------------------------
(***************************************************************************)
(* Proofs about SignalCodec, for requests of any number of lines with      *)
(* words and numbers of any width.                                         *)
(*                                                                         *)
(* What Width and FlattenSeq compute is shown by induction: the library    *)
(* says that < is well founded on the natural numbers, and a set of        *)
(* numbers takes the place of the formula (NatSetInduction).               *)
(***************************************************************************)
EXTENDS SignalCodec, FiniteSetTheorems, SequenceTheorems, TLAPS

-----------------------------------------------------------------------------
(***************************************************************************)
(* Natural numbers.                                                        *)
(***************************************************************************)

\* A set of natural numbers that is not empty has a least element.
LEMMA MinIs ==
  ASSUME NEW S \in SUBSET Nat, S # {}
  PROVE  Min(S) \in S /\ \A y \in S : Min(S) <= y
<1> DEFINE R == OpToRel(<, Nat)
<1>1. IsWellFoundedOn(R, Nat) BY NatLessThanWellFounded
<1>2. \A x, y \in Nat : y < x => <<y, x>> \in R BY DEF OpToRel
<1> HIDE DEF R
<1>3. PICK x \in S : \A y \in S : ~(<<y, x>> \in R) BY <1>1, WFMin
<1>4. \A y \in S : x <= y
  <2>1. SUFFICES ASSUME NEW y \in S, ~(x <= y) PROVE FALSE OBVIOUS
  <2>2. x \in Nat /\ y \in Nat OBVIOUS
  <2>3. y < x BY <2>1, <2>2
  <2>4. QED BY <1>2, <1>3, <2>2, <2>3
<1>5. QED BY <1>3, <1>4 DEF Min

\* Induction, with a set in place of the formula.
LEMMA NatSetInduction ==
  ASSUME NEW S, 0 \in S, \A n \in Nat : n \in S => n + 1 \in S
  PROVE  Nat \subseteq S
<1>1. SUFFICES ASSUME Nat \ S # {} PROVE FALSE OBVIOUS
<1> DEFINE x == Min(Nat \ S)
<1>2. x \in Nat \ S /\ \A y \in Nat \ S : x <= y BY <1>1, MinIs
<1> HIDE DEF x
<1>3. x # 0 /\ x - 1 \in Nat /\ ~(x <= x - 1) /\ (x - 1) + 1 = x BY <1>2
<1>4. x - 1 \in S BY <1>2, <1>3
<1>5. QED BY <1>2, <1>3, <1>4

\* F[i] makes the i-th value of the one before it, and g has all n values.
Steps(X, n, F) == F \in [1 .. n -> [X -> X]]

Computes(X, b, n, F, g) ==
    g \in [0 .. n -> X] /\ g[0] = b /\ \A i \in 1 .. n : g[i] = F[i][g[i - 1]]

\* Whatever the steps, there is a function that computes them.
LEMMA RecursiveFunction ==
  ASSUME NEW X, NEW b \in X, NEW n \in Nat, NEW F, Steps(X, n, F)
  PROVE  \E g : Computes(X, b, n, F, g)
<1> USE DEF Steps
<1> DEFINE Upto(m) == \E g \in [0 .. m -> X] :
                         g[0] = b /\ \A i \in 1 .. m : g[i] = F[i][g[i - 1]]
           S == {m \in Nat : m <= n => Upto(m)}
<1>1. 0 \in S
  <2> DEFINE h == [i \in 0 .. 0 |-> b]
  <2>1. h \in [0 .. 0 -> X] /\ h[0] = b /\ \A i \in 1 .. 0 : FALSE OBVIOUS
  <2> HIDE DEF h
  <2>2. Upto(0) BY <2>1
  <2>3. QED BY <2>2
<1>2. ASSUME NEW m \in Nat, m \in S PROVE m + 1 \in S
  <2>1. SUFFICES ASSUME m + 1 <= n PROVE Upto(m + 1) OBVIOUS
  <2>2. PICK g \in [0 .. m -> X] : g[0] = b /\ \A i \in 1 .. m : g[i] = F[i][g[i - 1]]
    BY <1>2, <2>1
  <2> DEFINE h == [i \in 0 .. m + 1 |-> IF i = m + 1 THEN F[m + 1][g[m]] ELSE g[i]]
  <2>3. m \in 0 .. m /\ m + 1 \in 1 .. n BY <2>1
  <2>4. F[m + 1][g[m]] \in X BY <2>2, <2>3
  <2>5. h \in [0 .. m + 1 -> X] BY <2>4
  <2>6. h[0] = b BY <2>2
  <2>7. ASSUME NEW i \in 1 .. m + 1 PROVE h[i] = F[i][h[i - 1]]
    <3>1. CASE i = m + 1
      <4>1. i - 1 = m /\ m \in 0 .. m + 1 /\ m # m + 1 /\ i \in 0 .. m + 1 BY <3>1
      <4>2. h[i - 1] = g[m] BY <4>1
      <4>3. QED BY <3>1, <4>1, <4>2
    <3>2. CASE i # m + 1
      <4>1. i \in 1 .. m /\ i - 1 \in 0 .. m /\ i - 1 # m + 1 BY <3>2
      <4>2. QED BY <2>2, <4>1
    <3>3. QED BY <3>1, <3>2
  <2> HIDE DEF h
  <2>8. QED BY <2>5, <2>6, <2>7
<1> HIDE DEF S
<1>3. Nat \subseteq S BY <1>1, <1>2, NatSetInduction
<1>4. Upto(n) BY <1>3 DEF S
<1>5. QED BY <1>4 DEF Computes

-----------------------------------------------------------------------------
(***************************************************************************)
(* Tokens and texts.                                                       *)
(***************************************************************************)
\* The words that the codec writes itself, or leaves of others.
OwnWords ==
    {"user", "host", "reason", "body", "127.0.0.1", "tail", "rest", "head"} \cup DOMAIN NameLth

Chars == {SP, CR, LF, COLON, AT, LT, GT, NUL}

Token ==
    [word : Words \cup OwnWords, len : Nat \ {0}] \cup [num : Int, len : Nat \ {0}]
        \cup Chars

Text == {s \in Seq(Token) : s # <<>> /\ s[Len(s)] = NUL}

LEMMA CharsAreTokens == Chars \subseteq Token /\ \A c \in Chars : c.len = 1
<1>1. /\ SP.len = 1 /\ CR.len = 1 /\ LF.len = 1 /\ COLON.len = 1
      /\ AT.len = 1 /\ LT.len = 1 /\ GT.len = 1 /\ NUL.len = 1
  BY DEF SP, CR, LF, COLON, AT, LT, GT, NUL, Char
<1>2. QED BY <1>1 DEF Chars, Token

LEMMA CharsDiffer ==
  /\ SP \notin {CR, LF, COLON, AT, LT, GT, NUL} /\ CR \notin {LF, COLON, AT, LT, GT, NUL}
  /\ LF \notin {COLON, AT, LT, GT, NUL} /\ COLON \notin {AT, LT, GT, NUL}
  /\ AT \notin {LT, GT, NUL} /\ LT \notin {GT, NUL} /\ GT # NUL
<1>1. ASSUME NEW c, NEW d, c # d PROVE Char(c) # Char(d) BY <1>1 DEF Char
<1>2. SP \notin {CR, LF, COLON, AT, LT, GT, NUL}
  BY <1>1 DEF SP, CR, LF, COLON, AT, LT, GT, NUL
<1>3. CR \notin {LF, COLON, AT, LT, GT, NUL} BY <1>1 DEF CR, LF, COLON, AT, LT, GT, NUL
<1>4. LF \notin {COLON, AT, LT, GT, NUL} BY <1>1 DEF LF, COLON, AT, LT, GT, NUL
<1>5. COLON \notin {AT, LT, GT, NUL} BY <1>1 DEF COLON, AT, LT, GT, NUL
<1>6. AT \notin {LT, GT, NUL} /\ LT \notin {GT, NUL} /\ GT # NUL
  BY <1>1 DEF AT, LT, GT, NUL
<1>7. QED BY <1>2, <1>3, <1>4, <1>5, <1>6

LEMMA WordIs ==
  ASSUME NEW w \in Words \cup OwnWords, NEW n \in Nat \ {0}
  PROVE  /\ Word(w, n) \in Token /\ Word(w, n).len = n /\ Word(w, n).word = w
         /\ Word(w, n) \notin Chars
<1>1. ASSUME NEW c PROVE Char(c) # Word(w, n) BY DEF Char, Word
<1>2. Word(w, n) \notin Chars BY <1>1 DEF Chars, SP, CR, LF, COLON, AT, LT, GT, NUL
<1>3. QED BY <1>2 DEF Word, Token

LEMMA ValueIs ==
  ASSUME NEW v \in Values
  PROVE  v \notin Chars /\ v.len \in Nat \ {0} /\ v \in Token
<1>1. ASSUME NEW c PROVE Char(c) # v BY DEF Char, Values
<1>2. v \notin Chars BY <1>1 DEF Chars, SP, CR, LF, COLON, AT, LT, GT, NUL
<1>3. v.len \in Nat \ {0} /\ v \in Token BY DEF Values, Token
<1>4. QED BY <1>2, <1>3

LEMMA TokenLen == \A t \in Token : t.len \in Nat \ {0}
BY CharsAreTokens DEF Token

\* A number has one to ten digits.
LEMMA NumIs ==
  ASSUME NEW n \in Int
  PROVE  Num(n) \in Values /\ Num(n).num = n /\ Num(n).len \in 1 .. 11
<1> DEFINE K == {k \in 1 .. 9 : (IF n < 0 THEN -n ELSE n) >= 10 ^ k}
<1>1. IsFiniteSet(1 .. 9) /\ Cardinality(1 .. 9) = 9
  <2>1. \A m \in Nat \ {0} : IsFiniteSet(1 .. m) /\ Cardinality(1 .. m) = (m - 1) + 1
    BY FS_Interval
  <2>2. 9 \in Nat \ {0} /\ (9 - 1) + 1 = 9 OBVIOUS
  <2>3. QED BY <2>1, <2>2
<1>2. K \subseteq 1 .. 9 OBVIOUS
<1>3. IsFiniteSet(K) /\ Cardinality(K) <= 9 BY <1>1, <1>2, FS_Subset
<1>4. Cardinality(K) \in Nat BY <1>3, FS_CardinalityType
<1>5. Digits(n) = 1 + Cardinality(K) BY DEF Digits
<1> HIDE DEF K
<1>6. Digits(n) + (IF n < 0 THEN 1 ELSE 0) \in 1 .. 11 BY <1>3, <1>4, <1>5
<1>7. QED BY <1>6 DEF Num, Values

-----------------------------------------------------------------------------
(***************************************************************************)
(* Width.                                                                  *)
(***************************************************************************)
\* g sums up the widths of the tokens of s.
Sums(s, g) ==
    /\ g \in [0 .. Len(s) -> Nat] /\ g[0] = 0
    /\ \A k \in 1 .. Len(s) : g[k] = g[k - 1] + s[k].len

LEMMA SumsExist ==
  ASSUME NEW s \in Seq(Token) PROVE \E g : Sums(s, g)
<1> DEFINE n == Len(s)
           F == [k \in 1 .. n |-> [x \in Nat |-> x + s[k].len]]
<1>1. \A k \in 1 .. n : s[k].len \in Nat BY TokenLen
<1>2. F \in [1 .. n -> [Nat -> Nat]] BY <1>1
<1>3. \A k \in 1 .. n, x \in Nat : F[k][x] = x + s[k].len OBVIOUS
<1>4. n \in Nat OBVIOUS
<1> HIDE DEF F
<1>5. PICK g \in [0 .. n -> Nat] : g[0] = 0 /\ \A i \in 1 .. n : g[i] = F[i][g[i - 1]]
  <2>1. Steps(Nat, n, F) BY <1>2 DEF Steps
  <2>2. \E g : Computes(Nat, 0, n, F, g) BY <1>4, <2>1, RecursiveFunction
  <2>3. QED BY <2>2 DEF Computes
<1>6. \A i \in 1 .. n : g[i - 1] \in Nat BY <1>5
<1>7. \A i \in 1 .. n : g[i] = g[i - 1] + s[i].len BY <1>3, <1>5, <1>6
<1>8. Sums(s, g) BY <1>5, <1>7 DEF Sums
<1>9. QED BY <1>8

LEMMA WidthIsSum ==
  ASSUME NEW s \in Seq(Token), NEW g, Sums(s, g)
  PROVE  Width(s) = g[Len(s)]
<1> DEFINE W == CHOOSE w : w = [k \in 0 .. Len(s) |-> IF k = 0 THEN 0 ELSE w[k - 1] + s[k].len]
           n == Len(s)
<1>1. Width(s) = W[n] BY DEF Width
<1>2. g = [k \in 0 .. n |-> IF k = 0 THEN 0 ELSE g[k - 1] + s[k].len]
  <2>1. \A k \in 0 .. n : k # 0 => k \in 1 .. n OBVIOUS
  <2>2. QED BY <2>1 DEF Sums
<1>3. W = [k \in 0 .. n |-> IF k = 0 THEN 0 ELSE W[k - 1] + s[k].len] BY <1>2
<1> HIDE DEF W
<1> DEFINE S == {k \in Nat : k <= n => W[k] = g[k]}
<1>4. n \in Nat OBVIOUS
<1>5. 0 \in S BY <1>3, <1>4 DEF Sums
<1>6. ASSUME NEW k \in Nat, k \in S PROVE k + 1 \in S
  <2>1. SUFFICES ASSUME k + 1 <= n PROVE W[k + 1] = g[k + 1] OBVIOUS
  <2>2. k + 1 \in 1 .. n /\ k + 1 \in 0 .. n /\ k + 1 # 0 /\ (k + 1) - 1 = k BY <1>4, <2>1
  <2>3. W[k + 1] = W[k] + s[k + 1].len BY <1>3, <2>2
  <2>4. g[k + 1] = g[k] + s[k + 1].len BY <2>2 DEF Sums
  <2>5. W[k] = g[k] BY <1>4, <1>6, <2>1
  <2>6. QED BY <2>3, <2>4, <2>5
<1> HIDE DEF S
<1>7. Nat \subseteq S BY <1>5, <1>6, NatSetInduction
<1>8. W[n] = g[n] BY <1>4, <1>7 DEF S
<1>9. QED BY <1>1, <1>8

LEMMA WidthType ==
  ASSUME NEW s \in Seq(Token) PROVE Width(s) \in Nat
<1>1. PICK g : Sums(s, g) BY SumsExist
<1>2. g[Len(s)] \in Nat BY <1>1 DEF Sums
<1>3. QED BY <1>1, <1>2, WidthIsSum

LEMMA WidthEmpty == Width(<<>>) = 0
<1>1. <<>> \in Seq(Token) /\ Len(<<>>) = 0 OBVIOUS
<1>2. Sums(<<>>, [k \in 0 .. 0 |-> 0]) BY <1>1 DEF Sums
<1>3. QED BY <1>1, <1>2, WidthIsSum

LEMMA WidthAppend ==
  ASSUME NEW s \in Seq(Token), NEW t \in Token
  PROVE  Width(Append(s, t)) = Width(s) + t.len
<1> DEFINE n == Len(s)
           u == Append(s, t)
<1>1. PICK g : Sums(s, g) BY SumsExist
<1>2. u \in Seq(Token) /\ Len(u) = n + 1 /\ n \in Nat /\ u[n + 1] = t
      /\ \A k \in 1 .. n : u[k] = s[k]
  OBVIOUS
<1> DEFINE h == [k \in 0 .. n + 1 |-> IF k = n + 1 THEN g[n] + t.len ELSE g[k]]
<1>3. t.len \in Nat BY TokenLen
<1>4. g[n] \in Nat BY <1>1, <1>2 DEF Sums
<1>5. Sums(u, h)
  <2>1. h \in [0 .. n + 1 -> Nat] BY <1>1, <1>2, <1>3, <1>4 DEF Sums
  <2>2. h[0] = 0 BY <1>1, <1>2 DEF Sums
  <2>3. ASSUME NEW k \in 1 .. n + 1 PROVE h[k] = h[k - 1] + u[k].len
    <3>1. CASE k = n + 1
      <4>1. k - 1 = n /\ n \in 0 .. n + 1 /\ n # n + 1 /\ k \in 0 .. n + 1 BY <1>2, <3>1
      <4>2. h[k - 1] = g[n] /\ h[k] = g[n] + t.len BY <3>1, <4>1
      <4>3. QED BY <1>2, <3>1, <4>2
    <3>2. CASE k # n + 1
      <4>1. k \in 1 .. n /\ k - 1 \in 0 .. n /\ k - 1 # n + 1 BY <1>2, <3>2
      <4>2. h[k] = g[k] /\ h[k - 1] = g[k - 1] BY <4>1
      <4>3. QED BY <1>1, <1>2, <4>1, <4>2 DEF Sums
    <3>3. QED BY <3>1, <3>2
  <2> HIDE DEF h, u
  <2>4. QED BY <1>2, <2>1, <2>2, <2>3 DEF Sums
<1>6. h[n + 1] = g[n] + t.len BY <1>2
<1> HIDE DEF h, u
<1>7. Width(u) = h[n + 1] /\ Width(s) = g[n] BY <1>1, <1>2, <1>5, WidthIsSum
<1>8. QED BY <1>6, <1>7 DEF u

LEMMA WidthOne ==
  ASSUME NEW t \in Token PROVE Width(<<t>>) = t.len
<1>1. <<>> \in Seq(Token) /\ Append(<<>>, t) = <<t>> /\ t.len \in Nat BY TokenLen
<1>2. Width(Append(<<>>, t)) = Width(<<>>) + t.len BY <1>1, WidthAppend
<1>3. QED BY <1>1, <1>2, WidthEmpty

\* Writing over a value never makes it wider than the wider of the two.
LEMMA OverwriteType ==
  ASSUME NEW s \in Seq(Token), NEW t \in Seq(Token)
  PROVE  /\ Overwrite(s, t) \in Seq(Token)
         /\ Width(Overwrite(s, t)) = IF Width(t) >= Width(s) THEN Width(t) ELSE Width(s)
<1>1. Width(s) \in Nat /\ Width(t) \in Nat BY WidthType
<1>2. CASE Width(t) >= Width(s) BY <1>2 DEF Overwrite
<1>3. CASE ~(Width(t) >= Width(s))
  <2> DEFINE w == Word("tail", Width(s) - Width(t))
  <2>1. Width(s) - Width(t) \in Nat \ {0} BY <1>1, <1>3
  <2>2. w \in Token /\ w.len = Width(s) - Width(t)
    BY <2>1, WordIs DEF OwnWords
  <2>3. Overwrite(s, t) = Append(t, w) BY <1>3 DEF Overwrite
  <2> HIDE DEF w
  <2>4. Width(Append(t, w)) = Width(t) + w.len BY <2>2, WidthAppend
  <2>5. QED BY <1>1, <1>3, <2>2, <2>3, <2>4
<1>4. QED BY <1>2, <1>3

-----------------------------------------------------------------------------
(***************************************************************************)
(* The cursor.                                                             *)
(***************************************************************************)

\* Where a copying loop stops.
LEMMA StopIs ==
  ASSUME NEW s \in Text, NEW stops
  PROVE  /\ Stop(s, stops) \in 1 .. Len(s) /\ s[Stop(s, stops)] \in stops \cup {NUL}
         /\ \A j \in 1 .. Stop(s, stops) - 1 : s[j] \notin stops \cup {NUL}
<1> DEFINE I == {i \in DOMAIN s : s[i] \in stops \cup {NUL}}
<1>1. s \in Seq(Token) /\ Len(s) \in Nat \ {0} /\ s[Len(s)] = NUL BY DEF Text
<1>2. DOMAIN s = 1 .. Len(s) BY <1>1
<1>3. Len(s) \in I /\ I \in SUBSET Nat BY <1>1, <1>2
<1>4. Stop(s, stops) = Min(I) BY DEF Stop
<1>5. Min(I) \in I /\ \A y \in I : Min(I) <= y BY <1>3, MinIs
<1> DEFINE m == Min(I)
<1>6. m \in 1 .. Len(s) /\ s[m] \in stops \cup {NUL} BY <1>2, <1>5
<1>7. \A y \in I : m <= y BY <1>5
<1>8. Stop(s, stops) = m BY <1>4
<1> HIDE DEF m
<1>9. ASSUME NEW j \in 1 .. m - 1 PROVE s[j] \notin stops \cup {NUL}
  <2>1. j \in Int /\ ~(m <= j) /\ j \in 1 .. Len(s) BY <1>1, <1>6
  <2>2. j \notin I BY <1>7, <2>1
  <2>3. QED BY <1>2, <2>1, <2>2
<1>10. QED BY <1>6, <1>8, <1>9

LEMMA CutType ==
  ASSUME NEW s \in Text, NEW stops
  PROVE  /\ Taken(s, stops) \in Seq(Token) /\ After(s, stops) \in Text
         /\ Head(After(s, stops)) \in stops \cup {NUL}
<1> DEFINE i == Stop(s, stops)
<1>1. s \in Seq(Token) /\ Len(s) \in Nat \ {0} /\ s[Len(s)] = NUL BY DEF Text
<1>2. i \in 1 .. Len(s) /\ s[i] \in stops \cup {NUL} BY StopIs
<1>3. Taken(s, stops) = SubSeq(s, 1, i - 1) /\ After(s, stops) = SubSeq(s, i, Len(s))
  BY DEF Taken, After
<1> HIDE DEF i
<1> DEFINE u == SubSeq(s, i, Len(s))
           m == (Len(s) - i) + 1
<1>4. SubSeq(s, 1, i - 1) \in Seq(Token) BY <1>1, <1>2
<1>5. /\ u \in Seq(Token) /\ Len(u) = m
      /\ \A k \in 1 .. m : u[k] = s[(i + k) - 1]
  BY <1>1, <1>2
<1>6. m \in Nat \ {0} /\ (i + m) - 1 = Len(s) /\ (i + 1) - 1 = i BY <1>1, <1>2
<1> HIDE DEF u, m
<1>7. m \in 1 .. m /\ 1 \in 1 .. m BY <1>6
<1>8. u[m] = NUL /\ u[1] = s[i] BY <1>1, <1>5, <1>6, <1>7
<1>9. u # <<>> /\ Head(u) = u[1] BY <1>5, <1>6
<1>10. u \in Text BY <1>5, <1>8, <1>9 DEF Text
<1>11. QED BY <1>2, <1>3, <1>4, <1>8, <1>9, <1>10 DEF u

\* No token of s is one of the delimiters.
Free(s, stops) == \A i \in 1 .. Len(s) : s[i] \notin stops \cup {NUL}

LEMMA TakenFree ==
  ASSUME NEW s \in Text, NEW stops PROVE Free(Taken(s, stops), stops)
<1> DEFINE i == Stop(s, stops)
           t == SubSeq(s, 1, i - 1)
<1>1. s \in Seq(Token) BY DEF Text
<1>2. i \in 1 .. Len(s) /\ \A j \in 1 .. i - 1 : s[j] \notin stops \cup {NUL} BY StopIs
<1>3. Taken(s, stops) = t BY DEF Taken
<1> HIDE DEF i
<1>4. Len(t) = i - 1 /\ \A j \in 1 .. i - 1 : t[j] = s[j] BY <1>1, <1>2
<1> HIDE DEF t
<1>5. QED BY <1>2, <1>3, <1>4 DEF Free

\* A value stays free of them when it is written over another one.
LEMMA OverwriteFree ==
  ASSUME NEW s \in Seq(Token), NEW t \in Seq(Token), NEW stops \in SUBSET Chars, Free(t, stops)
  PROVE  Free(Overwrite(s, t), stops)
<1>1. Width(s) \in Nat /\ Width(t) \in Nat BY WidthType
<1>2. CASE Width(t) >= Width(s) BY <1>2 DEF Overwrite
<1>3. CASE ~(Width(t) >= Width(s))
  <2> DEFINE w == Word("tail", Width(s) - Width(t))
             u == Append(t, w)
  <2>1. Width(s) - Width(t) \in Nat \ {0} BY <1>1, <1>3
  <2>2. w \in Token /\ w \notin Chars BY <2>1, WordIs DEF OwnWords
  <2>3. Overwrite(s, t) = u BY <1>3 DEF Overwrite
  <2>4. w \notin stops \cup {NUL} BY <2>2 DEF Chars
  <2> HIDE DEF w
  <2>5. Len(u) = Len(t) + 1 /\ u[Len(t) + 1] = w /\ \A i \in 1 .. Len(t) : u[i] = t[i]
    BY <2>2, AppendProperties
  <2> HIDE DEF u
  <2>6. ASSUME NEW i \in 1 .. Len(u) PROVE u[i] \notin stops \cup {NUL}
    <3>1. i \in 1 .. Len(t) \/ i = Len(t) + 1 BY <2>5
    <3>2. QED BY <2>4, <2>5, <3>1 DEF Free
  <2>7. QED BY <2>3, <2>6 DEF Free
<1>4. QED BY <1>2, <1>3

LEMMA AdvanceType ==
  ASSUME NEW s \in Text PROVE Advance(s) \in Text
<1>1. s \in Seq(Token) /\ Len(s) \in Nat \ {0} /\ s[Len(s)] = NUL /\ Head(s) = s[1]
  BY DEF Text
<1>2. CASE Head(s) = NUL BY <1>2 DEF Advance
<1>3. CASE Head(s) # NUL
  <2>1. Len(s) # 1 BY <1>1, <1>3
  <2> DEFINE u == Tail(s)
             m == Len(s) - 1
  <2>2. m \in Nat \ {0} /\ m + 1 = Len(s) BY <1>1, <2>1
  <2>3. u \in Seq(Token) /\ Len(u) = m BY <1>1
  <2>4. \A k \in 1 .. m : u[k] = s[k + 1] BY <1>1
  <2> HIDE DEF u, m
  <2>5. m \in 1 .. m BY <2>2
  <2>6. u[m] = NUL /\ u # <<>> BY <1>1, <2>2, <2>3, <2>4, <2>5
  <2>7. u \in Text BY <2>3, <2>6 DEF Text
  <2>8. CASE Head(s).len = 1 BY <1>3, <2>7, <2>8 DEF Advance, u
  <2>9. CASE Head(s).len # 1
    <3> DEFINE w == Word("rest", Head(s).len - 1)
    <3>1. Head(s).len \in Nat \ {0} BY <1>1, TokenLen
    <3>2. Head(s).len - 1 \in Nat \ {0} BY <2>9, <3>1
    <3>3. w \in Token BY <3>2, WordIs DEF OwnWords
    <3> DEFINE v == <<w>> \o u
    <3>4. Advance(s) = v BY <1>3, <2>9 DEF Advance, u
    <3> HIDE DEF w
    <3>5. /\ v \in Seq(Token) /\ Len(v) = m + 1
          /\ \A k \in 1 .. m : v[k + 1] = u[k]
      BY <2>2, <2>3, <3>3
    <3> HIDE DEF v
    <3>6. v[m + 1] = NUL /\ v # <<>> BY <2>2, <2>5, <2>6, <3>5
    <3>7. QED BY <3>4, <3>5, <3>6 DEF Text
  <2>10. QED BY <2>8, <2>9
<1>4. QED BY <1>2, <1>3

LEMMA SkipType ==
  ASSUME NEW s \in Text, NEW n PROVE Skip(s, n) \in Text
BY AdvanceType DEF Skip

\* What atoi returns is a number.
LEMMA AtoiType ==
  ASSUME NEW s \in Seq(Token) PROVE Atoi(s) \in Int
<1> DEFINE I == {i \in DOMAIN s : s[i] # SP}
<1>1. ASSUME NEW t \in Token, "num" \in DOMAIN t PROVE t.num \in Int
  <2>1. t \notin [word : Words \cup OwnWords, len : Nat \ {0}] BY <1>1
  <2>2. t \notin Chars
    <3>1. ASSUME NEW c PROVE "num" \notin DOMAIN Char(c) BY DEF Char
    <3>2. QED BY <1>1, <3>1 DEF Chars, SP, CR, LF, COLON, AT, LT, GT, NUL
  <2>3. t \in [num : Int, len : Nat \ {0}] BY <2>1, <2>2 DEF Token
  <2>4. QED BY <2>3
<1>2. CASE I # {} /\ "num" \in DOMAIN s[Min(I)]
  <2>1. Atoi(s) = s[Min(I)].num BY <1>2 DEF Atoi
  <2>2. I \in SUBSET Nat BY <1>2
  <2>3. Min(I) \in I BY <1>2, <2>2, MinIs
  <2>4. s[Min(I)] \in Token BY <2>3
  <2>5. QED BY <1>1, <1>2, <2>1, <2>4
<1>3. CASE ~(I # {} /\ "num" \in DOMAIN s[Min(I)])
  <2>1. Atoi(s) = 0 BY <1>3 DEF Atoi
  <2>2. QED BY <2>1
<1>4. QED BY <1>2, <1>3

-----------------------------------------------------------------------------
(***************************************************************************)
(* Fields and their values.                                                *)
(***************************************************************************)
Kinds == {"word", "dword", "string", "chars", "host"}

\* The start line and each header have one to three fields.
LEMMA FieldsAre ==
  ASSUME NEW h \in DOMAIN Fields
  PROVE  /\ Len(Fields[h]) \in 1 .. 3 /\ DOMAIN Fields[h] = 1 .. Len(Fields[h])
         /\ \A i \in 1 .. Len(Fields[h]) :
              Fields[h][i].limit \in Nat \ {0} /\ Fields[h][i].kind \in Kinds
<1>1. ASSUME NEW a, NEW b \in Nat \ {0}, NEW c, NEW d \in Kinds
      PROVE  Field(a, b, c, d).limit \in Nat \ {0} /\ Field(a, b, c, d).kind \in Kinds
  BY DEF Field
<1> DEFINE Ok(s) == /\ Len(s) \in 1 .. 3 /\ DOMAIN s = 1 .. Len(s)
                    /\ \A i \in 1 .. Len(s) : s[i].limit \in Nat \ {0} /\ s[i].kind \in Kinds
<1>2. Ok(StatusLine) BY <1>1 DEF StatusLine, REASON_LTH, Kinds
<1>3. Ok(RequestLine) BY <1>1 DEF RequestLine, METHOD_LTH, USER_LTH, NODE_ADDR_LTH, Kinds
<1>4. Ok(DecodeCallID) BY <1>1 DEF DecodeCallID, ID_TOKEN_LTH, Kinds
<1>5. Ok(DecodeCntLength) BY <1>1 DEF DecodeCntLength, Kinds
<1>6. Ok(DecodeCSeq) BY <1>1 DEF DecodeCSeq, METHOD_LTH, Kinds
<1>7. Ok(DecodeEvent) BY <1>1 DEF DecodeEvent, EVENT_NAME_LTH, Kinds
<1>8. Ok(DecodeFrom) BY <1>1 DEF DecodeFrom, USER_LTH, Kinds
<1>9. Ok(DecodeMedia) BY <1>1 DEF DecodeMedia, NODE_ADDR_LTH, HOST_PORT_LTH, Kinds
<1>10. Ok(DecodeUserAgent) BY <1>1 DEF DecodeUserAgent, COMMEN_LTH, Kinds
<1> HIDE DEF Ok
<1>11. Ok(Fields[h])
  BY <1>2, <1>3, <1>4, <1>5, <1>6, <1>7, <1>8, <1>9, <1>10 DEF Fields
<1>12. QED BY <1>11 DEF Ok

\* What a field of each kind may hold, and what one that is full does.
Holds(f, v) ==
    /\ f.kind = "word" => v \in Word16
    /\ f.kind = "dword" => v \in Int
    /\ f.kind \notin {"word", "dword"} => v \in Seq(Token) /\ Width(v) < f.limit
    /\ f.kind \notin {"word", "dword"} /\ f.stops = {CR} => Free(v, {CR})

Full(f, v) ==
    /\ f.kind \notin {"word", "dword"} /\ v \in Seq(Token) /\ Width(v) = f.limit
    /\ f.stops = {CR} => Free(v, {CR})

LEMMA CutToWord ==
  ASSUME NEW n \in Int PROVE n % 65536 \in Word16
<1>1. n % 65536 \in Int /\ 0 <= n % 65536 /\ n % 65536 <= 65535 OBVIOUS
<1> DEFINE x == n % 65536
           top == 65535
<1>2. x \in Int /\ 0 <= x /\ x <= top BY <1>1
<1>3. Word16 = 0 .. top BY DEF Word16
<1> HIDE DEF x, top
<1>4. x \in 0 .. top BY <1>2
<1>5. QED BY <1>3, <1>4 DEF x

\* A value that fits is one its field may hold, and so is one written over it.
LEMMA ValueType ==
  ASSUME NEW f, f.kind \in Kinds, f.limit \in Nat \ {0},
         NEW old, old = <<>> \/ Holds(f, old),
         NEW new \in Seq(Token), Width(new) < f.limit, Free(new, f.stops)
  PROVE  Holds(f, Value(f.kind, old, new))
<1>1. CASE f.kind = "word" BY <1>1, AtoiType, CutToWord DEF Holds, Value
<1>2. CASE f.kind = "dword" BY <1>2, AtoiType DEF Holds, Value
<1>3. CASE f.kind = "string"
  <2>1. Value(f.kind, old, new) = new BY <1>3 DEF Value
  <2>2. QED BY <1>3, <2>1 DEF Holds
<1>4. CASE f.kind \notin {"word", "dword", "string"}
  <2>1. Value(f.kind, old, new) = Overwrite(old, new) BY <1>4 DEF Value
  <2>2. old \in Seq(Token) /\ Width(old) < f.limit
    <3>1. CASE old = <<>>
      <4>1. Width(old) = 0 /\ old \in Seq(Token) BY <3>1, WidthEmpty
      <4>2. QED BY <4>1
    <3>2. CASE Holds(f, old) BY <1>4, <3>2 DEF Holds
    <3>3. QED BY <3>1, <3>2
  <2>3. f.stops = {CR} => Free(Overwrite(old, new), {CR})
    <3>1. {CR} \in SUBSET Chars BY DEF Chars
    <3>2. QED BY <2>2, <3>1, OverwriteFree
  <2>4. QED BY <1>4, <2>1, <2>2, <2>3, OverwriteType DEF Holds
<1>5. QED BY <1>1, <1>2, <1>3, <1>4

-----------------------------------------------------------------------------
(***************************************************************************)
(* Texts that are put together.                                            *)
(***************************************************************************)
LEMMA JoinedText ==
  ASSUME NEW s \in Seq(Token), NEW t \in Text PROVE s \o t \in Text
<1> DEFINE u == s \o t
           n == Len(s)
           m == Len(t)
<1>1. t \in Seq(Token) /\ m \in Nat \ {0} /\ t[m] = NUL BY DEF Text
<1>2. u \in Seq(Token) /\ Len(u) = n + m /\ n \in Nat
      /\ \A k \in 1 .. m : u[n + k] = t[k]
  BY <1>1
<1> HIDE DEF u, n, m
<1>3. m \in 1 .. m /\ n + m \in Nat \ {0} BY <1>1, <1>2
<1>4. u[n + m] = NUL /\ u # <<>> BY <1>1, <1>2, <1>3
<1>5. u \in Text BY <1>2, <1>4 DEF Text
<1>6. QED BY <1>5 DEF u

LEMMA EndOfText == <<NUL>> \in Text /\ NUL \in Token
<1>1. NUL \in Token BY CharsAreTokens DEF Chars
<1>2. <<NUL>> \in Seq(Token) /\ <<NUL>> # <<>> /\ Len(<<NUL>>) = 1 /\ <<NUL>>[1] = NUL
  BY <1>1
<1>3. QED BY <1>1, <1>2 DEF Text

\* f[i] is what the first i of some sequences make one behind the other.
Flattens(seqs, f) ==
    /\ f \in [1 .. Len(seqs) -> Seq(Token)]
    /\ f[1] = seqs[1]
    /\ \A i \in 2 .. Len(seqs) : f[i] = f[i - 1] \o seqs[i]

LEMMA FlattenIs ==
  ASSUME NEW seqs \in Seq(Seq(Token)), seqs # <<>>
  PROVE  \E f : Flattens(seqs, f) /\ FlattenSeq(seqs) = f[Len(seqs)]
<1> DEFINE n == Len(seqs)
           X == Seq(Token)
           F == [i \in 1 .. n |-> [x \in X |-> IF i = 1 THEN seqs[i] ELSE x \o seqs[i]]]
<1>1. n \in Nat \ {0} /\ \A i \in 1 .. n : seqs[i] \in X OBVIOUS
<1>2. \A i \in 1 .. n : \A x \in X :
        F[i][x] = IF i = 1 THEN seqs[i] ELSE x \o seqs[i]
  OBVIOUS
<1>3. \A i \in 1 .. n : F[i] \in [X -> X]
  <2>1. ASSUME NEW i \in 1 .. n, NEW x \in X
        PROVE  (IF i = 1 THEN seqs[i] ELSE x \o seqs[i]) \in X
    BY <1>1
  <2>2. QED BY <2>1
<1>4. Steps(X, n, F) BY <1>3 DEF Steps
<1> HIDE DEF F
<1>5. <<>> \in X OBVIOUS
<1> HIDE DEF X
<1>6. PICK g : Computes(X, <<>>, n, F, g) BY <1>1, <1>4, <1>5, RecursiveFunction
<1> DEFINE f == [i \in 1 .. n |-> g[i]]
<1>7. /\ \A i \in 1 .. n : f[i] \in X /\ (i # 1 => i - 1 \in 1 .. n)
      /\ \A i \in 1 .. n : f[i] = IF i = 1 THEN seqs[i] ELSE f[i - 1] \o seqs[i]
  <2> HIDE DEF n
  <2>1. \A i \in 1 .. n : i - 1 \in 0 .. n /\ i \in 0 .. n BY <1>1
  <2>2. \A i \in 1 .. n : g[i - 1] \in X /\ g[i] \in X BY <1>6, <2>1 DEF Computes
  <2>3. \A i \in 1 .. n : i # 1 => i - 1 \in 1 .. n BY <1>1
  <2>4. \A i \in 1 .. n : g[i] = IF i = 1 THEN seqs[i] ELSE g[i - 1] \o seqs[i]
    BY <1>2, <1>6, <2>2 DEF Computes
  <2>5. QED BY <2>2, <2>3, <2>4
<1>8. f = [i \in 1 .. n |-> IF i = 1 THEN seqs[i] ELSE f[i - 1] \o seqs[i]]
      /\ f \in [1 .. n -> X]
  BY <1>7
<1>9. Flattens(seqs, f)
  <2>1. 1 \in 1 .. n /\ \A i \in 2 .. n : i \in 1 .. n /\ i # 1 BY <1>1
  <2> HIDE DEF f
  <2>2. QED BY <1>7, <1>8, <2>1 DEF Flattens, X
<1> HIDE DEF f
<1> DEFINE W == CHOOSE w : w = [i \in 1 .. n |-> IF i = 1 THEN seqs[i] ELSE w[i - 1] \o seqs[i]]
<1>10. FlattenSeq(seqs) = W[n] BY <1>1 DEF FlattenSeq
<1>11. W = [i \in 1 .. n |-> IF i = 1 THEN seqs[i] ELSE W[i - 1] \o seqs[i]] BY <1>8
<1> HIDE DEF W
<1> DEFINE S == {k \in Nat : k \in 1 .. n => W[k] = f[k]}
<1>12. 0 \in S OBVIOUS
<1>13. ASSUME NEW k \in Nat, k \in S PROVE k + 1 \in S
  <2>1. SUFFICES ASSUME k + 1 \in 1 .. n PROVE W[k + 1] = f[k + 1] OBVIOUS
  <2>2. CASE k + 1 = 1 BY <1>7, <1>11, <2>1, <2>2
  <2>3. CASE k + 1 # 1
    <3>1. k \in 1 .. n /\ (k + 1) - 1 = k BY <1>1, <2>1, <2>3
    <3>2. W[k + 1] = W[k] \o seqs[k + 1] BY <1>11, <2>1, <2>3, <3>1
    <3>3. f[k + 1] = f[k] \o seqs[k + 1] BY <1>7, <2>1, <2>3, <3>1
    <3>4. W[k] = f[k] BY <1>13, <3>1
    <3>5. QED BY <3>2, <3>3, <3>4
  <2>4. QED BY <2>2, <2>3
<1> HIDE DEF S
<1>14. Nat \subseteq S BY <1>12, <1>13, NatSetInduction
<1>15. W[n] = f[n] BY <1>1, <1>14 DEF S
<1>16. QED BY <1>9, <1>10, <1>15

LEMMA FlattenType ==
  ASSUME NEW seqs \in Seq(Seq(Token)) PROVE FlattenSeq(seqs) \in Seq(Token)
<1>1. CASE seqs = <<>> BY <1>1 DEF FlattenSeq
<1>2. CASE seqs # <<>>
  <2>1. PICK f : Flattens(seqs, f) /\ FlattenSeq(seqs) = f[Len(seqs)] BY <1>2, FlattenIs
  <2>2. Len(seqs) \in 1 .. Len(seqs) BY <1>2
  <2>3. QED BY <2>1, <2>2 DEF Flattens
<1>3. QED BY <1>1, <1>2

-----------------------------------------------------------------------------
(***************************************************************************)
(* What clients write.                                                     *)
(***************************************************************************)
LEMMA NamesAre ==
  ASSUME NEW h \in DOMAIN NameLth
  PROVE  Name(h) \in Token /\ Name(h).len \in 1 .. 14 /\ Name(h).word = h
<1>1. NameLth[h] \in 1 .. 14 BY DEF NameLth
<1>2. NameLth[h] \in Nat \ {0} BY <1>1
<1>3. h \in Words \cup OwnWords BY DEF OwnWords
<1>4. QED BY <1>1, <1>2, <1>3, WordIs DEF Name

LEMMA HeadersAre ==
  /\ Headers = {"CallID", "CSeq", "Media", "From", "Event", "ContentLength", "UserAgent"}
  /\ DOMAIN NameLth = Headers \cup {"Other"}
  /\ DOMAIN Fields = Headers \cup {"StatusLine", "RequestLine"}
  /\ DOMAIN Between = {"CSeq", "Media", "From"}
BY DEF Headers, Fields, NameLth, Between

LEMMA LineIs ==
  ASSUME NEW d \in Drafts, NEW i \in DOMAIN d.lines
  PROVE  /\ d.lines[i] \in WrittenLine
         /\ Len(d.lines[i].vals) <= IF d.lines[i].hdr \in Headers
                                     THEN Len(Fields[d.lines[i].hdr]) ELSE 1
         /\ Len(d.lines[i].vals) >= 2 => d.lines[i].hdr \in DOMAIN Between
<1> DEFINE l == d.lines[i]
<1>1. d.lines \in Seq(WrittenLine) BY DraftsAssumption
<1>2. l \in WrittenLine BY <1>1
<1>3. Len(l.vals) <= IF l.hdr \in Headers THEN Len(Fields[l.hdr]) ELSE 1
  BY DraftsAssumption
<1>4. l.hdr \in DOMAIN NameLth /\ Len(l.vals) \in Nat BY <1>2 DEF WrittenLine
<1> HIDE DEF l
<1>5. ASSUME Len(l.vals) >= 2 PROVE l.hdr \in DOMAIN Between
  <2>1. l.hdr \in Headers BY <1>3, <1>4, <1>5
  <2>2. Len(Fields[l.hdr]) >= 2
    <3> DEFINE n == Len(Fields[l.hdr])
    <3>1. l.hdr \in DOMAIN Fields BY <2>1, HeadersAre
    <3>2. n \in 1 .. 3 /\ Len(l.vals) <= n BY <1>3, <2>1, <3>1, FieldsAre
    <3> HIDE DEF n
    <3>3. n >= 2 BY <1>4, <1>5, <3>2
    <3>4. QED BY <3>3 DEF n
  <2>3. /\ Len(Fields["CallID"]) = 1 /\ Len(Fields["Event"]) = 1
        /\ Len(Fields["ContentLength"]) = 1 /\ Len(Fields["UserAgent"]) = 1
    BY DEF Fields, DecodeCallID, DecodeEvent, DecodeCntLength, DecodeUserAgent
  <2>4. ASSUME NEW h \in {"CallID", "Event", "ContentLength", "UserAgent"}
        PROVE  Len(Fields[h]) = 1
    BY <2>3, Zenon
  <2>5. ASSUME l.hdr \in {"CallID", "Event", "ContentLength", "UserAgent"} PROVE FALSE
    <3>1. Len(Fields[l.hdr]) = 1 BY <2>4, <2>5
    <3>2. QED BY <2>2, <3>1
  <2>6. QED BY <2>1, <2>5, HeadersAre
<1>6. QED BY <1>2, <1>3, <1>5 DEF l

\* A value is a text without delimiters.
LEMMA TextsAre ==
  ASSUME NEW s \in Texts
  PROVE  /\ s \in Seq(Token) /\ Len(s) \in Nat /\ Len(s) <= 1 /\ Width(s) \in Nat
         /\ \A i \in 1 .. Len(s) : s[i] \notin Chars
         /\ \A stops \in SUBSET Chars : Free(s, stops)
         /\ s # <<>> => Head(s) \notin Chars
<1>1. s \in Seq(Values) /\ Len(s) <= 1 /\ Len(s) \in Nat BY DEF Texts
<1>2. \A i \in 1 .. Len(s) : s[i] \in Token /\ s[i] \notin Chars BY <1>1, ValueIs
<1>3. s \in Seq(Token) BY <1>1, <1>2
<1>4. NUL \in Chars BY DEF Chars
<1>5. ASSUME s # <<>> PROVE Head(s) \notin Chars
  <2>1. Head(s) = s[1] /\ 1 \in 1 .. Len(s) BY <1>3, <1>5
  <2>2. QED BY <1>2, <2>1
<1>6. QED BY <1>1, <1>2, <1>3, <1>4, <1>5, WidthType DEF Free

LEMMA LineType ==
  ASSUME NEW l \in WrittenLine, Len(l.vals) >= 2 => l.hdr \in DOMAIN Between, NEW spaced
  PROVE  Line(l, spaced) \in Seq(Token)
<1>1. /\ SP \in Token /\ CR \in Token /\ LF \in Token /\ COLON \in Token
      /\ AT \in Token /\ LT \in Token /\ GT \in Token
  BY CharsAreTokens DEF Chars
<1>2. Name(l.hdr) \in Token BY NamesAre DEF WrittenLine
<1>3. \A k \in 1 .. Len(l.vals) : l.vals[k] \in Seq(Token) BY TextsAre DEF WrittenLine
<1>4. Len(l.vals) \in Nat /\ (l.vals # <<>> => 1 \in 1 .. Len(l.vals)) BY DEF WrittenLine
<1>5. l.tail \in Seq(Token)
  <2>1. l.tail \in Seq(Values \cup {SP, CR, LF, COLON, AT, LT, GT}) BY DEF WrittenLine
  <2>2. \A t \in Values \cup {SP, CR, LF, COLON, AT, LT, GT} : t \in Token
    BY <1>1, ValueIs
  <2>3. QED BY <2>1, <2>2
<1> DEFINE a == IF l.vals = <<>> THEN <<>>
                ELSE (IF spaced THEN <<COLON, SP>> ELSE <<COLON>>) \o l.vals[1]
           b == IF Len(l.vals) < 2 THEN <<>> ELSE Between[l.hdr] \o l.vals[2]
<1>6. a \in Seq(Token)
  <2>1. CASE l.vals = <<>> BY <2>1
  <2>2. CASE l.vals # <<>>
    <3>1. l.vals[1] \in Seq(Token) BY <1>3, <1>4, <2>2
    <3>2. (IF spaced THEN <<COLON, SP>> ELSE <<COLON>>) \in Seq(Token) BY <1>1
    <3>3. QED BY <2>2, <3>1, <3>2
  <2>3. QED BY <2>1, <2>2
<1>7. b \in Seq(Token)
  <2>1. CASE Len(l.vals) < 2 BY <2>1
  <2>2. CASE ~(Len(l.vals) < 2)
    <3>1. Len(l.vals) >= 2 /\ 2 \in 1 .. Len(l.vals) BY <1>4, <2>2
    <3>2. l.vals[2] \in Seq(Token) BY <1>3, <3>1
    <3>3. <<SP>> \in Seq(Token) /\ <<COLON>> \in Seq(Token) /\ <<LT>> \in Seq(Token)
      BY <1>1
    <3>4. /\ Between["CSeq"] = <<SP>> /\ Between["Media"] = <<COLON>>
           /\ Between["From"] = <<LT>>
      BY DEF Between
    <3>5. Between[l.hdr] \in Seq(Token) BY <3>1, <3>3, <3>4, HeadersAre
    <3>6. QED BY <2>2, <3>2, <3>5
  <2>3. QED BY <2>1, <2>2
<1>8. Line(l, spaced) = <<Name(l.hdr)>> \o a \o b \o l.tail BY DEF Line
<1> HIDE DEF a, b
<1>9. QED BY <1>2, <1>5, <1>6, <1>7, <1>8

LEMMA RequestType ==
  ASSUME NEW d \in Drafts PROVE Request(d) \in Text
<1> DEFINE first == <<Word(d.method, 6)>>
           url == IF d.url THEN <<SP, Word("user", 6), AT, Word("host", 12)>> ELSE <<>>
           seqs == [i \in DOMAIN d.lines |-> Line(d.lines[i], d.spaced)]
           lines == FlattenSeq(seqs)
           last == IF d.ended THEN EOL ELSE <<>>
<1>1. /\ SP \in Token /\ CR \in Token /\ LF \in Token /\ AT \in Token
  BY CharsAreTokens DEF Chars
<1>2. d.method \in Words /\ d.lines \in Seq(WrittenLine) BY DraftsAssumption
<1>3. Word(d.method, 6) \in Token BY <1>2, WordIs
<1>4. first \in Seq(Token) BY <1>3
<1>5. url \in Seq(Token)
  <2>1. "user" \in Words \cup OwnWords /\ "host" \in Words \cup OwnWords BY DEF OwnWords
  <2>2. Word("user", 6) \in Token /\ Word("host", 12) \in Token BY <2>1, WordIs
  <2>3. <<SP, Word("user", 6), AT, Word("host", 12)>> \in Seq(Token) BY <1>1, <2>2
  <2>4. QED BY <2>3
<1>6. EOL \in Seq(Token) BY <1>1 DEF EOL
<1>7. last \in Seq(Token) BY <1>6
<1>8. seqs \in Seq(Seq(Token))
  <2>1. \A i \in DOMAIN d.lines : Line(d.lines[i], d.spaced) \in Seq(Token)
    BY LineIs, LineType
  <2>2. DOMAIN d.lines = 1 .. Len(d.lines) /\ Len(d.lines) \in Nat BY <1>2
  <2>3. QED BY <2>1, <2>2
<1> HIDE DEF seqs
<1>9. lines \in Seq(Token) BY <1>8, FlattenType
<1>10. Request(d) = (first \o url \o EOL \o lines \o last) \o <<NUL>> BY DEF Request, seqs
<1> HIDE DEF first, url, lines, last
<1>11. first \o url \o EOL \o lines \o last \in Seq(Token)
  BY <1>4, <1>5, <1>6, <1>7, <1>9
<1>12. QED BY <1>10, <1>11, JoinedText, EndOfText

-----------------------------------------------------------------------------
(***************************************************************************)
(* What the server writes.                                                 *)
(***************************************************************************)

\* A number of which the last digits are cut off is a number.
LEMMA WrittenType ==
  ASSUME NEW k \in Int, NEW n \in 1 .. 11 PROVE Written(Num(k), n) \in Token
<1> DEFINE t == Num(k)
           e == t.len - n
<1>1. t \in Token /\ t.num = k /\ t.len \in 1 .. 11 BY NumIs, ValueIs
<1>2. CASE t.len <= n BY <1>1, <1>2 DEF Written
<1>3. CASE ~(t.len <= n)
  <2>1. Written(t, n) = Num(k \div 10 ^ e) BY <1>1, <1>3 DEF Written
  <2>2. e \in 1 .. 10 BY <1>1, <1>3
  <2> HIDE DEF e
  <2>3. 10 ^ e \in Nat \ {0}
    <3>1. /\ 10 ^ 1 \in Nat \ {0} /\ 10 ^ 2 \in Nat \ {0} /\ 10 ^ 3 \in Nat \ {0}
          /\ 10 ^ 4 \in Nat \ {0} /\ 10 ^ 5 \in Nat \ {0} /\ 10 ^ 6 \in Nat \ {0}
          /\ 10 ^ 7 \in Nat \ {0} /\ 10 ^ 8 \in Nat \ {0} /\ 10 ^ 9 \in Nat \ {0}
          /\ 10 ^ 10 \in Nat \ {0}
      OBVIOUS
    <3>2. e = 1 \/ e = 2 \/ e = 3 \/ e = 4 \/ e = 5 \/ e = 6 \/ e = 7 \/ e = 8
          \/ e = 9 \/ e = 10
      BY <2>2
    <3>3. QED BY <3>1, <3>2, Zenon
  <2> DEFINE p == 10 ^ e
  <2>4. p \in Nat \ {0} BY <2>3
  <2>5. Written(t, n) = Num(k \div p) BY <2>1
  <2> HIDE DEF p
  <2>6. k \div p \in Int BY <2>4
  <2>7. QED BY <2>5, <2>6, NumIs, ValueIs
<1>4. QED BY <1>2, <1>3

\* A reply as ReplyTo makes it.
Reply ==
    [code : {200, 400, 404, 486}, callid : Seq(Token), seq : Int, method : Seq(Token),
     media : {<<>>, <<<<IPText>>, LocalPort>>}, body : {0, 20, 1023}]

LEMMA EncodeType ==
  ASSUME NEW r \in Reply PROVE P_ComEncode(r) \in Text
<1> DEFINE status == EncodeStatus(r.code)
           callid == EncodeCallID(r.callid)
           cseq == EncodeCSeq(r.seq, r.method)
           media == EncodeMedia(r.media)
           lth == EncodeCntLength(r.body)
           body == IF r.body = 0 THEN <<>> ELSE <<Word("body", r.body)>>
<1>1. /\ SP \in Token /\ CR \in Token /\ LF \in Token /\ COLON \in Token
  BY CharsAreTokens DEF Chars
<1>2. EOL \in Seq(Token) BY <1>1 DEF EOL
<1>3. /\ Name("CallID") \in Token /\ Name("CSeq") \in Token
      /\ Name("Media") \in Token /\ Name("ContentLength") \in Token
  BY NamesAre, HeadersAre
<1>4. r.code \in Int /\ r.callid \in Seq(Token) /\ r.seq \in Int /\ r.method \in Seq(Token)
      /\ r.body \in Int /\ (r.body # 0 => r.body \in Nat \ {0})
  BY DEF Reply
<1>5. status \in Seq(Token)
  <2>1. Written(Num(r.code), 4) \in Token BY <1>4, WrittenType
  <2>2. Word("reason", 30) \in Token
    <3>1. "reason" \in Words \cup OwnWords BY DEF OwnWords
    <3>2. QED BY <3>1, WordIs
  <2>3. <<Written(Num(r.code), 4)>> \in Seq(Token) /\ <<SP, Word("reason", 30)>> \in Seq(Token)
    BY <1>1, <2>1, <2>2
  <2>4. QED BY <1>2, <2>3 DEF EncodeStatus
<1>6. callid \in Seq(Token)
  <2>1. <<Name("CallID"), COLON, SP>> \in Seq(Token) BY <1>1, <1>3
  <2>2. QED BY <1>2, <1>4, <2>1 DEF EncodeCallID
<1>7. cseq \in Seq(Token)
  <2>1. Written(Num(r.seq), 11) \in Token BY <1>4, WrittenType
  <2>2. <<Name("CSeq"), COLON, SP, Written(Num(r.seq), 11), SP>> \in Seq(Token)
    BY <1>1, <1>3, <2>1
  <2>3. QED BY <1>2, <1>4, <2>2 DEF EncodeCSeq
<1>8. media \in Seq(Token)
  <2>1. CASE r.media = <<>> BY <2>1 DEF EncodeMedia
  <2>2. CASE r.media # <<>>
    <3>1. r.media = <<<<IPText>>, LocalPort>> BY <2>2 DEF Reply
    <3>2. r.media[1] = <<IPText>> /\ r.media[2] = LocalPort BY <3>1
    <3>3. IPText \in Token
      <4>1. "127.0.0.1" \in Words \cup OwnWords BY DEF OwnWords
      <4>2. QED BY <4>1, WordIs DEF IPText
    <3>4. Written(Num(LocalPort), 5) \in Token BY WrittenType DEF LocalPort
    <3>5. <<Name("Media"), COLON, SP>> \in Seq(Token) /\ <<IPText>> \in Seq(Token)
          /\ <<COLON, Written(Num(LocalPort), 5)>> \in Seq(Token)
      BY <1>1, <1>3, <3>3, <3>4
    <3>6. QED BY <1>2, <2>2, <3>2, <3>5 DEF EncodeMedia
  <2>3. QED BY <2>1, <2>2
<1>9. lth \in Seq(Token)
  <2>1. Written(Num(r.body), 5) \in Token BY <1>4, WrittenType
  <2>2. <<Name("ContentLength"), COLON, SP, Written(Num(r.body), 5)>> \in Seq(Token)
    BY <1>1, <1>3, <2>1
  <2>3. QED BY <1>2, <2>2 DEF EncodeCntLength
<1>10. body \in Seq(Token)
  <2>1. CASE r.body = 0 BY <2>1
  <2>2. CASE r.body # 0
    <3>1. "body" \in Words \cup OwnWords BY DEF OwnWords
    <3>2. Word("body", r.body) \in Token BY <1>4, <2>2, <3>1, WordIs
    <3>3. QED BY <2>2, <3>2
  <2>3. QED BY <2>1, <2>2
<1>11. P_ComEncode(r) = (status \o callid \o cseq \o media \o lth \o EOL \o body) \o <<NUL>>
  BY DEF P_ComEncode
<1> HIDE DEF status, callid, cseq, media, lth, body
<1>12. status \o callid \o cseq \o media \o lth \o EOL \o body \in Seq(Token)
  BY <1>2, <1>5, <1>6, <1>7, <1>8, <1>9, <1>10
<1>13. QED BY <1>11, <1>12, JoinedText, EndOfText

-----------------------------------------------------------------------------
(***************************************************************************)
(* The inductive invariant: the cursor never leaves the text, every field  *)
(* that was read is one its field may hold, or full if the decoder gave up *)
(* at it, and those in front of the one being read have been read.         *)
(***************************************************************************)
Cursor ==
    /\ pc \in {"start", "name", "field", "done", "failed"}
    /\ hdr \in DOMAIN Fields /\ field \in 1 .. Len(Fields[hdr])
    /\ rest \in Text

GaveUpAt(h, i) == pc = "failed" /\ h = hdr /\ i = field

Kept(h, i) ==
    \/ Holds(Fields[h][i], got[h][i])
    \/ GaveUpAt(h, i) /\ Full(Fields[h][i], got[h][i])

ReadFields ==
    /\ got \in [DOMAIN Fields -> Seq(Int \cup Seq(Token))]
    /\ \A h \in DOMAIN Fields :
          Len(got[h]) <= Len(Fields[h]) /\ \A i \in 1 .. Len(got[h]) : Kept(h, i)

InOrder == pc = "field" => field - 1 <= Len(got[hdr])

Inv == draft \in Drafts /\ Cursor /\ ReadFields /\ InOrder

LEMMA NothingRead ==
  /\ Nothing \in [DOMAIN Fields -> Seq(Int \cup Seq(Token))]
  /\ \A h \in DOMAIN Fields : Nothing[h] = <<>>
BY DEF Nothing

LEMMA InitInv == Init => Inv
<1>1. SUFFICES ASSUME Init PROVE Inv OBVIOUS
<1>2. rest \in Text BY <1>1, RequestType DEF Init
<1>3. hdr \in DOMAIN Fields /\ field \in 1 .. Len(Fields[hdr])
  <2>1. hdr \in DOMAIN Fields BY <1>1, HeadersAre DEF Init
  <2>2. field = 1 BY <1>1 DEF Init
  <2>3. Len(Fields[hdr]) \in 1 .. 3 BY <2>1, FieldsAre
  <2>4. QED BY <2>1, <2>2, <2>3
<1>4. ReadFields
  <2>1. got = Nothing BY <1>1 DEF Init
  <2>2. ASSUME NEW h \in DOMAIN Fields
        PROVE  Len(got[h]) <= Len(Fields[h]) /\ \A i \in 1 .. Len(got[h]) : Kept(h, i)
    <3>1. Len(got[h]) = 0 BY <2>1, NothingRead
    <3>2. QED BY <3>1, FieldsAre
  <2>3. QED BY <2>1, <2>2, NothingRead DEF ReadFields
<1>5. QED BY <1>1, <1>2, <1>3, <1>4 DEF Inv, Cursor, InOrder, Init

\* What is kept of a field.
LEMMA FieldIsKept ==
  ASSUME Inv, pc = "field", NEW v \in Int \cup Seq(Token), Store(v), hdr' = hdr,
         \/ Holds(Fields[hdr][field], v)
         \/ pc' = "failed" /\ field' = field /\ Full(Fields[hdr][field], v)
  PROVE  ReadFields' /\ field <= Len(got'[hdr])
<1> DEFINE X == Int \cup Seq(Token)
           h == hdr
           i == field
           g == got[h]
           new == IF i <= Len(g) THEN [g EXCEPT ![i] = v] ELSE Append(g, v)
           Ok(k, x) == \/ Holds(Fields[h][k], x)
                       \/ k = i /\ pc' = "failed" /\ field' = i /\ Full(Fields[h][k], x)
<1>1. got \in [DOMAIN Fields -> Seq(X)] /\ g \in Seq(X) /\ Len(g) <= Len(Fields[h])
      /\ \A k \in 1 .. Len(g) : Ok(k, g[k])
  BY DEF Inv, ReadFields, Cursor, Kept, GaveUpAt
<1>2. /\ h \in DOMAIN Fields /\ Len(Fields[h]) \in Nat
      /\ i \in 1 .. Len(Fields[h]) /\ i - 1 <= Len(g) /\ Ok(i, v)
  BY FieldsAre DEF Inv, Cursor, InOrder
<1>3. got' = [got EXCEPT ![h] = new] BY DEF Store
<1> HIDE DEF X, g, h, i, Ok
<1>4. /\ new \in Seq(X) /\ Len(new) <= Len(Fields[h]) /\ i <= Len(new)
      /\ \A k \in 1 .. Len(new) : Ok(k, new[k])
  <2>1. CASE i <= Len(g)
    <3>1. new = [g EXCEPT ![i] = v] BY <2>1
    <3>2. i \in 1 .. Len(g) /\ v \in X BY <1>1, <1>2, <2>1 DEF X
    <3>3. new \in Seq(X) /\ Len(new) = Len(g) BY <1>1, <3>1, <3>2
    <3>4. \A k \in 1 .. Len(g) : new[k] = IF k = i THEN v ELSE g[k] BY <1>1, <3>1
    <3> HIDE DEF new
    <3>5. QED BY <1>1, <1>2, <2>1, <3>3, <3>4
  <2>2. CASE ~(i <= Len(g))
    <3>1. new = Append(g, v) BY <2>2
    <3>2. Len(g) \in Nat /\ i = Len(g) + 1 /\ v \in X BY <1>1, <1>2, <2>2 DEF X, g
    <3>3. new \in Seq(X) /\ Len(new) = i BY <1>1, <3>1, <3>2
    <3>4. \A k \in 1 .. Len(g) : new[k] = g[k] BY <1>1, <3>1
    <3>5. new[i] = v BY <1>1, <3>1, <3>2
    <3> HIDE DEF new
    <3>6. ASSUME NEW k \in 1 .. Len(new) PROVE Ok(k, new[k])
      <4>1. k = i \/ k \in 1 .. Len(g) BY <3>2, <3>3
      <4>2. QED BY <1>1, <1>2, <3>4, <3>5, <4>1
    <3>7. QED BY <1>2, <3>2, <3>3, <3>6
  <2>3. QED BY <2>1, <2>2
<1> HIDE DEF new
<1>5. got' \in [DOMAIN Fields -> Seq(X)] BY <1>1, <1>3, <1>4
<1>6. got'[h] = new /\ \A k \in DOMAIN Fields : k # h => got'[k] = got[k]
  BY <1>1, <1>2, <1>3
<1>7. ASSUME NEW k \in DOMAIN Fields
      PROVE  Len(got'[k]) <= Len(Fields[k]) /\ \A j \in 1 .. Len(got'[k]) : Kept(k, j)'
  <2>1. CASE k = h
    <3>1. Len(got'[k]) <= Len(Fields[k]) BY <1>4, <1>6, <2>1
    <3>2. ASSUME NEW j \in 1 .. Len(got'[k]) PROVE Kept(k, j)'
      <4>1. Ok(j, got'[k][j]) BY <1>4, <1>6, <2>1, <3>2
      <4>2. QED BY <2>1, <4>1 DEF Kept, GaveUpAt, Ok, h, i
    <3>3. QED BY <3>1, <3>2
  <2>2. CASE k # h
    <3>1. Len(got[k]) <= Len(Fields[k]) /\ \A j \in 1 .. Len(got[k]) : Holds(Fields[k][j], got[k][j])
      BY DEF Inv, ReadFields, Kept, GaveUpAt
    <3>2. QED BY <1>6, <2>2, <3>1 DEF Kept
  <2>3. QED BY <2>1, <2>2
<1>8. QED BY <1>4, <1>5, <1>6, <1>7 DEF ReadFields, X, h, i

\* What a field may hold is a number or a text.
LEMMA HeldIs ==
  ASSUME NEW f, NEW v, Holds(f, v) PROVE v \in Int \cup Seq(Token)
<1>1. \A x \in Word16 : x \in Int
  <2> DEFINE m == 65535
  <2>1. m \in Int /\ Word16 = 0 .. m BY DEF Word16
  <2> HIDE DEF m
  <2>2. \A x \in 0 .. m : x \in Int BY <2>1
  <2>3. QED BY <2>1, <2>2
<1>2. QED BY <1>1 DEF Holds

\* What a field held before.
LEMMA OldIs ==
  ASSUME Inv, pc = "field"
  PROVE  FieldOr(hdr, field, <<>>) = <<>> \/ Holds(Fields[hdr][field], FieldOr(hdr, field, <<>>))
<1>1. hdr \in DOMAIN Fields /\ field \in 1 .. Len(Fields[hdr]) BY DEF Inv, Cursor
<1>2. CASE field <= Len(got[hdr])
  <2>1. got[hdr] \in Seq(Int \cup Seq(Token)) BY <1>1 DEF Inv, ReadFields
  <2>2. field \in 1 .. Len(got[hdr]) BY <1>1, <1>2, <2>1
  <2>3. Holds(Fields[hdr][field], got[hdr][field])
    BY <1>1, <2>2 DEF Inv, ReadFields, Kept, GaveUpAt
  <2>4. QED BY <1>2, <2>3 DEF FieldOr
<1>3. CASE ~(field <= Len(got[hdr])) BY <1>3 DEF FieldOr
<1>4. QED BY <1>2, <1>3

\* A field at which decoding ends holds what the loop has copied, at most a full buffer.
LEMMA BadFieldInv == Inv /\ BadField => Inv'
<1>1. SUFFICES ASSUME Inv, BadField PROVE Inv' OBVIOUS
<1> DEFINE f == Fields[hdr][field]
           old == FieldOr(hdr, field, <<>>)
           taken == Taken(rest, f.stops)
           held == Held(f, taken)
           v == Overwrite(old, held)
<1>2. /\ pc = "field" /\ pc' = "failed" /\ UNCHANGED <<draft, reply, rest, hdr, field>>
      /\ IF f.kind \in {"word", "dword"} THEN UNCHANGED got ELSE Store(v)
  BY <1>1 DEF BadField
<1>3. /\ rest \in Text /\ hdr \in DOMAIN Fields /\ field \in 1 .. Len(Fields[hdr])
  BY <1>1, <1>2 DEF Inv, Cursor
<1>4. f.limit \in Nat \ {0} BY <1>3, FieldsAre
<1>5. Cursor' /\ InOrder' /\ draft' \in Drafts BY <1>1, <1>2 DEF Inv, Cursor, InOrder
<1>6. CASE f.kind \in {"word", "dword"}
  <2>1. got' = got BY <1>2, <1>6
  <2>2. ASSUME NEW h \in DOMAIN Fields
        PROVE  Len(got[h]) <= Len(Fields[h])
               /\ \A i \in 1 .. Len(got[h]) : Holds(Fields[h][i], got[h][i])
    BY <1>1, <1>2 DEF Inv, ReadFields, Kept, GaveUpAt
  <2>3. got \in [DOMAIN Fields -> Seq(Int \cup Seq(Token))] BY <1>1 DEF Inv, ReadFields
  <2>4. ReadFields' BY <2>1, <2>2, <2>3 DEF ReadFields, Kept
  <2>5. QED BY <1>5, <2>4 DEF Inv
<1>7. CASE f.kind \notin {"word", "dword"}
  <2>1. taken \in Seq(Token) /\ Free(taken, f.stops) BY <1>3, CutType, TakenFree
  <2>2. old \in Seq(Token) /\ Width(old) < f.limit
    <3> HIDE DEF f, old
    <3>1. CASE old = <<>> BY <1>4, <3>1, WidthEmpty
    <3>2. CASE Holds(f, old) BY <1>7, <3>2 DEF Holds
    <3>3. QED BY <1>1, <1>2, <3>1, <3>2, OldIs DEF f, old
  <2>3. Width(taken) \in Nat BY <2>1, WidthType
  <2>4. held \in Seq(Token) /\ Width(held) <= f.limit /\ (f.stops = {CR} => Free(held, {CR}))
    <3>1. CASE Width(taken) < f.limit
      <4>1. held = taken BY <3>1 DEF Held
      <4>2. f.stops = {CR} => Free(taken, {CR}) BY <2>1
      <4> HIDE DEF f, taken, held
      <4>3. Width(held) <= f.limit BY <1>4, <2>3, <3>1, <4>1
      <4>4. QED BY <2>1, <4>1, <4>2, <4>3
    <3>2. CASE ~(Width(taken) < f.limit)
      <4> DEFINE w == Word("head", f.limit)
      <4>1. w \in Token /\ w.len = f.limit /\ w \notin Chars
        BY <1>4, WordIs DEF OwnWords
      <4>2. held = <<w>> BY <3>2 DEF Held
      <4>3. CR \in Chars /\ NUL \in Chars BY DEF Chars
      <4> HIDE DEF w, held, f, taken
      <4>4. Width(<<w>>) = f.limit BY <4>1, WidthOne
      <4>5. Free(<<w>>, {CR}) BY <4>1, <4>3 DEF Free
      <4>6. QED BY <1>4, <4>1, <4>2, <4>4, <4>5
    <3>3. QED BY <3>1, <3>2
  <2>5. Width(held) \in Nat BY <2>4, WidthType
  <2> HIDE DEF f, old, taken, held
  <2>6. v \in Seq(Token) /\ Width(v) = IF Width(held) >= Width(old) THEN Width(held) ELSE Width(old)
    BY <2>2, <2>4, OverwriteType
  <2>7. Width(v) \in Nat BY <2>6, WidthType
  <2>8. f.stops = {CR} => Free(v, {CR})
    <3>1. {CR} \in SUBSET Chars BY DEF Chars
    <3>2. QED BY <2>2, <2>4, <3>1, OverwriteFree
  <2>9. Width(v) < f.limit \/ Width(v) = f.limit BY <1>4, <2>2, <2>4, <2>5, <2>6, <2>7
  <2> HIDE DEF v
  <2>10. Holds(f, v) \/ Full(f, v) BY <1>7, <2>6, <2>8, <2>9 DEF Holds, Full
  <2>11. Store(v) BY <1>2, <1>7
  <2>12. ReadFields' BY <1>1, <1>2, <2>6, <2>10, <2>11, FieldIsKept DEF f
  <2>13. QED BY <1>5, <2>12 DEF Inv
<1>8. QED BY <1>6, <1>7

LEMMA ReadFieldInv == Inv /\ ReadField => Inv'
<1>1. SUFFICES ASSUME Inv, ReadField PROVE Inv' OBVIOUS
<1> DEFINE f == Fields[hdr][field]
           old == FieldOr(hdr, field, <<>>)
           new == Taken(rest, f.stops)
           value == Value(f.kind, old, new)
<1>2. /\ pc = "field" /\ FieldFits /\ Store(value)
      /\ rest' = Skip(After(rest, f.stops), f.skip)
      /\ IF field = Len(Fields[hdr]) THEN pc' = "name" /\ UNCHANGED field
                                     ELSE field' = field + 1 /\ UNCHANGED pc
      /\ UNCHANGED <<draft, reply, hdr>>
  BY <1>1 DEF ReadField
<1>3. /\ rest \in Text /\ hdr \in DOMAIN Fields /\ field \in 1 .. Len(Fields[hdr])
      /\ field - 1 <= Len(got[hdr])
  BY <1>1, <1>2 DEF Inv, Cursor, InOrder
<1>4. f.limit \in Nat \ {0} /\ f.kind \in Kinds /\ Len(Fields[hdr]) \in Nat BY <1>3, FieldsAre
<1>5. new \in Seq(Token) /\ After(rest, f.stops) \in Text /\ Free(new, f.stops)
  BY <1>3, CutType, TakenFree
<1>6. Width(new) < f.limit BY <1>2 DEF FieldFits, Fits
<1>7. old = <<>> \/ Holds(f, old) BY <1>1, <1>2, OldIs
<1> HIDE DEF f, old, new
<1>8. Holds(f, value) BY <1>4, <1>5, <1>6, <1>7, ValueType
<1>9. value \in Int \cup Seq(Token) BY <1>8, HeldIs
<1> HIDE DEF value
<1>10. ReadFields' /\ field <= Len(got'[hdr]) BY <1>1, <1>2, <1>8, <1>9, FieldIsKept DEF f
<1>11. rest' \in Text BY <1>2, <1>5, SkipType DEF f
<1>12. Cursor' /\ InOrder'
  <2>1. CASE field = Len(Fields[hdr])
    <3>1. pc' = "name" /\ field' = field /\ hdr' = hdr BY <1>2, <2>1
    <3>2. QED BY <1>3, <1>11, <3>1 DEF Cursor, InOrder
  <2>2. CASE field # Len(Fields[hdr])
    <3>1. pc' = "field" /\ field' = field + 1 /\ hdr' = hdr BY <1>2, <2>2
    <3>2. field + 1 \in 1 .. Len(Fields[hdr]) /\ (field + 1) - 1 = field BY <1>3, <1>4, <2>2
    <3>3. QED BY <1>3, <1>10, <1>11, <3>1, <3>2 DEF Cursor, InOrder
  <2>3. QED BY <2>1, <2>2
<1>13. QED BY <1>1, <1>2, <1>10, <1>12 DEF Inv

\* What has been read of Call-ID and CSeq.
LEMMA FieldType ==
  ASSUME Inv, NEW h \in DOMAIN Fields, NEW i \in 1 .. Len(Fields[h]), NEW none
  PROVE  \/ FieldOr(h, i, none) = none
         \/ Holds(Fields[h][i], FieldOr(h, i, none))
         \/ GaveUpAt(h, i) /\ Full(Fields[h][i], FieldOr(h, i, none))
<1>1. CASE i <= Len(got[h])
  <2>1. got[h] \in Seq(Int \cup Seq(Token)) BY DEF Inv, ReadFields
  <2>2. Len(Fields[h]) \in Nat BY FieldsAre
  <2>3. i \in 1 .. Len(got[h]) BY <1>1, <2>1, <2>2
  <2>4. Kept(h, i) BY <2>3 DEF Inv, ReadFields
  <2>5. QED BY <1>1, <2>4 DEF FieldOr, Kept
<1>2. CASE ~(i <= Len(got[h])) BY <1>2 DEF FieldOr
<1>3. QED BY <1>1, <1>2

LEMMA TextOrNone ==
  ASSUME Inv, NEW h \in DOMAIN Fields, NEW i \in 1 .. Len(Fields[h]),
         Fields[h][i].kind = "chars"
  PROVE  FieldOr(h, i, <<>>) \in Seq(Token)
<1> DEFINE f == Fields[h][i]
           x == FieldOr(h, i, <<>>)
<1>1. \/ x = <<>>
      \/ Holds(f, x)
      \/ GaveUpAt(h, i) /\ Full(f, x)
  BY FieldType
<1>2. f.kind = "chars" OBVIOUS
<1> HIDE DEF f, x
<1>3. x \in Seq(Token)
  <2>1. f.kind \notin {"word", "dword"} BY <1>2
  <2>2. <<>> \in Seq(Token) OBVIOUS
  <2>3. Holds(f, x) => x \in Seq(Token) BY <2>1, Zenon DEF Holds
  <2>4. Full(f, x) => x \in Seq(Token) BY Zenon DEF Full
  <2>5. QED BY <1>1, <2>2, <2>3, <2>4, Zenon
<1>4. QED BY <1>3 DEF x

LEMMA NumberOrNone ==
  ASSUME Inv, NEW h \in DOMAIN Fields, NEW i \in 1 .. Len(Fields[h]),
         Fields[h][i].kind = "dword"
  PROVE  FieldOr(h, i, 0) \in Int
<1> DEFINE f == Fields[h][i]
           x == FieldOr(h, i, 0)
<1>1. \/ x = 0
      \/ Holds(f, x)
      \/ GaveUpAt(h, i) /\ Full(f, x)
  BY FieldType
<1>2. f.kind = "dword" OBVIOUS
<1> HIDE DEF f, x
<1>3. x \in Int BY <1>1, <1>2 DEF Holds, Full
<1>4. QED BY <1>3 DEF x

LEMMA ReplyIs ==
  ASSUME Inv, NEW code \in {200, 400, 404, 486},
         NEW media \in {<<>>, <<<<IPText>>, LocalPort>>}, NEW body \in {0, 20, 1023}
  PROVE  ReplyTo(code, media, body) \in Reply
<1>1. "CallID" \in DOMAIN Fields /\ "CSeq" \in DOMAIN Fields BY HeadersAre
<1>2. Fields["CallID"][1].kind = "chars" /\ Len(Fields["CallID"]) = 1
  BY DEF Fields, DecodeCallID, Field
<1>3. Fields["CSeq"][1].kind = "dword" /\ Fields["CSeq"][2].kind = "chars"
      /\ Len(Fields["CSeq"]) = 2
  BY DEF Fields, DecodeCSeq, Field
<1>4. 1 \in 1 .. Len(Fields["CallID"]) BY <1>2
<1>5. 1 \in 1 .. Len(Fields["CSeq"]) /\ 2 \in 1 .. Len(Fields["CSeq"]) BY <1>3
<1>6. FieldOr("CallID", 1, <<>>) \in Seq(Token) BY <1>1, <1>2, <1>4, TextOrNone
<1>7. FieldOr("CSeq", 1, 0) \in Int BY <1>1, <1>3, <1>5, NumberOrNone
<1>8. FieldOr("CSeq", 2, <<>>) \in Seq(Token) BY <1>1, <1>3, <1>5, TextOrNone
<1>9. QED BY <1>6, <1>7, <1>8 DEF ReplyTo, Reply

\* Whichever reply is sent, it goes out the same way.
LEMMA RespondIs ==
  ASSUME Respond
  PROVE  /\ AtServer /\ pc \in {"done", "failed"}
         /\ \E code \in {200, 400, 404, 486}, media \in {<<>>, <<<<IPText>>, LocalPort>>},
              body \in {0, 20, 1023} :
              /\ Send(ReplyTo(code, media, body))
              /\ pc = "failed" => code = 400
<1>1. CASE Handle BY <1>1 DEF Handle, AtServer
<1>2. CASE Reject BY <1>2 DEF Reject, AtServer
<1>3. QED BY <1>1, <1>2 DEF Respond

LEMMA RespondInv == Inv /\ Respond => Inv'
<1>1. SUFFICES ASSUME Inv, Respond PROVE Inv' OBVIOUS
<1>2. PICK code \in {200, 400, 404, 486}, media \in {<<>>, <<<<IPText>>, LocalPort>>},
           body \in {0, 20, 1023} :
         Send(ReplyTo(code, media, body))
  BY <1>1, RespondIs
<1>3. /\ rest' = P_ComEncode(ReplyTo(code, media, body)) /\ draft' = draft
      /\ pc' = "start" /\ got' = Nothing /\ hdr' = hdr /\ field' = field
  BY <1>2 DEF Send, Start
<1>4. rest' \in Text BY <1>1, <1>3, EncodeType, ReplyIs
<1>5. Cursor' /\ InOrder' BY <1>1, <1>3, <1>4 DEF Inv, Cursor, InOrder
<1>6. ReadFields'
  <2>1. ASSUME NEW h \in DOMAIN Fields
        PROVE  Len(got'[h]) <= Len(Fields[h]) /\ \A i \in 1 .. Len(got'[h]) : Kept(h, i)'
    <3>1. Len(got'[h]) = 0 BY <1>3, NothingRead
    <3>2. QED BY <3>1, FieldsAre
  <2>2. QED BY <1>3, <2>1, NothingRead DEF ReadFields
<1>7. QED BY <1>1, <1>3, <1>5, <1>6 DEF Inv

LEMMA NextInv == Inv /\ [Next]_vars => Inv'
<1>1. SUFFICES ASSUME Inv, [Next]_vars PROVE Inv' OBVIOUS
<1>0. ASSUME pc # "failed", UNCHANGED got PROVE ReadFields'
  BY <1>0, <1>1 DEF Inv, ReadFields, Kept, GaveUpAt
<1>2. CASE DecodeStartLine
  <2>1. /\ pc' = "field" /\ field' = 1 /\ hdr' \in {"StatusLine", "RequestLine"}
        /\ UNCHANGED <<draft, reply, rest, got>>
    BY <1>2 DEF DecodeStartLine
  <2>2. hdr' \in DOMAIN Fields BY <2>1, HeadersAre
  <2>3. Len(Fields[hdr']) \in 1 .. 3 BY <2>2, FieldsAre
  <2>4. field' \in 1 .. Len(Fields[hdr'])
    <3> DEFINE n == Len(Fields[hdr'])
    <3>1. n \in 1 .. 3 BY <2>3
    <3>2. field' = 1 BY <2>1
    <3> HIDE DEF n
    <3>3. field' \in 1 .. n BY <3>1, <3>2
    <3>4. QED BY <3>3 DEF n
  <2>5. ReadFields' BY <1>0, <1>2, <2>1 DEF DecodeStartLine, HeaderName, HeaderLeft
  <2>6. field' - 1 <= Len(got'[hdr'])
    <3>1. Len(got'[hdr']) \in Nat BY <2>2, <2>5 DEF ReadFields
    <3>2. QED BY <2>1, <3>1
  <2>7. QED BY <1>1, <2>1, <2>2, <2>4, <2>5, <2>6 DEF Inv, Cursor, InOrder
<1>3. ASSUME NEW h \in Headers, HeaderName(h) PROVE Inv'
  <2>1. /\ pc' = "field" /\ field' = 1 /\ hdr' = h /\ UNCHANGED <<draft, reply, got>>
        /\ rest' = ReadHCOLON(After(rest, {COLON, SP}))
    BY <1>3 DEF HeaderName
  <2>2. hdr' \in DOMAIN Fields BY <2>1, HeadersAre
  <2>3. Len(Fields[hdr']) \in 1 .. 3 BY <2>2, FieldsAre
  <2>4. field' \in 1 .. Len(Fields[hdr'])
    <3> DEFINE n == Len(Fields[hdr'])
    <3>1. n \in 1 .. 3 BY <2>3
    <3>2. field' = 1 BY <2>1
    <3> HIDE DEF n
    <3>3. field' \in 1 .. n BY <3>1, <3>2
    <3>4. QED BY <3>3 DEF n
  <2>5. ReadFields' BY <1>0, <1>3, <2>1 DEF DecodeStartLine, HeaderName, HeaderLeft
  <2>6. field' - 1 <= Len(got'[hdr'])
    <3>1. Len(got'[hdr']) \in Nat BY <2>2, <2>5 DEF ReadFields
    <3>2. QED BY <2>1, <3>1
  <2>7. After(rest, {COLON, SP}) \in Text BY <1>1, CutType DEF Inv, Cursor
  <2>8. rest' \in Text BY <2>1, <2>7, SkipType DEF ReadHCOLON
  <2>9. QED BY <1>1, <2>1, <2>2, <2>4, <2>5, <2>6, <2>8 DEF Inv, Cursor, InOrder
<1>4. ASSUME Refuse, pc = "name" PROVE Inv'
  BY <1>0, <1>1, <1>4 DEF Refuse, Inv, Cursor, InOrder
<1>5. CASE EndOfHeaders
  BY <1>0, <1>1, <1>5 DEF EndOfHeaders, Inv, Cursor, InOrder
<1>6. CASE UNCHANGED vars
  BY <1>1, <1>6 DEF vars, Inv, Cursor, ReadFields, Kept, GaveUpAt, InOrder
<1>7. CASE BadHeader BY <1>4, <1>7 DEF BadHeader, HeaderLeft
<1>8. CASE BadField BY <1>1, <1>8, BadFieldInv
<1>9. QED
  BY <1>1, <1>2, <1>3, <1>5, <1>6, <1>7, <1>8, ReadFieldInv, RespondInv DEF Next, Decode

\* What the other invariants rest on: the cursor is inside a text, every field that
\* has been read fits what it is held in, and fields are read in their order.
THEOREM CodecInvariance == Spec => []Inv
BY InitInv, NextInv, PTL DEF Spec

LEMMA InvType == Inv => TypeOK
<1>1. SUFFICES ASSUME Inv PROVE TypeOK OBVIOUS
<1>2. rest # <<>> /\ Last(rest) = NUL BY <1>1 DEF Inv, Cursor, Text, Last
<1>3. ASSUME NEW h \in DOMAIN Fields, NEW i \in DOMAIN got[h]
      PROVE  /\ Fields[h][i].kind = "word" => got[h][i] \in Word16
             /\ Fields[h][i].kind = "dword" => got[h][i] \in Int
             /\ Fields[h][i].kind \notin {"word", "dword"} =>
                  \/ Width(got[h][i]) < Fields[h][i].limit
                  \/ GaveUpAt(h, i) /\ Width(got[h][i]) = Fields[h][i].limit
  <2>1. got[h] \in Seq(Int \cup Seq(Token)) BY <1>1 DEF Inv, ReadFields
  <2>2. i \in 1 .. Len(got[h]) BY <2>1
  <2>3. Kept(h, i) BY <1>1, <2>2 DEF Inv, ReadFields
  <2>4. QED BY <2>3 DEF Kept, Holds, Full
<1>4. QED BY <1>1, <1>2, <1>3 DEF TypeOK, Inv, Cursor, GaveUpAt

\* Every field of a session fits the struct that holds it, whatever the lines, the
\* words and the numbers of the request, and the cursor stays in the text.
THEOREM CodecTypeCorrect == Spec => []TypeOK
BY CodecInvariance, InvType, PTL
-----------------------------------------------------------------------------
(***************************************************************************)
(* Texts token by token.  Before(t, u) is the text u with the token t in   *)
(* front of it.                                                            *)
(***************************************************************************)
Before(t, u) == <<t>> \o u

LEMMA BeforeIs ==
  ASSUME NEW t \in Token, NEW u \in Text
  PROVE  /\ Before(t, u) \in Text /\ Len(Before(t, u)) = Len(u) + 1
         /\ Head(Before(t, u)) = t /\ Tail(Before(t, u)) = u
         /\ Before(t, u)[1] = t /\ Before(t, u)[2] = Head(u)
<1> DEFINE s == <<t>>
           b == Before(t, u)
<1>1. u \in Seq(Token) /\ u # <<>> /\ Len(u) \in Nat \ {0} /\ Head(u) = u[1] BY DEF Text
<1>2. s \in Seq(Token) /\ Len(s) = 1 /\ s[1] = t OBVIOUS
<1>3. b = s \o u BY DEF Before
<1> HIDE DEF s, b
<1>4. b \in Seq(Token) /\ Len(b) = Len(u) + 1
      /\ \A i \in 1 .. Len(u) + 1 : b[i] = IF i <= 1 THEN s[i] ELSE u[i - 1]
  <2>1. b \in Seq(Token) /\ Len(b) = Len(s) + Len(u)
        /\ \A i \in 1 .. Len(s) + Len(u) : b[i] = IF i <= Len(s) THEN s[i] ELSE u[i - Len(s)]
    BY <1>1, <1>2, <1>3, ConcatProperties
  <2>2. Len(s) + Len(u) = Len(u) + 1 BY <1>1, <1>2
  <2>3. QED BY <1>2, <2>1, <2>2
<1>5. b[1] = t BY <1>1, <1>2, <1>4
<1>6. ASSUME NEW i \in 1 .. Len(u) PROVE b[i + 1] = u[i]
  <2>1. i + 1 \in 1 .. Len(u) + 1 /\ ~(i + 1 <= 1) /\ (i + 1) - 1 = i BY <1>1
  <2>2. QED BY <1>4, <2>1
<1>7. 1 \in 1 .. Len(u) /\ 1 + 1 = 2 BY <1>1
<1>8. b[2] = u[1] BY <1>6, <1>7
<1>9. b # <<>> /\ Head(b) = b[1] BY <1>1, <1>4
<1>10. Tail(b) = u
  <2>1. Tail(b) \in Seq(Token) /\ Len(Tail(b)) = Len(b) - 1
        /\ \A i \in 1 .. Len(Tail(b)) : Tail(b)[i] = b[i + 1]
    BY <1>4, <1>9, HeadTailProperties
  <2>2. Len(Tail(b)) = Len(u) BY <1>1, <1>4, <2>1
  <2>3. \A i \in 1 .. Len(Tail(b)) : Tail(b)[i] = u[i] BY <1>6, <2>1, <2>2
  <2>4. QED BY <1>1, <2>1, <2>2, <2>3, SeqEqual
<1>11. b \in Text BY <1>2, <1>3, JoinedText
<1>12. QED BY <1>1, <1>4, <1>5, <1>8, <1>9, <1>10, <1>11 DEF b

\* Skipping a delimiter, two or three.
LEMMA AdvanceOver ==
  ASSUME NEW c \in Chars, c # NUL, NEW u \in Text
  PROVE  Advance(Before(c, u)) = u
<1>1. c \in Token /\ c.len = 1 BY CharsAreTokens
<1>2. QED BY <1>1, BeforeIs DEF Advance

LEMMA SkipOne ==
  ASSUME NEW c \in Chars, c # NUL, NEW u \in Text
  PROVE  Skip(Before(c, u), 1) = u
BY AdvanceOver DEF Skip

LEMMA SkipTwo ==
  ASSUME NEW c \in Chars, c # NUL, NEW d \in Chars, d # NUL, NEW u \in Text
  PROVE  Skip(Before(c, Before(d, u)), 2) = u
<1>1. Before(d, u) \in Text BY CharsAreTokens, BeforeIs
<1>2. QED BY <1>1, AdvanceOver DEF Skip

LEMMA SkipThree ==
  ASSUME NEW c \in Chars, c # NUL, NEW d \in Chars, d # NUL, NEW e \in Chars, e # NUL,
         NEW u \in Text
  PROVE  Skip(Before(c, Before(d, Before(e, u))), 3) = u
<1>1. Before(e, u) \in Text /\ Before(d, Before(e, u)) \in Text
  BY CharsAreTokens, BeforeIs
<1>2. QED BY <1>1, AdvanceOver DEF Skip

\* What is free of the delimiters is copied whole, up to the delimiter behind it.
LEMMA TakenIs ==
  ASSUME NEW s \in Seq(Token), NEW stops, Free(s, stops),
         NEW u \in Text, Head(u) \in stops \cup {NUL}
  PROVE  /\ Taken(s \o u, stops) = s /\ After(s \o u, stops) = u
<1> DEFINE b == s \o u
           n == Len(s)
           m == Len(u)
           i == Stop(b, stops)
<1>1. u \in Seq(Token) /\ u # <<>> /\ m \in Nat \ {0} /\ Head(u) = u[1] BY DEF Text
<1>2. n \in Nat OBVIOUS
<1>3. b \in Text BY JoinedText
<1> HIDE DEF n, m
<1>4. b \in Seq(Token) /\ Len(b) = n + m
      /\ \A k \in 1 .. n + m : b[k] = IF k <= n THEN s[k] ELSE u[k - n]
  BY <1>1, ConcatProperties DEF n, m
<1>5. i \in 1 .. Len(b) /\ b[i] \in stops \cup {NUL}
      /\ \A j \in 1 .. i - 1 : b[j] \notin stops \cup {NUL}
  BY <1>3, StopIs
<1>6. Taken(b, stops) = SubSeq(b, 1, i - 1) /\ After(b, stops) = SubSeq(b, i, Len(b))
  BY DEF Taken, After
<1> HIDE DEF b, i
<1>7. i = n + 1
  <2>1. n + 1 \in 1 .. n + m /\ ~(n + 1 <= n) /\ (n + 1) - n = 1 BY <1>1, <1>2
  <2>2. b[n + 1] \in stops \cup {NUL} BY <1>1, <1>4, <2>1
  <2>3. ~(n + 1 < i)
    <3>1. SUFFICES ASSUME n + 1 < i PROVE FALSE OBVIOUS
    <3>2. n + 1 \in 1 .. i - 1 BY <1>1, <1>2, <1>4, <1>5, <3>1
    <3>3. QED BY <1>5, <2>2, <3>2
  <2>4. ~(i <= n)
    <3>1. SUFFICES ASSUME i <= n PROVE FALSE OBVIOUS
    <3>2. i \in 1 .. n /\ i \in 1 .. n + m BY <1>1, <1>2, <1>4, <1>5, <3>1
    <3>3. b[i] = s[i] BY <1>4, <3>1, <3>2
    <3>4. QED BY <1>5, <3>2, <3>3 DEF Free, n
  <2>5. QED BY <1>1, <1>2, <1>4, <1>5, <2>3, <2>4
<1>8. SubSeq(b, 1, i - 1) = s
  <2>1. i - 1 = n BY <1>2, <1>7
  <2> DEFINE v == SubSeq(b, 1, n)
  <2>2. v \in Seq(Token) /\ Len(v) = n /\ \A k \in 1 .. n : v[k] = b[k] BY <1>1, <1>2, <1>4
  <2>3. \A k \in 1 .. n : b[k] = s[k] BY <1>1, <1>2, <1>4
  <2> HIDE DEF v
  <2>4. Len(v) = Len(s) /\ \A k \in 1 .. Len(v) : v[k] = s[k] BY <2>2, <2>3 DEF n
  <2>5. v = s BY <2>2, <2>4, SeqEqual
  <2>6. QED BY <2>1, <2>5 DEF v
<1>9. SubSeq(b, i, Len(b)) = u
  <2> DEFINE v == SubSeq(b, n + 1, n + m)
  <2>1. v \in Seq(Token) /\ Len(v) = m /\ \A k \in 1 .. m : v[k] = b[n + k]
    <3>1. n + 1 <= n + m /\ ((n + m) - (n + 1)) + 1 = m BY <1>1, <1>2
    <3>2. \A k \in 1 .. m : (n + 1 + k) - 1 = n + k BY <1>1, <1>2
    <3>3. \A k \in n + 1 .. n + m : b[k] \in Token BY <1>1, <1>2, <1>4
    <3>4. v \in Seq(Token) /\ Len(v) = m BY <1>1, <1>2, <3>1, <3>3
    <3>5. \A k \in 1 .. m : v[k] = b[(n + 1 + k) - 1] BY <1>1, <1>2, <3>1
    <3>6. QED BY <3>2, <3>4, <3>5
  <2>2. ASSUME NEW k \in 1 .. m PROVE b[n + k] = u[k]
    <3>1. n + k \in 1 .. n + m /\ ~(n + k <= n) /\ (n + k) - n = k BY <1>1, <1>2
    <3>2. QED BY <1>4, <3>1
  <2> HIDE DEF v
  <2>3. Len(v) = Len(u) /\ \A k \in 1 .. Len(v) : v[k] = u[k] BY <2>1, <2>2 DEF m
  <2>4. v = u BY <1>1, <2>1, <2>3, SeqEqual
  <2>5. QED BY <1>4, <1>7, <2>4 DEF v
<1>10. QED BY <1>6, <1>8, <1>9 DEF b

LEMMA TakenOne ==
  ASSUME NEW v \in Token, NEW stops, v \notin stops \cup {NUL},
         NEW u \in Text, Head(u) \in stops \cup {NUL}
  PROVE  Taken(Before(v, u), stops) = <<v>> /\ After(Before(v, u), stops) = u
<1>1. <<v>> \in Seq(Token) /\ Free(<<v>>, stops) BY DEF Free
<1>2. QED BY <1>1, TakenIs DEF Before

\* Where no delimiter follows the first token, more than that token is copied.
LEMMA TakenMore ==
  ASSUME NEW v \in Token, NEW stops, v \notin stops \cup {NUL},
         NEW u \in Text, Head(u) \notin stops \cup {NUL}
  PROVE  \A x : Taken(Before(v, u), stops) # <<x>>
<1> DEFINE b == Before(v, u)
           i == Stop(b, stops)
<1>1. b \in Text /\ b[1] = v /\ b[2] = Head(u) BY BeforeIs
<1>2. i \in 1 .. Len(b) /\ b[i] \in stops \cup {NUL} BY <1>1, StopIs
<1>3. Taken(b, stops) = SubSeq(b, 1, i - 1) BY DEF Taken
<1>4. b \in Seq(Token) /\ Len(b) \in Nat BY <1>1 DEF Text
<1> HIDE DEF b, i
<1>5. i # 1 /\ i # 2 BY <1>1, <1>2
<1>6. i - 1 \in 2 .. Len(b) BY <1>2, <1>4, <1>5
<1>7. Len(SubSeq(b, 1, i - 1)) = i - 1 BY <1>4, <1>6
<1>8. \A x : Len(<<x>>) = 1 OBVIOUS
<1>9. i - 1 # 1 BY <1>6
<1>10. QED BY <1>3, <1>7, <1>8, <1>9 DEF b

-----------------------------------------------------------------------------
(***************************************************************************)
(* The lines of a request, token by token.  Each operator has the text u   *)
(* behind it.                                                              *)
(***************************************************************************)
Sep(h) == Between[h][1]

End(u) == Before(CR, Before(LF, u))

Ended(l, u) == l.tail \o u

Second(l, u) == l.vals[2] \o Ended(l, u)

First(l, u) ==
    l.vals[1] \o (IF Len(l.vals) < 2 THEN Ended(l, u) ELSE Before(Sep(l.hdr), Second(l, u)))

Colon(l, spaced, u) == Before(COLON, IF spaced THEN Before(SP, First(l, u)) ELSE First(l, u))

LineBefore(l, spaced, u) ==
    Before(Name(l.hdr), IF l.vals = <<>> THEN Ended(l, u) ELSE Colon(l, spaced, u))

\* A line as DraftsAssumption has it.
IsLine(l) ==
    /\ l \in WrittenLine
    /\ Len(l.vals) >= 2 => l.hdr \in DOMAIN Between
    /\ l.hdr \in Headers => Len(l.vals) <= Len(Fields[l.hdr])

LEMMA DelimitersAre ==
  /\ {SP, CR, LF, COLON, AT, LT, GT} \subseteq Chars \ {NUL}
  /\ {SP, CR, LF, COLON, AT, LT, GT, NUL} \subseteq Token
BY CharsAreTokens, CharsDiffer DEF Chars

LEMMA Associative ==
  \A a, b, c \in Seq(Token) : (a \o b) \o c = a \o (b \o c)
BY ConcatAssociative

LEMMA PairOf ==
  ASSUME NEW X, NEW x \in X, NEW y \in X PROVE <<x, y>> = <<x>> \o <<y>>
<1> DEFINE a == <<x>>
           b == <<y>>
           c == <<x, y>>
<1>1. a \in Seq(X) /\ Len(a) = 1 /\ a[1] = x /\ b \in Seq(X) /\ Len(b) = 1 /\ b[1] = y
  OBVIOUS
<1>2. c \in Seq(X) /\ Len(c) = 2 /\ c[1] = x /\ c[2] = y OBVIOUS
<1> HIDE DEF a, b, c
<1>3. a \o b \in Seq(X) /\ Len(a \o b) = 2 BY <1>1, ConcatProperties
<1>4. (a \o b)[1] = x /\ (a \o b)[2] = y
  <2>1. \A i \in 1 .. Len(a) + Len(b) :
          (a \o b)[i] = IF i <= Len(a) THEN a[i] ELSE b[i - Len(a)]
    BY <1>1, ConcatProperties
  <2>2. 1 \in 1 .. Len(a) + Len(b) /\ 1 <= Len(a) BY <1>1
  <2>3. 2 \in 1 .. Len(a) + Len(b) /\ ~(2 <= Len(a)) /\ 2 - Len(a) = 1 BY <1>1
  <2>4. (a \o b)[1] = a[1] BY <2>1, <2>2
  <2>5. (a \o b)[2] = b[1] BY <2>1, <2>3
  <2>6. QED BY <1>1, <2>4, <2>5
<1>5. ASSUME NEW i \in 1 .. Len(c) PROVE c[i] = (a \o b)[i]
  <2>1. i = 1 \/ i = 2 BY <1>2
  <2>2. QED BY <1>2, <1>4, <2>1
<1>6. c = a \o b BY <1>2, <1>3, <1>5, SeqEqual
<1>7. QED BY <1>6 DEF a, b, c

LEMMA Pair ==
  ASSUME NEW x \in Token, NEW y \in Token PROVE <<x, y>> = <<x>> \o <<y>>
BY PairOf

LEMMA SepIs ==
  ASSUME NEW h \in DOMAIN Between
  PROVE  Sep(h) \in {SP, COLON, LT} /\ Between[h] = <<Sep(h)>>
<1>1. /\ Between["CSeq"] = <<SP>> /\ Between["Media"] = <<COLON>> /\ Between["From"] = <<LT>>
  BY DEF Between
<1>2. h = "CSeq" \/ h = "Media" \/ h = "From" BY HeadersAre
<1>3. \A t : <<t>>[1] = t OBVIOUS
<1>4. QED BY <1>1, <1>2, <1>3 DEF Sep

LEMMA ValuesAre ==
  ASSUME NEW l, IsLine(l)
  PROVE  /\ l.hdr \in DOMAIN NameLth /\ l.vals \in Seq(Texts) /\ Len(l.vals) \in Nat
         /\ \A k \in 1 .. Len(l.vals) : l.vals[k] \in Texts /\ l.vals[k] \in Seq(Token)
         /\ l.vals = <<>> <=> Len(l.vals) = 0
         /\ l.tail \in Seq(Token)
<1>1. l.hdr \in DOMAIN NameLth /\ l.vals \in Seq(Texts) BY DEF IsLine, WrittenLine
<1>2. \A k \in 1 .. Len(l.vals) : l.vals[k] \in Texts BY <1>1
<1>3. l.tail \in Seq(Token)
  <2>1. l.tail \in Seq(Values \cup {SP, CR, LF, COLON, AT, LT, GT}) BY DEF IsLine, WrittenLine
  <2>2. \A v \in Values \cup {SP, CR, LF, COLON, AT, LT, GT} : v \in Token
    BY ValueIs, DelimitersAre
  <2>3. QED BY <2>1, <2>2
<1>4. QED BY <1>1, <1>2, <1>3, TextsAre

LEMMA EndIs ==
  ASSUME NEW u \in Text
  PROVE  End(u) \in Text /\ Head(End(u)) = CR /\ EOL \o u = End(u) /\ Before(LF, u) \in Text
<1>1. CR \in Token /\ LF \in Token BY DelimitersAre
<1>2. Before(LF, u) \in Text BY <1>1, BeforeIs
<1>3. End(u) \in Text /\ Head(End(u)) = CR BY <1>1, <1>2, BeforeIs DEF End
<1>4. EOL \o u = End(u)
  <2>1. EOL = <<CR>> \o <<LF>> BY <1>1, Pair DEF EOL
  <2>2. <<CR>> \in Seq(Token) /\ <<LF>> \in Seq(Token) /\ u \in Seq(Token) BY <1>1 DEF Text
  <2>3. (<<CR>> \o <<LF>>) \o u = <<CR>> \o (<<LF>> \o u) BY <2>2, ConcatAssociative
  <2>4. QED BY <2>1, <2>3 DEF End, Before
<1>5. QED BY <1>2, <1>3, <1>4

LEMMA EndedIs ==
  ASSUME NEW l, IsLine(l), NEW u \in Text
  PROVE  /\ Ended(l, u) \in Text
         /\ l.tail = Closing(l) =>
              Ended(l, u) = IF l.hdr = "From" /\ Len(l.vals) = 2 THEN Before(GT, End(u))
                                                                ELSE End(u)
<1>1. End(u) \in Text /\ EOL \o u = End(u) BY EndIs
<1>2. GT \in Token /\ CR \in Token /\ LF \in Token BY DelimitersAre
<1>3. Ended(l, u) \in Text BY ValuesAre, JoinedText DEF Ended
<1>4. CASE l.hdr = "From" /\ Len(l.vals) = 2
  <2> DEFINE g == <<GT>>
  <2>1. Closing(l) = g \o EOL BY <1>4 DEF Closing
  <2>2. g \in Seq(Token) /\ EOL \in Seq(Token) /\ u \in Seq(Token) BY <1>2 DEF EOL, Text
  <2>3. Before(GT, End(u)) = g \o End(u) BY DEF Before
  <2> HIDE DEF g
  <2>4. (g \o EOL) \o u = g \o (EOL \o u) BY <2>2, ConcatAssociative
  <2>5. QED BY <1>1, <1>3, <1>4, <2>1, <2>3, <2>4 DEF Ended
<1>5. CASE ~(l.hdr = "From" /\ Len(l.vals) = 2)
  <2>1. EOL \in Seq(Token) BY <1>2 DEF EOL
  <2>2. <<>> \o EOL = EOL BY <2>1, ConcatEmptySeq
  <2>3. Closing(l) = EOL BY <1>5, <2>2 DEF Closing
  <2>4. QED BY <1>1, <1>3, <1>5, <2>3 DEF Ended
<1>6. QED BY <1>4, <1>5

LEMMA ValuesLayout ==
  ASSUME NEW l, IsLine(l), l.vals # <<>>, NEW u \in Text
  PROVE  /\ First(l, u) \in Text
         /\ Len(l.vals) >= 2 => /\ Second(l, u) \in Text
                                /\ Before(Sep(l.hdr), Second(l, u)) \in Text
<1>1. Len(l.vals) \in Nat \ {0} /\ l.vals[1] \in Seq(Token) BY ValuesAre
<1>2. ASSUME Len(l.vals) >= 2 PROVE Second(l, u) \in Text /\ Before(Sep(l.hdr), Second(l, u)) \in Text
  <2>1. l.vals[2] \in Seq(Token) BY <1>1, <1>2, ValuesAre
  <2>2. Second(l, u) \in Text BY <2>1, EndedIs, JoinedText DEF Second
  <2>3. Sep(l.hdr) \in Token BY <1>2, SepIs, DelimitersAre DEF IsLine
  <2>4. QED BY <2>2, <2>3, BeforeIs
<1>3. CASE Len(l.vals) < 2
  <2>1. First(l, u) = l.vals[1] \o Ended(l, u) BY <1>3 DEF First
  <2>2. ~(Len(l.vals) >= 2) BY <1>1, <1>3
  <2>3. First(l, u) \in Text BY <1>1, <2>1, EndedIs, JoinedText
  <2>4. QED BY <2>2, <2>3
<1>4. CASE ~(Len(l.vals) < 2)
  <2>1. First(l, u) = l.vals[1] \o Before(Sep(l.hdr), Second(l, u)) BY <1>4 DEF First
  <2>2. Len(l.vals) >= 2 BY <1>1, <1>4
  <2>3. First(l, u) \in Text BY <1>1, <1>2, <2>1, <2>2, JoinedText
  <2>4. QED BY <1>2, <2>3
<1>5. QED BY <1>3, <1>4

LEMMA ColonLayout ==
  ASSUME NEW l, IsLine(l), l.vals # <<>>, NEW spaced, NEW u \in Text
  PROVE  Colon(l, spaced, u) \in Text /\ Head(Colon(l, spaced, u)) = COLON
<1>1. COLON \in Token /\ SP \in Token BY DelimitersAre
<1>2. First(l, u) \in Text BY ValuesLayout
<1>3. Before(SP, First(l, u)) \in Text BY <1>1, <1>2, BeforeIs
<1>4. QED BY <1>1, <1>2, <1>3, BeforeIs DEF Colon

LEMMA LineLayout ==
  ASSUME NEW l, IsLine(l), NEW spaced, NEW u \in Text
  PROVE  /\ LineBefore(l, spaced, u) \in Text
         /\ Head(LineBefore(l, spaced, u)) = Name(l.hdr)
         /\ Line(l, spaced) \o u = LineBefore(l, spaced, u)
<1> DEFINE a == IF l.vals = <<>> THEN <<>>
                ELSE (IF spaced THEN <<COLON, SP>> ELSE <<COLON>>) \o l.vals[1]
           b == IF Len(l.vals) < 2 THEN <<>> ELSE Between[l.hdr] \o l.vals[2]
           e == l.tail
           v == IF Len(l.vals) < 2 THEN Ended(l, u) ELSE Before(Sep(l.hdr), Second(l, u))
           w == IF l.vals = <<>> THEN Ended(l, u) ELSE Colon(l, spaced, u)
<1>1. Name(l.hdr) \in Token BY ValuesAre, NamesAre
<1>2. SP \in Token /\ COLON \in Token BY DelimitersAre
<1>3. u \in Seq(Token) /\ e \in Seq(Token) BY ValuesAre DEF Text
<1>4. Ended(l, u) \in Text /\ Ended(l, u) \in Seq(Token) /\ e \o u = Ended(l, u)
  BY EndedIs DEF Text, Ended
<1>5. b \in Seq(Token) /\ b \o Ended(l, u) = v /\ v \in Text
  <2>1. CASE Len(l.vals) < 2
    <3>1. b = <<>> /\ v = Ended(l, u) BY <2>1
    <3>2. QED BY <1>4, <3>1, ConcatEmptySeq, EmptySeq
  <2>2. CASE ~(Len(l.vals) < 2)
    <3>1. Len(l.vals) >= 2 /\ l.vals # <<>> BY <2>2, ValuesAre
    <3> DEFINE h == l.hdr
               s == <<Sep(h)>>
               x == l.vals[2]
    <3>2. x \in Seq(Token) BY <3>1, ValuesAre
    <3>3. Sep(h) \in Token /\ Between[h] = s BY <3>1, SepIs, DelimitersAre DEF IsLine
    <3>4. b = s \o x BY <2>2, <3>3
    <3>5. s \in Seq(Token) BY <3>3
    <3>6. v = s \o (x \o Ended(l, u)) BY <2>2 DEF Second, Before
    <3>7. v \in Text BY <2>2, <3>1, ValuesLayout
    <3> HIDE DEF h, s, x, b, v
    <3>8. b \in Seq(Token) BY <3>2, <3>4, <3>5, ConcatProperties
    <3>9. (s \o x) \o Ended(l, u) = s \o (x \o Ended(l, u))
      BY <1>4, <3>2, <3>5, ConcatAssociative
    <3>10. QED BY <3>4, <3>6, <3>7, <3>8, <3>9
  <2>3. QED BY <2>1, <2>2
<1>6. a \in Seq(Token) /\ a \o v = w /\ w \in Text
  <2>1. CASE l.vals = <<>>
    <3>1. a = <<>> /\ w = Ended(l, u) /\ v = Ended(l, u) BY <2>1
    <3>2. QED BY <1>4, <3>1, ConcatEmptySeq, EmptySeq
  <2>2. CASE l.vals # <<>>
    <3> DEFINE x == l.vals[1]
    <3>1. x \in Seq(Token) BY <2>2, ValuesAre
    <3>2. v \in Seq(Token) BY <1>5 DEF Text
    <3>3. x \o v = First(l, u) BY DEF First
    <3>4. <<COLON>> \in Seq(Token) /\ <<SP>> \in Seq(Token) BY <1>2
    <3>5. First(l, u) \in Seq(Token) BY <2>2, ValuesLayout DEF Text
    <3>6. w = Colon(l, spaced, u) /\ w \in Text BY <2>2, ColonLayout
    <3>7. CASE spaced
      <4>1. a = <<COLON, SP>> \o x BY <2>2, <3>7
      <4>2. <<COLON, SP>> = <<COLON>> \o <<SP>> BY <1>2, Pair
      <4> HIDE DEF a, v, w, x
      <4>3. <<COLON>> \o <<SP>> \in Seq(Token) BY <3>4, ConcatProperties
      <4>4. a \in Seq(Token) BY <3>1, <4>1, <4>2, <4>3, ConcatProperties
      <4> DEFINE p == <<COLON>> \o <<SP>>
      <4>5. a \o v = p \o First(l, u)
        <5>1. p \in Seq(Token) BY <4>3
        <5>2. a = p \o x BY <4>1, <4>2
        <5> HIDE DEF p
        <5>3. (p \o x) \o v = p \o (x \o v) BY <3>1, <3>2, <5>1, ConcatAssociative
        <5>4. QED BY <3>3, <5>2, <5>3
      <4>6. a \o v = <<COLON>> \o (<<SP>> \o First(l, u))
        BY <3>4, <3>5, <4>5, ConcatAssociative
      <4>7. QED BY <3>6, <3>7, <4>4, <4>6 DEF Colon, Before
    <3>8. CASE ~spaced
      <4>1. a = <<COLON>> \o x BY <2>2, <3>8
      <4> HIDE DEF a, v, w, x
      <4>2. a \in Seq(Token) BY <3>1, <3>4, <4>1, ConcatProperties
      <4>3. (<<COLON>> \o x) \o v = <<COLON>> \o (x \o v)
        BY <3>1, <3>2, <3>4, ConcatAssociative
      <4>4. a \o v = <<COLON>> \o First(l, u) BY <3>3, <4>1, <4>3
      <4>5. QED BY <3>6, <3>8, <4>2, <4>4 DEF Colon, Before
    <3>9. QED BY <3>7, <3>8
  <2>3. QED BY <2>1, <2>2
<1>7. Line(l, spaced) = <<Name(l.hdr)>> \o a \o b \o e BY DEF Line
<1>8. LineBefore(l, spaced, u) = Before(Name(l.hdr), w) BY DEF LineBefore
<1> HIDE DEF a, b, e, v, w
<1> DEFINE n == <<Name(l.hdr)>>
           na == n \o a
           nab == na \o b
<1>9. n \in Seq(Token) BY <1>1
<1> HIDE DEF n
<1>10. na \in Seq(Token) BY <1>6, <1>9, ConcatProperties
<1>11. v \in Seq(Token) BY <1>5 DEF Text
<1>12. na \o v = n \o (a \o v) BY <1>6, <1>9, <1>11, Associative, ZenonT(60)
<1> HIDE DEF na
<1>13. nab \in Seq(Token) BY <1>5, <1>10, ConcatProperties
<1>14. nab \o Ended(l, u) = na \o (b \o Ended(l, u))
  BY <1>4, <1>5, <1>10, Associative, ZenonT(60)
<1> HIDE DEF nab
<1>15. (nab \o e) \o u = nab \o (e \o u) BY <1>3, <1>13, Associative, ZenonT(60)
<1>16. Line(l, spaced) = nab \o e BY <1>7 DEF n, na, nab
<1>17. Line(l, spaced) \o u = n \o w BY <1>4, <1>5, <1>6, <1>12, <1>14, <1>15, <1>16
<1>18. Line(l, spaced) \o u = LineBefore(l, spaced, u) BY <1>8, <1>17 DEF Before, n
<1>19. QED BY <1>1, <1>6, <1>8, <1>18, BeforeIs

\* What is left of a request when k of its lines are left.
Ending(d) == IF d.ended THEN End(<<NUL>>) ELSE <<NUL>>

LineLeft(d, k) == d.lines[(Len(d.lines) - k) + 1]

Lay(d) ==
    [k \in 1 .. Len(d.lines) |-> [u \in Text |-> LineBefore(LineLeft(d, k), d.spaced, u)]]

Left(d) == CHOOSE g : Computes(Text, Ending(d), Len(d.lines), Lay(d), g)

Host(u) == Before(Word("host", 12), End(u))

User(u) == Before(Word("user", 6), Before(AT, Host(u)))

LEMMA LinesAre ==
  ASSUME NEW d \in Drafts
  PROVE  /\ Len(d.lines) \in Nat /\ DOMAIN d.lines = 1 .. Len(d.lines)
         /\ \A i \in 1 .. Len(d.lines) : IsLine(d.lines[i])
         /\ \A k \in 1 .. Len(d.lines) :
              (Len(d.lines) - k) + 1 \in 1 .. Len(d.lines) /\ IsLine(LineLeft(d, k))
<1>1. d.lines \in Seq(WrittenLine) BY DraftsAssumption
<1>2. Len(d.lines) \in Nat /\ DOMAIN d.lines = 1 .. Len(d.lines) BY <1>1
<1>3. ASSUME NEW i \in 1 .. Len(d.lines) PROVE IsLine(d.lines[i])
  <2>1. i \in DOMAIN d.lines BY <1>2
  <2>2. QED BY <2>1, LineIs DEF IsLine
<1>4. \A k \in 1 .. Len(d.lines) : (Len(d.lines) - k) + 1 \in 1 .. Len(d.lines) BY <1>2
<1>5. QED BY <1>2, <1>3, <1>4 DEF LineLeft

LEMMA EndingIs ==
  ASSUME NEW d
  PROVE  /\ Ending(d) \in Text /\ Head(Ending(d)) \in {CR, NUL}
         /\ (IF d.ended THEN EOL ELSE <<>>) \o <<NUL>> = Ending(d)
<1>1. <<NUL>> \in Text /\ <<NUL>> \in Seq(Token) /\ Head(<<NUL>>) = NUL
  BY EndOfText DEF Text
<1>2. <<>> \o <<NUL>> = <<NUL>> BY <1>1, ConcatEmptySeq
<1>3. QED BY <1>1, <1>2, EndIs DEF Ending

LEMMA LeftIs ==
  ASSUME NEW d \in Drafts
  PROVE  /\ Left(d) \in [0 .. Len(d.lines) -> Text] /\ Left(d)[0] = Ending(d)
         /\ \A k \in 1 .. Len(d.lines) :
              Left(d)[k] = LineBefore(LineLeft(d, k), d.spaced, Left(d)[k - 1])
<1> DEFINE n == Len(d.lines)
<1>1. n \in Nat BY LinesAre
<1>2. \A k \in 1 .. n : \A u \in Text : LineBefore(LineLeft(d, k), d.spaced, u) \in Text
  BY LinesAre, LineLayout
<1>3. Steps(Text, n, Lay(d)) BY <1>2 DEF Steps, Lay
<1>4. \E g : Computes(Text, Ending(d), n, Lay(d), g)
  BY <1>1, <1>3, EndingIs, RecursiveFunction
<1>5. Computes(Text, Ending(d), n, Lay(d), Left(d)) BY <1>4 DEF Left
<1>6. ASSUME NEW k \in 1 .. n
      PROVE  Left(d)[k] = LineBefore(LineLeft(d, k), d.spaced, Left(d)[k - 1])
  <2>1. k - 1 \in 0 .. n BY <1>1
  <2>2. Left(d)[k - 1] \in Text BY <1>5, <2>1 DEF Computes
  <2>3. Left(d)[k] = Lay(d)[k][Left(d)[k - 1]] BY <1>5 DEF Computes
  <2>4. QED BY <2>2, <2>3 DEF Lay
<1>7. QED BY <1>5, <1>6 DEF Computes

\* The lines one behind the other, and what follows them.
LEMMA LinesLayout ==
  ASSUME NEW d \in Drafts
  PROVE  FlattenSeq([i \in DOMAIN d.lines |-> Line(d.lines[i], d.spaced)]) \o Ending(d)
           = Left(d)[Len(d.lines)]
<1> DEFINE n == Len(d.lines)
           L == Left(d)
           seqs == [i \in DOMAIN d.lines |-> Line(d.lines[i], d.spaced)]
<1>1. n \in Nat /\ DOMAIN d.lines = 1 .. n BY LinesAre
<1>2. ASSUME NEW i \in 1 .. n PROVE seqs[i] = Line(d.lines[i], d.spaced) /\ seqs[i] \in Seq(Token)
  <2>1. IsLine(d.lines[i]) BY LinesAre
  <2>2. Line(d.lines[i], d.spaced) \in Seq(Token) BY <2>1, LineType DEF IsLine
  <2>3. QED BY <1>1, <2>2
<1>3. seqs \in Seq(Seq(Token)) /\ Len(seqs) = n
  <2>1. seqs \in [1 .. n -> Seq(Token)] /\ DOMAIN seqs = 1 .. n BY <1>1, <1>2
  <2> HIDE DEF seqs, n
  <2>2. seqs \in Seq(Seq(Token)) BY <1>1, <2>1
  <2>3. Len(seqs) \in Nat /\ 1 .. Len(seqs) = 1 .. n BY <2>1, <2>2, LenProperties
  <2>4. QED BY <1>1, <2>2, <2>3, SMTT(30)
<1> HIDE DEF seqs
<1>4. L[0] = Ending(d) /\ Ending(d) \in Seq(Token) BY LeftIs, EndingIs DEF Text
<1>5. ASSUME NEW k \in 1 .. n
      PROVE  L[k - 1] \in Text /\ L[k] = Line(LineLeft(d, k), d.spaced) \o L[k - 1]
  <2>1. k - 1 \in 0 .. n BY <1>1
  <2>2. L[k - 1] \in Text BY <2>1, LeftIs
  <2>3. IsLine(LineLeft(d, k)) BY LinesAre
  <2>4. L[k] = LineBefore(LineLeft(d, k), d.spaced, L[k - 1]) BY LeftIs
  <2>5. QED BY <2>2, <2>3, <2>4, LineLayout
<1> HIDE DEF L
<1>6. CASE n = 0
  <2>1. FlattenSeq(seqs) = <<>>
    <3>1. Len(seqs) = 0 BY <1>3, <1>6
    <3>2. seqs = <<>> BY <1>3, <3>1
    <3>3. QED BY <3>1, <3>2 DEF FlattenSeq
  <2>2. <<>> \o Ending(d) = Ending(d) BY <1>4, ConcatEmptySeq
  <2>3. QED BY <1>4, <1>6, <2>1, <2>2 DEF L, seqs
<1>7. CASE n # 0
  <2>1. seqs # <<>> BY <1>3, <1>7
  <2>2. PICK f : Flattens(seqs, f) /\ FlattenSeq(seqs) = f[n] BY <1>3, <2>1, FlattenIs
  <2> DEFINE Joined(i) == f[i] \o L[n - i] = L[n]
             S == {i \in Nat : i \in 1 .. n => Joined(i)}
  <2>3. 0 \in S OBVIOUS
  <2>4. ASSUME NEW i \in Nat, i \in S PROVE i + 1 \in S
    <3>1. SUFFICES ASSUME i + 1 \in 1 .. n PROVE Joined(i + 1)
      <4> HIDE DEF Joined
      <4>1. QED OBVIOUS
    <3> DEFINE k == n - i
    <3>2. k \in 1 .. n /\ n - (i + 1) = k - 1 /\ (n - k) + 1 = i + 1 BY <1>1, <3>1
    <3>3. LineLeft(d, k) = d.lines[i + 1] BY <3>2 DEF LineLeft
    <3>4. L[k] = seqs[i + 1] \o L[k - 1] BY <1>2, <1>5, <3>1, <3>2, <3>3
    <3>5. seqs[i + 1] \in Seq(Token) /\ L[k - 1] \in Seq(Token)
      BY <1>2, <1>5, <3>1, <3>2 DEF Text
    <3>6. CASE i = 0
      <4>1. f[1] = seqs[1] BY <2>2 DEF Flattens
      <4>2. k = n /\ i + 1 = 1 BY <1>1, <3>6
      <4>3. f[i + 1] = seqs[i + 1] BY <4>1, <4>2
      <4> HIDE DEF k
      <4>4. QED BY <3>2, <3>4, <4>2, <4>3
    <3>7. CASE i # 0
      <4>1. i \in 1 .. n /\ i + 1 \in 2 .. n /\ (i + 1) - 1 = i BY <1>1, <3>1, <3>7
      <4>2. f[i] \o L[k] = L[n] BY <2>4, <4>1
      <4>3. f[i] \in Seq(Token) /\ f[i + 1] = f[i] \o seqs[i + 1]
        BY <1>3, <2>2, <4>1 DEF Flattens
      <4> HIDE DEF k
      <4>4. (f[i] \o seqs[i + 1]) \o L[k - 1] = f[i] \o (seqs[i + 1] \o L[k - 1])
        BY <3>5, <4>3, Associative, ZenonT(60)
      <4>5. QED BY <3>2, <3>4, <4>2, <4>3, <4>4
    <3>8. QED BY <3>6, <3>7
  <2> HIDE DEF S
  <2>5. Nat \subseteq S BY <2>3, <2>4, NatSetInduction
  <2>6. n \in 1 .. n /\ n - n = 0 BY <1>1, <1>7
  <2>7. f[n] \o L[n - n] = L[n] BY <1>1, <2>5, <2>6 DEF S
  <2>8. QED BY <1>4, <2>2, <2>6, <2>7 DEF L, seqs
<1>8. QED BY <1>6, <1>7

LEMMA RequestLineIs ==
  ASSUME NEW u \in Text
  PROVE  /\ Host(u) \in Text /\ Head(Host(u)) = Word("host", 12)
         /\ User(u) \in Text /\ Head(User(u)) = Word("user", 6) /\ Before(AT, Host(u)) \in Text
         /\ Word("user", 6) \in Token \ Chars /\ Word("host", 12) \in Token \ Chars
         /\ <<SP, Word("user", 6), AT, Word("host", 12)>> \o End(u) = Before(SP, User(u))
<1>1. "user" \in Words \cup OwnWords /\ "host" \in Words \cup OwnWords BY DEF OwnWords
<1> DEFINE x == Word("user", 6)
           y == Word("host", 12)
<1>2. x \in Token \ Chars /\ y \in Token \ Chars BY <1>1, WordIs
<1>3. AT \in Token /\ SP \in Token BY DelimitersAre
<1>4. Host(u) \in Text /\ Head(Host(u)) = y BY <1>2, EndIs, BeforeIs DEF Host
<1>5. Before(AT, Host(u)) \in Text BY <1>3, <1>4, BeforeIs
<1>6. User(u) \in Text /\ Head(User(u)) = x BY <1>2, <1>5, BeforeIs DEF User
<1> HIDE DEF x, y
<1>7. <<SP, x, AT, y>> \o End(u) = Before(SP, User(u))
  <2> DEFINE a == <<SP>>
             b == <<x>>
             c == <<AT>>
             e == <<y>>
             v == End(u)
  <2>1. <<SP, x, AT, y>> = ((a \o b) \o c) \o e
    <3> DEFINE p == <<SP, x>>
               q == <<SP, x, AT>>
               r == <<SP, x, AT, y>>
    <3>1. p = a \o b BY <1>2, <1>3, Pair
    <3>2. p \in Seq(Token) /\ q \in Seq(Token) BY <1>2, <1>3
    <3>3. q = Append(p, AT) /\ r = Append(q, y) OBVIOUS
    <3> HIDE DEF p, q, r
    <3>4. Append(p, AT) = p \o c BY <1>3, <3>2, AppendIsConcat
    <3>5. Append(q, y) = q \o e BY <1>2, <3>2, AppendIsConcat
    <3>6. r = ((a \o b) \o c) \o e BY <3>1, <3>3, <3>4, <3>5
    <3>7. QED BY <3>6 DEF r
  <2>2. a \in Seq(Token) /\ b \in Seq(Token) /\ c \in Seq(Token) /\ e \in Seq(Token)
    BY <1>2, <1>3
  <2>3. v \in Seq(Token) BY EndIs DEF Text
  <2> HIDE DEF a, b, c, e, v
  <2>4. a \o b \in Seq(Token) BY <2>2, ConcatProperties
  <2>5. (a \o b) \o c \in Seq(Token) BY <2>2, <2>4, ConcatProperties
  <2>6. e \o v \in Seq(Token) BY <2>2, <2>3, ConcatProperties
  <2>7. c \o (e \o v) \in Seq(Token) BY <2>2, <2>6, ConcatProperties
  <2>8. (((a \o b) \o c) \o e) \o v = ((a \o b) \o c) \o (e \o v)
    BY <2>2, <2>3, <2>5, Associative, ZenonT(60)
  <2>9. ((a \o b) \o c) \o (e \o v) = (a \o b) \o (c \o (e \o v))
    BY <2>2, <2>4, <2>6, Associative, ZenonT(60)
  <2>10. (a \o b) \o (c \o (e \o v)) = a \o (b \o (c \o (e \o v)))
    BY <2>2, <2>7, Associative, ZenonT(60)
  <2>11. Before(SP, User(u)) = a \o (b \o (c \o (e \o v)))
    BY DEF Before, User, Host, a, b, c, e, v, x, y
  <2>12. QED BY <2>1, <2>8, <2>9, <2>10, <2>11 DEF v
<1>8. QED BY <1>2, <1>4, <1>5, <1>6, <1>7 DEF x, y

\* A request token by token.
LEMMA RequestLayout ==
  ASSUME NEW d \in Drafts
  PROVE  /\ Request(d) = Before(Word(d.method, 6),
                                LET u == Left(d)[Len(d.lines)]
                                IN  IF d.url THEN Before(SP, User(u)) ELSE End(u))
         /\ Left(d)[Len(d.lines)] \in Text /\ Word(d.method, 6) \in Token \ Chars
<1> DEFINE first == <<Word(d.method, 6)>>
           url == IF d.url THEN <<SP, Word("user", 6), AT, Word("host", 12)>> ELSE <<>>
           lines == FlattenSeq([i \in DOMAIN d.lines |-> Line(d.lines[i], d.spaced)])
           last == IF d.ended THEN EOL ELSE <<>>
           nul == <<NUL>>
           u == Left(d)[Len(d.lines)]
           v == IF d.url THEN Before(SP, User(u)) ELSE End(u)
<1>1. Word(d.method, 6) \in Token \ Chars
  <2>1. d.method \in Words BY DraftsAssumption
  <2>2. QED BY <2>1, WordIs
<1>2. u \in Text
  <2>1. Len(d.lines) \in 0 .. Len(d.lines) BY LinesAre
  <2>2. QED BY <2>1, LeftIs
<1>3. EOL \in Seq(Token) /\ CR \in Token /\ LF \in Token BY DelimitersAre DEF EOL
<1>4. first \in Seq(Token) BY <1>1
<1>5. url \in Seq(Token)
  <2>1. SP \in Token /\ AT \in Token /\ Word("user", 6) \in Token /\ Word("host", 12) \in Token
    BY <1>2, DelimitersAre, RequestLineIs
  <2>2. <<SP, Word("user", 6), AT, Word("host", 12)>> \in Seq(Token) BY <2>1
  <2>3. QED BY <2>2
<1>6. last \in Seq(Token) BY <1>3
<1>7. lines \in Seq(Token)
  <2>1. [i \in DOMAIN d.lines |-> Line(d.lines[i], d.spaced)] \in Seq(Seq(Token))
    <3>1. DOMAIN d.lines = 1 .. Len(d.lines) /\ Len(d.lines) \in Nat BY LinesAre
    <3>2. ASSUME NEW i \in DOMAIN d.lines PROVE Line(d.lines[i], d.spaced) \in Seq(Token)
      <4>1. IsLine(d.lines[i]) BY <3>1, LinesAre
      <4>2. QED BY <4>1, LineType DEF IsLine
    <3>3. QED BY <3>1, <3>2
  <2>2. QED BY <2>1, FlattenType
<1>8. nul \in Seq(Token) BY EndOfText
<1>9. last \o nul = Ending(d) BY EndingIs
<1>10. lines \o Ending(d) = u BY LinesLayout
<1>11. EOL \o u = End(u) /\ End(u) \in Text BY <1>2, EndIs
<1>12. url \o End(u) = v
  <2>1. CASE d.url BY <1>2, <2>1, RequestLineIs
  <2>2. CASE ~d.url
    <3>1. End(u) \in Seq(Token) BY <1>11 DEF Text
    <3>2. <<>> \o End(u) = End(u) BY <3>1, ConcatEmptySeq
    <3>3. QED BY <2>2, <3>2
  <2>3. QED BY <2>1, <2>2
<1>13. Request(d) = ((((first \o url) \o EOL) \o lines) \o last) \o nul BY DEF Request
<1> HIDE DEF first, url, lines, last, nul, u, v
<1>14. first \o url \in Seq(Token) BY <1>4, <1>5, ConcatProperties
<1>15. (first \o url) \o EOL \in Seq(Token) BY <1>3, <1>14, ConcatProperties
<1>16. ((first \o url) \o EOL) \o lines \in Seq(Token) BY <1>7, <1>15, ConcatProperties
<1>17. Request(d) = (((first \o url) \o EOL) \o lines) \o (last \o nul)
  BY <1>6, <1>8, <1>13, <1>16, Associative, ZenonT(60)
<1>18. Ending(d) \in Seq(Token) BY <1>6, <1>8, <1>9, ConcatProperties
<1>19. (((first \o url) \o EOL) \o lines) \o Ending(d)
         = ((first \o url) \o EOL) \o (lines \o Ending(d))
  BY <1>7, <1>15, <1>18, Associative, ZenonT(60)
<1>20. u \in Seq(Token) BY <1>2 DEF Text
<1>21. ((first \o url) \o EOL) \o u = (first \o url) \o (EOL \o u)
  BY <1>3, <1>14, <1>20, Associative, ZenonT(60)
<1>22. End(u) \in Seq(Token) BY <1>11 DEF Text
<1>23. (first \o url) \o End(u) = first \o (url \o End(u))
  BY <1>4, <1>5, <1>22, Associative, ZenonT(60)
<1>24. Request(d) = first \o v BY <1>9, <1>10, <1>11, <1>12, <1>17, <1>19, <1>21, <1>23
<1>25. QED BY <1>1, <1>2, <1>24 DEF Before, first, u, v

-----------------------------------------------------------------------------
(***************************************************************************)
(* Reading a line.                                                         *)
(***************************************************************************)
LEMMA FieldIs ==
  ASSUME NEW a, NEW b, NEW c, NEW e
  PROVE  /\ Field(a, b, c, e).stops = a /\ Field(a, b, c, e).limit = b
         /\ Field(a, b, c, e).skip = c /\ Field(a, b, c, e).kind = e
BY DEF Field

LEMMA ShortHeader ==
  ASSUME NEW h \in Headers, h \notin DOMAIN Between
  PROVE  /\ Len(Fields[h]) = 1 /\ Fields[h][1].stops = {CR} /\ Fields[h][1].skip = 2
         /\ Fields[h][1].kind # "host"
<1>1. h \in {"CallID", "Event", "ContentLength", "UserAgent"} BY HeadersAre
<1>2. Fields["CallID"] = <<Field({CR}, ID_TOKEN_LTH, 2, "chars")>>
  BY DEF Fields, DecodeCallID
<1>3. Fields["Event"] = <<Field({CR}, EVENT_NAME_LTH, 2, "chars")>>
  BY DEF Fields, DecodeEvent
<1>4. Fields["ContentLength"] = <<Field({CR}, 5, 2, "word")>>
  BY DEF Fields, DecodeCntLength
<1>5. Fields["UserAgent"] = <<Field({CR}, COMMEN_LTH, 2, "string")>>
  BY DEF Fields, DecodeUserAgent
<1>6. PICK lim, kind : Fields[h] = <<Field({CR}, lim, 2, kind)>> /\ kind # "host"
  BY <1>1, <1>2, <1>3, <1>4, <1>5
<1>7. Len(Fields[h]) = 1 /\ Fields[h][1] = Field({CR}, lim, 2, kind) BY <1>6
<1>8. QED BY <1>6, <1>7, FieldIs

LEMMA LongHeader ==
  ASSUME NEW h \in DOMAIN Between
  PROVE  /\ h \in Headers /\ Len(Fields[h]) = 2
         /\ Sep(h) \in Fields[h][1].stops /\ Fields[h][1].stops \subseteq Chars
         /\ Fields[h][1].skip = 1 /\ Fields[h][1].kind # "host"
         /\ (IF h = "From" THEN GT ELSE CR) \in Fields[h][2].stops
         /\ Fields[h][2].stops \subseteq Chars
         /\ Fields[h][2].skip = (IF h = "From" THEN 3 ELSE 2) /\ Fields[h][2].kind # "host"
<1>1. /\ Sep("CSeq") = SP /\ Sep("Media") = COLON /\ Sep("From") = LT
  <2>1. /\ Between["CSeq"] = <<SP>> /\ Between["Media"] = <<COLON>> /\ Between["From"] = <<LT>>
    BY DEF Between
  <2>2. QED BY <2>1 DEF Sep
<1>2. h \in Headers BY HeadersAre
<1>3. h = "CSeq" \/ h = "Media" \/ h = "From" BY HeadersAre
<1>4. CASE h = "CSeq"
  <2>1. Fields[h] = <<Field({SP}, 11, 1, "dword"), Field({CR}, METHOD_LTH, 2, "chars")>>
    BY <1>4 DEF Fields, DecodeCSeq
  <2>2. /\ Len(Fields[h]) = 2 /\ Fields[h][1] = Field({SP}, 11, 1, "dword")
        /\ Fields[h][2] = Field({CR}, METHOD_LTH, 2, "chars")
    BY <2>1
  <2>3. {SP} \subseteq Chars /\ {CR} \subseteq Chars BY DEF Chars
  <2>4. /\ Fields[h][1].stops = {SP} /\ Fields[h][1].skip = 1
        /\ Fields[h][1].kind = "dword"
    BY <2>2, FieldIs
  <2>5. /\ Fields[h][2].stops = {CR} /\ Fields[h][2].skip = 2
        /\ Fields[h][2].kind = "chars"
    BY <2>2, FieldIs
  <2>6. Sep(h) = SP /\ (IF h = "From" THEN GT ELSE CR) = CR
        /\ (IF h = "From" THEN 3 ELSE 2) = 2
    BY <1>1, <1>4
  <2>7. /\ Sep(h) \in Fields[h][1].stops /\ Fields[h][1].stops \subseteq Chars
        /\ Fields[h][1].skip = 1 /\ Fields[h][1].kind # "host"
    BY <2>3, <2>4, <2>6
  <2>8. /\ (IF h = "From" THEN GT ELSE CR) \in Fields[h][2].stops
        /\ Fields[h][2].stops \subseteq Chars
        /\ Fields[h][2].skip = (IF h = "From" THEN 3 ELSE 2) /\ Fields[h][2].kind # "host"
    BY <2>3, <2>5, <2>6
  <2>9. QED BY <1>2, <2>2, <2>7, <2>8
<1>5. CASE h = "Media"
  <2>1. Fields[h] = <<Field({COLON}, NODE_ADDR_LTH, 1, "chars"),
                      Field({CR}, HOST_PORT_LTH, 2, "word")>>
    BY <1>5 DEF Fields, DecodeMedia
  <2>2. /\ Len(Fields[h]) = 2 /\ Fields[h][1] = Field({COLON}, NODE_ADDR_LTH, 1, "chars")
        /\ Fields[h][2] = Field({CR}, HOST_PORT_LTH, 2, "word")
    BY <2>1
  <2>3. {COLON} \subseteq Chars /\ {CR} \subseteq Chars BY DEF Chars
  <2>4. /\ Fields[h][1].stops = {COLON} /\ Fields[h][1].skip = 1
        /\ Fields[h][1].kind = "chars"
    BY <2>2, FieldIs
  <2>5. /\ Fields[h][2].stops = {CR} /\ Fields[h][2].skip = 2
        /\ Fields[h][2].kind = "word"
    BY <2>2, FieldIs
  <2>6. Sep(h) = COLON /\ (IF h = "From" THEN GT ELSE CR) = CR
        /\ (IF h = "From" THEN 3 ELSE 2) = 2
    BY <1>1, <1>5
  <2>7. /\ Sep(h) \in Fields[h][1].stops /\ Fields[h][1].stops \subseteq Chars
        /\ Fields[h][1].skip = 1 /\ Fields[h][1].kind # "host"
    BY <2>3, <2>4, <2>6
  <2>8. /\ (IF h = "From" THEN GT ELSE CR) \in Fields[h][2].stops
        /\ Fields[h][2].stops \subseteq Chars
        /\ Fields[h][2].skip = (IF h = "From" THEN 3 ELSE 2) /\ Fields[h][2].kind # "host"
    BY <2>3, <2>5, <2>6
  <2>9. QED BY <1>2, <2>2, <2>7, <2>8
<1>6. CASE h = "From"
  <2>1. Fields[h] = <<Field({LT, CR}, USER_LTH, 1, "chars"), Field({GT, CR}, USER_LTH, 3, "chars")>>
    BY <1>6 DEF Fields, DecodeFrom
  <2>2. /\ Len(Fields[h]) = 2 /\ Fields[h][1] = Field({LT, CR}, USER_LTH, 1, "chars")
        /\ Fields[h][2] = Field({GT, CR}, USER_LTH, 3, "chars")
    BY <2>1
  <2>3. {LT, CR} \subseteq Chars /\ {GT, CR} \subseteq Chars BY DEF Chars
  <2>4. /\ Fields[h][1].stops = {LT, CR} /\ Fields[h][1].skip = 1
        /\ Fields[h][1].kind = "chars"
    BY <2>2, FieldIs
  <2>5. /\ Fields[h][2].stops = {GT, CR} /\ Fields[h][2].skip = 3
        /\ Fields[h][2].kind = "chars"
    BY <2>2, FieldIs
  <2>6. Sep(h) = LT /\ (IF h = "From" THEN GT ELSE CR) = GT
        /\ (IF h = "From" THEN 3 ELSE 2) = 3
    BY <1>1, <1>6
  <2>7. /\ Sep(h) \in Fields[h][1].stops /\ Fields[h][1].stops \subseteq Chars
        /\ Fields[h][1].skip = 1 /\ Fields[h][1].kind # "host"
    BY <2>3, <2>4, <2>6
  <2>8. /\ (IF h = "From" THEN GT ELSE CR) \in Fields[h][2].stops
        /\ Fields[h][2].stops \subseteq Chars
        /\ Fields[h][2].skip = (IF h = "From" THEN 3 ELSE 2) /\ Fields[h][2].kind # "host"
    BY <2>3, <2>5, <2>6
  <2>9. QED BY <1>2, <2>2, <2>7, <2>8
<1>7. QED BY <1>3, <1>4, <1>5, <1>6

LEMMA RequestLineFields ==
  /\ Len(Fields["RequestLine"]) = 3
  /\ Fields["RequestLine"][1] = Field({SP}, METHOD_LTH, 1, "chars")
  /\ Fields["RequestLine"][2] = Field({AT}, USER_LTH, 1, "chars")
  /\ Fields["RequestLine"][3] = Field({CR}, NODE_ADDR_LTH, 2, "host")
<1>1. Fields["RequestLine"] =
        <<Field({SP}, METHOD_LTH, 1, "chars"), Field({AT}, USER_LTH, 1, "chars"),
          Field({CR}, NODE_ADDR_LTH, 2, "host")>>
  BY DEF Fields, RequestLine
<1>2. QED BY <1>1

\* Without a blank behind the colon, none follows it that could be taken for one.
LEMMA FirstHead ==
  ASSUME NEW l, IsLine(l), l.vals # <<>>, NEW u \in Text,
         NEW spaced, ~spaced, ~RunsOn(l, spaced)
  PROVE  Head(First(l, u)) # SP
<1> DEFINE s == l.vals[1]
           v == IF Len(l.vals) < 2 THEN Ended(l, u) ELSE Before(Sep(l.hdr), Second(l, u))
<1>1. Len(l.vals) \in Nat \ {0} BY ValuesAre
<1>2. s \in Texts /\ s \in Seq(Token)
  <2>1. 1 \in 1 .. Len(l.vals) BY <1>1
  <2>2. QED BY <2>1, ValuesAre
<1>3. First(l, u) = s \o v BY DEF First
<1>4. v \in Text /\ (s = <<>> => Head(v) # SP)
  <2>1. CASE Len(l.vals) < 2
    <3>1. l.tail = Closing(l) /\ Len(l.vals) # 2
      <4>1. l.tail = Closing(l) BY DEF RunsOn
      <4>2. ~(2 < 2) OBVIOUS
      <4>3. Len(l.vals) # 2 BY <2>1, <4>2, Zenon
      <4>4. QED BY <4>1, <4>3
    <3>2. Ended(l, u) = End(u) BY <3>1, EndedIs
    <3>3. v = End(u) BY <2>1, <3>2
    <3>4. CR # SP BY CharsDiffer
    <3>5. QED BY <3>3, <3>4, EndIs
  <2>2. CASE ~(Len(l.vals) < 2)
    <3>1. Len(l.vals) >= 2 BY <1>1, <2>2
    <3>2. v = Before(Sep(l.hdr), Second(l, u)) /\ Second(l, u) \in Text /\ v \in Text
      BY <2>2, <3>1, ValuesLayout
    <3>3. l.hdr \in DOMAIN Between BY <3>1 DEF IsLine
    <3>4. Len(l.vals) = 2
      <4> DEFINE n == Len(l.vals)
                 m == Len(Fields[l.hdr])
      <4>1. n \in Nat /\ n >= 2 /\ n <= m /\ m = 2 BY <1>1, <3>1, <3>3, LongHeader DEF IsLine
      <4> HIDE DEF n, m
      <4>2. n = 2 BY <4>1
      <4>3. QED BY <4>2 DEF n
    <3>5. s = <<>> => l.hdr # "CSeq" BY <3>4 DEF RunsOn
    <3>6. l.hdr = "CSeq" \/ l.hdr = "Media" \/ l.hdr = "From" BY <3>3, HeadersAre
    <3>7. Sep("Media") = COLON /\ Sep("From") = LT BY DEF Sep, Between
    <3>8. COLON # SP /\ LT # SP BY CharsDiffer
    <3>9. Sep(l.hdr) \in Token BY <3>3, SepIs, DelimitersAre
    <3>10. Head(v) = Sep(l.hdr) BY <3>2, <3>9, BeforeIs
    <3>11. QED BY <3>2, <3>5, <3>6, <3>7, <3>8, <3>10
  <2>3. QED BY <2>1, <2>2
<1> HIDE DEF v
<1>5. CASE s = <<>>
  <2>1. v \in Seq(Token) BY <1>4 DEF Text
  <2>2. <<>> \o v = v BY <2>1, ConcatEmptySeq
  <2>3. QED BY <1>3, <1>4, <1>5, <2>2
<1>6. CASE s # <<>>
  <2>1. v \in Seq(Token) BY <1>4 DEF Text
  <2>2. Head(s) \notin Chars /\ SP \in Chars BY <1>2, <1>6, TextsAre DEF Chars
  <2> HIDE DEF s
  <2>3. Head(s \o v) = Head(s) BY <1>2, <1>6, <2>1
  <2>4. QED BY <1>3, <2>2, <2>3
<1>7. QED BY <1>5, <1>6

\* The name of a header is understood if a colon follows it, and no other name is.
LEMMA NameRead ==
  ASSUME NEW l, IsLine(l), NEW spaced, ~RunsOn(l, spaced), NEW u \in Text,
         rest = LineBefore(l, spaced, u)
  PROVE  /\ Head(rest) \notin {CR, NUL}
         /\ \A h \in Headers : Named(h) <=> l.vals # <<>> /\ l.hdr = h
         /\ l.vals # <<>> => ReadHCOLON(After(rest, {COLON, SP})) = First(l, u)
<1> DEFINE stops == {COLON, SP}
           n == Name(l.hdr)
<1>1. n \in Token /\ n \notin Chars /\ n.len \in 1 .. 14 /\ n.word = l.hdr
  <2>1. l.hdr \in DOMAIN NameLth BY ValuesAre
  <2>2. NameLth[l.hdr] \in 1 .. 14 BY <2>1 DEF NameLth
  <2>3. NameLth[l.hdr] \in Nat \ {0} BY <2>2
  <2>4. l.hdr \in Words \cup OwnWords BY <2>1 DEF OwnWords
  <2>5. QED BY <2>1, <2>3, <2>4, NamesAre, WordIs DEF Name
<1>2. stops \subseteq Chars /\ n \notin stops \cup {NUL} BY <1>1 DEF Chars
<1>3. Head(rest) = n BY LineLayout
<1>4. CR \in Chars /\ NUL \in Chars BY DEF Chars
<1>5. CASE l.vals = <<>>
  <2>1. rest = Before(n, Ended(l, u)) BY <1>5 DEF LineBefore
  <2>2. Ended(l, u) \in Text /\ Head(Ended(l, u)) = CR
    <3>1. Len(l.vals) # 2 BY <1>5, ValuesAre
    <3>2. l.tail = Closing(l) BY DEF RunsOn
    <3>3. Ended(l, u) = End(u) BY <3>1, <3>2, EndedIs
    <3>4. QED BY <3>3, EndIs
  <2>3. CR \notin stops \cup {NUL} BY CharsDiffer
  <2> HIDE DEF n, stops
  <2>4. \A x : Taken(rest, stops) # <<x>> BY <1>1, <1>2, <2>1, <2>2, <2>3, TakenMore
  <2>5. \A h \in Headers : ~Named(h) BY <2>4 DEF Named, stops
  <2>6. QED BY <1>1, <1>3, <1>4, <1>5, <2>5
<1>6. CASE l.vals # <<>>
  <2> DEFINE w == Colon(l, spaced, u)
  <2>1. rest = Before(n, w) BY <1>6 DEF LineBefore
  <2>2. w \in Text /\ Head(w) = COLON BY <1>6, ColonLayout
  <2>3. COLON \in stops OBVIOUS
  <2> HIDE DEF n, stops, w
  <2>4. Taken(rest, stops) = <<n>> /\ After(rest, stops) = w
    BY <1>1, <1>2, <2>1, <2>2, <2>3, TakenOne
  <2>5. Width(Taken(rest, stops)) < HNAME_LTH
    <3>1. Width(<<n>>) = n.len BY <1>1, WidthOne
    <3>2. QED BY <1>1, <2>4, <3>1 DEF HNAME_LTH
  <2>6. COLON # NUL BY CharsDiffer
  <2>7. ASSUME NEW h \in Headers PROVE Named(h) <=> l.hdr = h
    <3>1. Named(h) <=> <<n>> = <<Name(h)>> BY <2>2, <2>4, <2>5, <2>6 DEF Named, Fits, stops
    <3>2. Name(h).word = h BY NamesAre, HeadersAre
    <3>3. <<n>> = <<Name(h)>> <=> n = Name(h) OBVIOUS
    <3>4. QED BY <1>1, <3>1, <3>2, <3>3 DEF n
  <2>8. ReadHCOLON(w) = First(l, u)
    <3>1. First(l, u) \in Text BY <1>6, ValuesLayout
    <3>2. SP \in Chars \ {NUL} /\ COLON \in Chars \ {NUL} BY DelimitersAre
    <3>3. CASE spaced
      <4>1. w = Before(COLON, Before(SP, First(l, u))) BY <3>3 DEF Colon, w
      <4>2. Before(SP, First(l, u)) \in Text /\ Head(Before(SP, First(l, u))) = SP
        BY <3>1, BeforeIs, DelimitersAre
      <4>3. w[2] = SP BY <4>1, <4>2, BeforeIs, DelimitersAre
      <4>4. Skip(w, 2) = First(l, u) BY <3>1, <3>2, <4>1, SkipTwo
      <4>5. QED BY <4>3, <4>4 DEF ReadHCOLON
    <3>4. CASE ~spaced
      <4>1. w = Before(COLON, First(l, u)) BY <3>4 DEF Colon, w
      <4>2. w[2] = Head(First(l, u)) BY <3>1, <4>1, BeforeIs, DelimitersAre
      <4>3. w[2] # SP BY <1>6, <3>4, <4>2, FirstHead
      <4>4. Skip(w, 1) = First(l, u) BY <3>1, <3>2, <4>1, SkipOne
      <4>5. QED BY <4>3, <4>4 DEF ReadHCOLON
    <3>5. QED BY <3>3, <3>4
  <2>9. QED BY <1>1, <1>3, <1>4, <1>6, <2>4, <2>7, <2>8 DEF stops
<1>7. QED BY <1>5, <1>6

\* The first value is read up to what follows it.
LEMMA FirstRead ==
  ASSUME NEW l, IsLine(l), l.hdr \in Headers, l.vals # <<>>,
         NEW spaced, ~RunsOn(l, spaced), NEW u \in Text
  PROVE  LET f == Fields[l.hdr][1]
         IN  /\ Len(l.vals) = Len(Fields[l.hdr]) /\ f.kind # "host"
             /\ Taken(First(l, u), f.stops) = l.vals[1]
             /\ Head(After(First(l, u), f.stops)) # NUL
             /\ Skip(After(First(l, u), f.stops), f.skip)
                  = IF Len(Fields[l.hdr]) = 1 THEN u ELSE Second(l, u)
<1> DEFINE h == l.hdr
           f == Fields[h][1]
           v == l.vals[1]
<1>1. Len(l.vals) \in Nat \ {0} /\ Len(l.vals) <= Len(Fields[h]) BY ValuesAre DEF IsLine
<1>2. v \in Seq(Token) /\ \A stops \in SUBSET Chars : Free(v, stops)
  <2>1. 1 \in 1 .. Len(l.vals) BY <1>1
  <2>2. QED BY <2>1, ValuesAre, TextsAre
<1>3. CR \in Chars \ {NUL} /\ LF \in Chars \ {NUL} /\ NUL \in Chars
  BY DelimitersAre DEF Chars
<1> HIDE DEF f, v
<1>4. CASE h \notin DOMAIN Between
  <2>1. Len(Fields[h]) = 1 /\ f.stops = {CR} /\ f.skip = 2 /\ f.kind # "host"
    BY <1>4, ShortHeader DEF f
  <2>2. Len(l.vals) = 1
    <3> DEFINE n == Len(l.vals)
               m == Len(Fields[h])
    <3>1. n \in Nat \ {0} /\ n <= m /\ m = 1 BY <1>1, <2>1
    <3> HIDE DEF n, m
    <3>2. n = 1 BY <3>1
    <3>3. QED BY <3>2 DEF n
  <2>3. First(l, u) = v \o End(u)
    <3>1. l.tail = Closing(l) BY DEF RunsOn
    <3>2. Ended(l, u) = End(u)
      <4>1. h # "From" BY <1>4, HeadersAre
      <4>2. QED BY <3>1, <4>1, EndedIs
    <3>3. Len(l.vals) < 2
      <4>1. 1 < 2 OBVIOUS
      <4>2. QED BY <2>2, <4>1, Zenon
    <3>4. QED BY <3>2, <3>3 DEF First, v
  <2>4. End(u) \in Text /\ Head(End(u)) = CR BY EndIs
  <2>5. Free(v, {CR}) BY <1>2, <1>3
  <2>6. Taken(First(l, u), {CR}) = v /\ After(First(l, u), {CR}) = End(u)
    BY <1>2, <2>3, <2>4, <2>5, TakenIs
  <2>7. Skip(End(u), 2) = u BY <1>3, SkipTwo DEF End
  <2>8. QED BY <1>3, <2>1, <2>2, <2>4, <2>6, <2>7 DEF f, v
<1>5. CASE h \in DOMAIN Between
  <2>1. /\ Len(Fields[h]) = 2 /\ Sep(h) \in f.stops /\ f.stops \subseteq Chars /\ f.skip = 1
        /\ f.kind # "host"
    BY <1>5, LongHeader DEF f
  <2>2. Len(l.vals) = 2
    <3> DEFINE n == Len(l.vals)
               m == Len(Fields[h])
    <3>1. n \in Nat \ {0} /\ n <= m /\ m = 2 /\ n # 1 BY <1>1, <1>5, <2>1 DEF RunsOn
    <3> HIDE DEF n, m
    <3>2. n = 2 BY <3>1
    <3>3. QED BY <3>2 DEF n
  <2>3. ~(Len(l.vals) < 2) /\ Len(l.vals) >= 2 BY <2>2
  <2> DEFINE w == Before(Sep(h), Second(l, u))
  <2>4. First(l, u) = v \o w BY <2>3 DEF First, v
  <2>5. Second(l, u) \in Text BY <2>3, ValuesLayout
  <2>6. Sep(h) \in Chars \ {NUL} /\ Sep(h) \in Token BY <1>5, SepIs, DelimitersAre
  <2>7. w \in Text /\ Head(w) = Sep(h) BY <2>5, <2>6, BeforeIs
  <2>8. Free(v, f.stops) BY <1>2, <2>1
  <2>9. Skip(w, 1) = Second(l, u) BY <2>5, <2>6, SkipOne
  <2> HIDE DEF w
  <2>10. Taken(First(l, u), f.stops) = v /\ After(First(l, u), f.stops) = w
    BY <1>2, <2>1, <2>4, <2>7, <2>8, TakenIs
  <2>11. QED BY <2>1, <2>2, <2>6, <2>7, <2>9, <2>10 DEF f, v
<1>6. QED BY <1>4, <1>5

\* And so is the second.
LEMMA SecondRead ==
  ASSUME NEW l, IsLine(l), l.hdr \in DOMAIN Between, Len(l.vals) = 2,
         NEW spaced, ~RunsOn(l, spaced), NEW u \in Text
  PROVE  LET f == Fields[l.hdr][2]
         IN  /\ f.kind # "host"
             /\ Taken(Second(l, u), f.stops) = l.vals[2]
             /\ Head(After(Second(l, u), f.stops)) # NUL
             /\ Skip(After(Second(l, u), f.stops), f.skip) = u
<1> DEFINE h == l.hdr
           f == Fields[h][2]
           v == l.vals[2]
           w == Ended(l, u)
           c == IF h = "From" THEN GT ELSE CR
<1>1. v \in Seq(Token) /\ \A stops \in SUBSET Chars : Free(v, stops)
  <2>1. 2 \in 1 .. Len(l.vals) OBVIOUS
  <2>2. QED BY <2>1, ValuesAre, TextsAre
<1>2. CR \in Chars \ {NUL} /\ LF \in Chars \ {NUL} /\ GT \in Chars \ {NUL} /\ NUL \in Chars
  BY DelimitersAre DEF Chars
<1>3. /\ c \in f.stops /\ f.stops \subseteq Chars /\ f.skip = (IF h = "From" THEN 3 ELSE 2)
      /\ f.kind # "host"
  BY LongHeader
<1>4. w \in Text /\ w = IF h = "From" THEN Before(GT, End(u)) ELSE End(u)
  BY EndedIs DEF RunsOn
<1>5. Head(w) = c /\ Skip(w, f.skip) = u
  <2>1. End(u) \in Text /\ Head(End(u)) = CR BY EndIs
  <2>2. CASE h = "From"
    <3>1. w = Before(GT, Before(CR, Before(LF, u))) BY <1>4, <2>2 DEF End
    <3>2. Head(w) = GT BY <1>4, <2>1, <2>2, DelimitersAre, BeforeIs
    <3>3. Skip(w, 3) = u BY <1>2, <3>1, SkipThree
    <3>4. QED BY <1>3, <2>2, <3>2, <3>3
  <2>3. CASE h # "From"
    <3>1. w = Before(CR, Before(LF, u)) BY <1>4, <2>3 DEF End
    <3>2. Skip(w, 2) = u BY <1>2, <3>1, SkipTwo
    <3>3. QED BY <1>3, <1>4, <2>1, <2>3, <3>2
  <2>4. QED BY <2>2, <2>3
<1>6. c # NUL BY <1>2
<1>7. Second(l, u) = v \o w BY DEF Second
<1> HIDE DEF f, v, w, c
<1>8. Free(v, f.stops) BY <1>1, <1>3
<1>9. Taken(Second(l, u), f.stops) = v /\ After(Second(l, u), f.stops) = w
  BY <1>1, <1>3, <1>4, <1>5, <1>7, <1>8, TakenIs
<1>10. QED BY <1>3, <1>5, <1>6, <1>9 DEF f, v

-----------------------------------------------------------------------------
(***************************************************************************)
(* A request line without its URL leaves the decoder to look for an @, and *)
(* there is none in the lines.                                             *)
(***************************************************************************)
AtFree(s) == \A i \in 1 .. Len(s) : s[i] # AT

LEMMA BeforeAtFree ==
  ASSUME NEW t \in Token, t # AT, NEW u \in Text, AtFree(u)
  PROVE  AtFree(Before(t, u))
<1> DEFINE s == <<t>>
           b == Before(t, u)
<1>1. s \in Seq(Token) /\ Len(s) = 1 /\ s[1] = t OBVIOUS
<1>2. u \in Seq(Token) /\ Len(u) \in Nat BY DEF Text
<1>3. b = s \o u BY DEF Before
<1> HIDE DEF s, b
<1>4. Len(b) = Len(s) + Len(u)
      /\ \A i \in 1 .. Len(s) + Len(u) : b[i] = IF i <= Len(s) THEN s[i] ELSE u[i - Len(s)]
  BY <1>1, <1>2, <1>3, ConcatProperties
<1>5. ASSUME NEW i \in 1 .. Len(b) PROVE b[i] # AT
  <2>1. i \in 1 .. Len(s) + Len(u) BY <1>4
  <2>2. CASE i <= Len(s)
    <3>1. i = 1 BY <1>1, <1>2, <2>1, <2>2
    <3>2. QED BY <1>1, <1>4, <2>1, <2>2, <3>1
  <2>3. CASE ~(i <= Len(s))
    <3>1. i - Len(s) \in 1 .. Len(u) BY <1>1, <1>2, <2>1, <2>3
    <3>2. b[i] = u[i - Len(s)] BY <1>4, <2>1, <2>3
    <3>3. QED BY <3>1, <3>2 DEF AtFree
  <2>4. QED BY <2>2, <2>3
<1>6. QED BY <1>5 DEF AtFree, b

LEMMA DelimitersAtFree ==
  ASSUME NEW c \in {SP, CR, LF, COLON, LT, GT, NUL} PROVE c # AT /\ c \in Token
BY CharsDiffer, DelimitersAre

LEMMA EndAtFree ==
  ASSUME NEW u \in Text, AtFree(u) PROVE AtFree(End(u))
<1>1. AtFree(Before(LF, u)) BY DelimitersAtFree, BeforeAtFree
<1>2. QED BY <1>1, EndIs, DelimitersAtFree, BeforeAtFree DEF End

LEMMA TextAtFree ==
  ASSUME NEW s \in Texts, NEW u \in Text, AtFree(u)
  PROVE  AtFree(s \o u) /\ s \o u \in Text
<1> DEFINE b == s \o u
<1>1. s \in Seq(Token) /\ Len(s) \in Nat /\ \A i \in 1 .. Len(s) : s[i] \notin Chars
  BY TextsAre
<1>2. u \in Seq(Token) /\ Len(u) \in Nat BY DEF Text
<1>3. AT \in Chars BY DEF Chars
<1>4. b \in Text BY <1>1, JoinedText
<1>5. Len(b) = Len(s) + Len(u)
      /\ \A i \in 1 .. Len(s) + Len(u) : b[i] = IF i <= Len(s) THEN s[i] ELSE u[i - Len(s)]
  BY <1>1, <1>2, ConcatProperties
<1> HIDE DEF b
<1>6. ASSUME NEW i \in 1 .. Len(b) PROVE b[i] # AT
  <2>1. i \in 1 .. Len(s) + Len(u) BY <1>5
  <2>2. CASE i <= Len(s)
    <3>1. i \in 1 .. Len(s) BY <1>1, <1>2, <2>1, <2>2
    <3>2. b[i] = s[i] BY <1>5, <2>1, <2>2
    <3>3. QED BY <1>1, <1>3, <3>1, <3>2
  <2>3. CASE ~(i <= Len(s))
    <3>1. i - Len(s) \in 1 .. Len(u) BY <1>1, <1>2, <2>1, <2>3
    <3>2. b[i] = u[i - Len(s)] BY <1>5, <2>1, <2>3
    <3>3. QED BY <3>1, <3>2 DEF AtFree
  <2>4. QED BY <2>2, <2>3
<1>7. QED BY <1>4, <1>6 DEF AtFree, b

LEMMA LineAtFree ==
  ASSUME NEW l, IsLine(l), NEW spaced, ~RunsOn(l, spaced), NEW u \in Text, AtFree(u)
  PROVE  AtFree(LineBefore(l, spaced, u))
<1>1. AtFree(End(u)) /\ End(u) \in Text BY EndIs, EndAtFree
<1>2. AT \in Chars BY DEF Chars
<1>3. \A i \in 1 .. Len(l.vals) : l.vals[i] \in Texts BY ValuesAre
<1>4. Name(l.hdr) \in Token /\ Name(l.hdr) # AT
  <2>1. l.hdr \in DOMAIN NameLth BY ValuesAre
  <2>2. NameLth[l.hdr] \in 1 .. 14 BY <2>1 DEF NameLth
  <2>3. NameLth[l.hdr] \in Nat \ {0} BY <2>2
  <2>4. l.hdr \in Words \cup OwnWords BY <2>1 DEF OwnWords
  <2>5. QED BY <1>2, <2>3, <2>4, WordIs DEF Name
<1>5. AtFree(Ended(l, u)) /\ Ended(l, u) \in Text
  <2>1. AtFree(Before(GT, End(u))) BY <1>1, DelimitersAtFree, BeforeAtFree
  <2>2. l.tail = Closing(l) BY DEF RunsOn
  <2>3. QED BY <1>1, <2>1, <2>2, EndedIs
<1>6. ASSUME l.vals # <<>> PROVE AtFree(First(l, u)) /\ First(l, u) \in Text
  <2>1. Len(l.vals) \in Nat \ {0} /\ 1 \in 1 .. Len(l.vals) BY <1>6, ValuesAre
  <2>2. CASE Len(l.vals) < 2
    <3>1. First(l, u) = l.vals[1] \o Ended(l, u) BY <2>2 DEF First
    <3>2. QED BY <1>3, <1>5, <2>1, <3>1, TextAtFree
  <2>3. CASE ~(Len(l.vals) < 2)
    <3>1. Len(l.vals) >= 2 /\ 2 \in 1 .. Len(l.vals) BY <2>1, <2>3
    <3>2. AtFree(Second(l, u)) /\ Second(l, u) \in Text
      BY <1>3, <1>5, <3>1, TextAtFree DEF Second
    <3>3. Sep(l.hdr) \in {SP, COLON, LT} BY <3>1, SepIs DEF IsLine
    <3>4. Sep(l.hdr) \in Token /\ Sep(l.hdr) # AT BY <3>3, DelimitersAtFree
    <3>5. AtFree(Before(Sep(l.hdr), Second(l, u))) BY <3>2, <3>4, BeforeAtFree
    <3>6. Before(Sep(l.hdr), Second(l, u)) \in Text BY <3>2, <3>4, BeforeIs
    <3>7. First(l, u) = l.vals[1] \o Before(Sep(l.hdr), Second(l, u))
      BY <2>3 DEF First
    <3>8. QED BY <1>3, <2>1, <3>5, <3>6, <3>7, TextAtFree
  <2>4. QED BY <2>2, <2>3
<1>7. ASSUME l.vals # <<>> PROVE AtFree(Colon(l, spaced, u)) /\ Colon(l, spaced, u) \in Text
  <2>1. First(l, u) \in Text /\ AtFree(First(l, u)) BY <1>6, <1>7
  <2>2. Before(SP, First(l, u)) \in Text /\ AtFree(Before(SP, First(l, u)))
    BY <2>1, DelimitersAtFree, BeforeAtFree, BeforeIs
  <2>3. QED BY <1>7, <2>1, <2>2, DelimitersAtFree, BeforeAtFree, ColonLayout DEF Colon
<1>8. CASE l.vals = <<>> BY <1>4, <1>5, <1>8, BeforeAtFree DEF LineBefore
<1>9. CASE l.vals # <<>> BY <1>4, <1>7, <1>9, BeforeAtFree DEF LineBefore
<1>10. QED BY <1>8, <1>9

\* After every line the decoder is in step with the lines.
Clean(d) == \A i \in 1 .. Len(d.lines) : ~RunsOn(d.lines[i], d.spaced)

LEMMA CleanLine ==
  ASSUME NEW d \in Drafts, Clean(d), NEW k \in 1 .. Len(d.lines)
  PROVE  ~RunsOn(LineLeft(d, k), d.spaced)
BY LinesAre DEF Clean, LineLeft

LEMMA RequestAtFree ==
  ASSUME NEW d \in Drafts, Clean(d), ~d.url PROVE AtFree(Request(d))
<1> DEFINE n == Len(d.lines)
           L == Left(d)
           S == {k \in Nat : k \in 0 .. n => AtFree(L[k])}
<1>1. n \in Nat BY LinesAre
<1>2. AtFree(<<NUL>>)
  <2>1. Len(<<NUL>>) = 1 /\ <<NUL>>[1] = NUL OBVIOUS
  <2>2. \A i \in 1 .. 1 : i = 1 OBVIOUS
  <2>3. NUL # AT BY DelimitersAtFree
  <2>4. QED BY <2>1, <2>2, <2>3 DEF AtFree
<1>3. AtFree(Ending(d)) BY <1>2, EndOfText, EndAtFree DEF Ending
<1>4. 0 \in S BY <1>3, LeftIs
<1>5. ASSUME NEW k \in Nat, k \in S PROVE k + 1 \in S
  <2>1. SUFFICES ASSUME k + 1 \in 0 .. n PROVE AtFree(L[k + 1])
    <3> HIDE DEF L, n
    <3>1. QED OBVIOUS
  <2>2. k \in 0 .. n /\ k + 1 \in 1 .. n /\ (k + 1) - 1 = k BY <1>1, <2>1
  <2>3. AtFree(L[k]) /\ L[k] \in Text BY <1>5, <2>2, LeftIs
  <2>4. L[k + 1] = LineBefore(LineLeft(d, k + 1), d.spaced, L[k]) BY <2>2, LeftIs
  <2>5. IsLine(LineLeft(d, k + 1)) /\ ~RunsOn(LineLeft(d, k + 1), d.spaced)
    BY <2>2, LinesAre, CleanLine
  <2>6. QED BY <2>3, <2>4, <2>5, LineAtFree
<1> HIDE DEF S
<1>6. Nat \subseteq S BY <1>4, <1>5, NatSetInduction
<1>7. AtFree(L[n]) /\ L[n] \in Text
  <2>1. n \in 0 .. n BY <1>1
  <2>2. QED BY <1>1, <1>6, <2>1, LeftIs DEF S
<1>8. AtFree(End(L[n])) /\ End(L[n]) \in Text BY <1>7, EndAtFree, EndIs
<1>9. Word(d.method, 6) \in Token \ Chars BY RequestLayout
<1>10. Word(d.method, 6) # AT BY <1>9 DEF Chars
<1>11. Request(d) = Before(Word(d.method, 6), End(L[n])) BY RequestLayout
<1>12. QED BY <1>8, <1>9, <1>10, <1>11, BeforeAtFree

\* What is behind the cursor stays free of it.
LEMMA RestAtFree ==
  ASSUME NEW s \in Text, AtFree(s), NEW stops, NEW c \in Chars, c # NUL,
         Head(After(s, stops)) = c
  PROVE  AtFree(Skip(After(s, stops), 1))
<1> DEFINE i == Stop(s, stops)
           v == After(s, stops)
<1>1. s \in Seq(Token) /\ Len(s) \in Nat BY DEF Text
<1>2. i \in 1 .. Len(s) BY StopIs
<1>3. v = SubSeq(s, i, Len(s)) BY DEF After
<1>4. v \in Text BY CutType
<1>5. v \in Seq(Token) /\ v # <<>> BY <1>4 DEF Text
<1> HIDE DEF i, v
<1>6. Len(v) = (Len(s) - i) + 1 /\ \A k \in 1 .. Len(v) : v[k] = s[(i + k) - 1]
  BY <1>1, <1>2, <1>3
<1>7. \A k \in 1 .. Len(v) : (i + k) - 1 \in 1 .. Len(s) BY <1>1, <1>2, <1>6
<1>8. AtFree(v) BY <1>6, <1>7 DEF AtFree
<1>9. Skip(v, 1) = Tail(v)
  <2>1. Head(v).len = 1 BY CharsAreTokens DEF v
  <2>2. Head(v) # NUL BY DEF v
  <2>3. QED BY <2>1, <2>2 DEF Skip, Advance
<1>10. Len(Tail(v)) = Len(v) - 1 /\ \A k \in 1 .. Len(Tail(v)) : Tail(v)[k] = v[k + 1]
  BY <1>5, HeadTailProperties
<1>11. \A k \in 1 .. Len(Tail(v)) : k + 1 \in 1 .. Len(v) BY <1>5, <1>10
<1>12. AtFree(Tail(v)) BY <1>8, <1>10, <1>11 DEF AtFree
<1>13. QED BY <1>9, <1>12 DEF v

\* And the loop that looks for it finds the end.
LEMMA NoAtFound ==
  ASSUME NEW s \in Text, AtFree(s) PROVE Head(After(s, {AT})) = NUL
<1> DEFINE i == Stop(s, {AT})
           v == After(s, {AT})
<1>1. s \in Seq(Token) /\ Len(s) \in Nat BY DEF Text
<1>2. i \in 1 .. Len(s) /\ s[i] \in {AT} \cup {NUL} BY StopIs
<1>3. s[i] = NUL BY <1>2 DEF AtFree
<1>4. v = SubSeq(s, i, Len(s)) /\ v \in Text BY CutType DEF After
<1> HIDE DEF i, v
<1>5. Head(v) = s[i]
  <2>1. Len(s) \in i .. Len(s) BY <1>1, <1>2
  <2>2. QED BY <1>1, <1>2, <1>4, <2>1, HeadTailOfSubSeq
<1>6. QED BY <1>3, <1>5 DEF v

-----------------------------------------------------------------------------
(***************************************************************************)
(* Where the decoder is in a request, and what it has read.  The operators *)
(* have the state as arguments: d the request, p, h, f, r and g what pc,   *)
(* hdr, field, rest and got are.                                           *)
(***************************************************************************)
Once(d) ==
    \A i, j \in 1 .. Len(d.lines) : d.lines[i].hdr = d.lines[j].hdr => i = j

GoodUpTo(d, m) == \A j \in 1 .. m : Good(d.lines[j])

\* Of the first m lines the decoder has what the one with the header h says.
Read(d, g, m, h) ==
    /\ \A j \in 1 .. m : d.lines[j].hdr = h => g[h] = Meaning(d.lines[j])
    /\ (\A j \in 1 .. m : d.lines[j].hdr # h) => g[h] = <<>>

Understood(d, g, m) == Once(d) => \A h \in Headers : Read(d, g, m, h)

\* The same in the middle of a line, of which the first value is read.
HalfUnderstood(d, g, m, l) ==
    Once(d) =>
        /\ g[l.hdr] = <<Value(Fields[l.hdr][1].kind, <<>>, l.vals[1])>>
        /\ \A h \in Headers \ {l.hdr} : Read(d, g, m, h)

InRequestLine(d, f, r) ==
    \/ f = 1 /\ r = Request(d)
    \/ f = 2 /\ d.url /\ r = User(Left(d)[Len(d.lines)])
    \/ f = 2 /\ ~d.url /\ AtFree(r)
    \/ f = 3 /\ d.url /\ r = Host(Left(d)[Len(d.lines)])

AtLine(d, r, g, k) ==
    /\ r = Left(d)[k]
    /\ GoodUpTo(d, Len(d.lines) - k) /\ Understood(d, g, Len(d.lines) - k)

InLine(d, h, f, r, g, k) ==
    LET l == LineLeft(d, k)
        m == Len(d.lines) - k
    IN  /\ h = l.hdr /\ h \in Headers /\ l.vals # <<>> /\ GoodUpTo(d, m)
        /\ \/ f = 1 /\ r = First(l, Left(d)[k - 1]) /\ Understood(d, g, m)
           \/ /\ f = 2 /\ r = Second(l, Left(d)[k - 1]) /\ HalfUnderstood(d, g, m, l)
              /\ h \in DOMAIN Between /\ Len(l.vals) = 2 /\ Width(l.vals[1]) < Fields[h][1].limit

Place(d, p, h, f, r, g) ==
    \/ p = "start" /\ r = Request(d) /\ Understood(d, g, 0)
    \/ p = "field" /\ h = "RequestLine" /\ InRequestLine(d, f, r) /\ Understood(d, g, 0)
    \/ p = "name" /\ d.url /\ \E k \in 0 .. Len(d.lines) : AtLine(d, r, g, k)
    \/ p = "field" /\ d.url /\ \E k \in 1 .. Len(d.lines) : InLine(d, h, f, r, g, k)
    \/ p = "done" /\ d.url /\ GoodUpTo(d, Len(d.lines)) /\ Understood(d, g, Len(d.lines))
    \/ p = "failed" /\ ~(d.url /\ GoodUpTo(d, Len(d.lines)))

Follows == AtServer /\ Clean(draft) => Place(draft, pc, hdr, field, rest, got)

\* One more line is good, and understood.
LEMMA OneMoreLine ==
  ASSUME NEW d \in Drafts, NEW k \in 1 .. Len(d.lines),
         GoodUpTo(d, Len(d.lines) - k), Good(LineLeft(d, k)), NEW g,
         Once(d) => /\ g[LineLeft(d, k).hdr] = Meaning(LineLeft(d, k))
                    /\ \A h \in Headers \ {LineLeft(d, k).hdr} :
                          Read(d, g, Len(d.lines) - k, h)
  PROVE  AtLine(d, Left(d)[k - 1], g, k - 1)
<1> DEFINE n == Len(d.lines)
           m == n - k
           l == LineLeft(d, k)
<1>1. n \in Nat /\ m \in Nat /\ n - (k - 1) = m + 1 /\ m + 1 \in 1 .. n BY LinesAre
<1>2. l = d.lines[m + 1] BY DEF LineLeft
<1> HIDE DEF m, l
<1>3. \A j \in 1 .. m + 1 : j \in 1 .. m \/ j = m + 1 BY <1>1
<1>4. GoodUpTo(d, m + 1) BY <1>2, <1>3 DEF GoodUpTo, m, l
<1>5. ASSUME Once(d), NEW h \in Headers PROVE Read(d, g, m + 1, h)
  <2>1. \A j \in 1 .. m + 1 : j \in 1 .. n BY <1>1
  <2>2. \A j \in 1 .. m : j \in 1 .. m + 1 /\ j # m + 1 BY <1>1
  <2>3. m + 1 \in 1 .. m + 1 BY <1>1
  <2>4. CASE h = l.hdr
    <3>1. \A j \in 1 .. m + 1 : d.lines[j].hdr = h => j = m + 1
      BY <1>1, <1>2, <1>5, <2>1, <2>4 DEF Once
    <3>2. g[h] = Meaning(l) BY <1>5, <2>4 DEF l
    <3>3. QED BY <1>2, <2>3, <2>4, <3>1, <3>2 DEF Read
  <2>5. CASE h # l.hdr
    <3>1. Read(d, g, m, h) BY <1>5, <2>5 DEF l, m
    <3>2. QED BY <1>2, <1>3, <2>2, <2>5, <3>1 DEF Read
  <2>6. QED BY <2>4, <2>5
<1>6. Understood(d, g, m + 1) BY <1>5 DEF Understood
<1>7. QED BY <1>1, <1>4, <1>6 DEF AtLine

\* No line in front of one with the same header has been read.
LEMMA NotReadYet ==
  ASSUME NEW d \in Drafts, NEW k \in 1 .. Len(d.lines), Once(d), NEW g,
         LineLeft(d, k).hdr \in Headers, Understood(d, g, Len(d.lines) - k)
  PROVE  g[LineLeft(d, k).hdr] = <<>>
<1> DEFINE n == Len(d.lines)
           m == n - k
           h == LineLeft(d, k).hdr
<1>1. n \in Nat /\ m \in Nat /\ m + 1 \in 1 .. n BY LinesAre
<1>2. h = d.lines[m + 1].hdr BY DEF LineLeft
<1>3. \A j \in 1 .. m : j \in 1 .. n /\ j # m + 1 BY <1>1
<1>4. \A j \in 1 .. m : d.lines[j].hdr # h BY <1>1, <1>2, <1>3 DEF Once
<1>5. Read(d, g, m, h) BY DEF Understood
<1>6. QED BY <1>4, <1>5 DEF Read

LEMMA MeaningIs ==
  ASSUME NEW l, l.vals \in Seq(Texts)
  PROVE  /\ Len(l.vals) = 1 =>
              Meaning(l) = <<Value(Fields[l.hdr][1].kind, <<>>, l.vals[1])>>
         /\ Len(l.vals) = 2 =>
              Meaning(l) = <<Value(Fields[l.hdr][1].kind, <<>>, l.vals[1]),
                             Value(Fields[l.hdr][2].kind, <<>>, l.vals[2])>>
<1> DEFINE V(i) == Value(Fields[l.hdr][i].kind, <<>>, l.vals[i])
<1>1. DOMAIN l.vals = 1 .. Len(l.vals) OBVIOUS
<1>2. Meaning(l) = [i \in 1 .. Len(l.vals) |-> V(i)] BY <1>1 DEF Meaning
<1> HIDE DEF V
<1>3. CASE Len(l.vals) = 1
  <2>1. [i \in 1 .. 1 |-> V(i)] = <<V(1)>> OBVIOUS
  <2>2. QED BY <1>2, <1>3, <2>1 DEF V
<1>4. CASE Len(l.vals) = 2
  <2>1. [i \in 1 .. 2 |-> V(i)] = <<V(1), V(2)>> OBVIOUS
  <2>2. QED BY <1>2, <1>4, <2>1 DEF V
<1>5. QED BY <1>3, <1>4

LEMMA AppendToOne ==
  ASSUME NEW x, NEW y PROVE Append(<<x>>, y) = <<x, y>>
<1>1. x \in {x, y} /\ y \in {x, y} /\ <<x>> \in Seq({x, y}) OBVIOUS
<1>2. <<x, y>> = <<x>> \o <<y>> BY <1>1, PairOf
<1>3. Append(<<x>>, y) = <<x>> \o <<y>> BY <1>1, AppendIsConcat
<1>4. QED BY <1>2, <1>3

\* How a field is stored.
LEMMA StoredIs ==
  ASSUME Inv, ReadField
  PROVE  LET f == Fields[hdr][field]
             old == IF field <= Len(got[hdr]) THEN got[hdr][field] ELSE <<>>
             value == Value(f.kind, old, Taken(rest, f.stops))
         IN  /\ \A h \in DOMAIN Fields : h # hdr => got'[h] = got[h]
             /\ \A h \in Headers : h # hdr => got'[h] = got[h]
             /\ got[hdr] = <<>> /\ field = 1 => got'[hdr] = <<value>> /\ old = <<>>
             /\ \A x : got[hdr] = <<x>> /\ field = 2 => got'[hdr] = <<x, value>> /\ old = <<>>
<1> DEFINE f == Fields[hdr][field]
           old == IF field <= Len(got[hdr]) THEN got[hdr][field] ELSE <<>>
           value == Value(f.kind, old, Taken(rest, f.stops))
<1>1. got' = [got EXCEPT ![hdr] = IF field <= Len(@) THEN [@ EXCEPT ![field] = value]
                                                    ELSE Append(@, value)]
  BY DEF ReadField, Store, FieldOr
<1>2. DOMAIN got = DOMAIN Fields /\ hdr \in DOMAIN Fields
  BY DEF Inv, ReadFields, Cursor
<1> HIDE DEF value
<1>3. \A h \in DOMAIN Fields : h # hdr => got'[h] = got[h] BY <1>1, <1>2
<1>4. got'[hdr] = IF field <= Len(got[hdr]) THEN [got[hdr] EXCEPT ![field] = value]
                                            ELSE Append(got[hdr], value)
  BY <1>1, <1>2
<1>5. ASSUME got[hdr] = <<>>, field = 1 PROVE got'[hdr] = <<value>> /\ old = <<>>
  <2>1. ~(field <= Len(got[hdr])) BY <1>5
  <2>2. Append(<<>>, value) = <<value>> OBVIOUS
  <2>3. QED BY <1>4, <1>5, <2>1, <2>2
<1>6. ASSUME NEW x, got[hdr] = <<x>>, field = 2
      PROVE  got'[hdr] = <<x, value>> /\ old = <<>>
  <2>1. ~(field <= Len(got[hdr])) BY <1>6
  <2>2. Append(<<x>>, value) = <<x, value>> BY AppendToOne
  <2>3. QED BY <1>4, <1>6, <2>1, <2>2
<1>7. QED BY <1>3, <1>5, <1>6, HeadersAre DEF value

-----------------------------------------------------------------------------
(***************************************************************************)
(* One step of the decoder.                                                *)
(***************************************************************************)
Placed == Place(draft, pc, hdr, field, rest, got)

PlacedNext == Place(draft, pc', hdr', field', rest', got')

LEMMA SameUnderstanding ==
  ASSUME NEW d, NEW m, NEW g, NEW g2, \A h \in Headers : g2[h] = g[h], Understood(d, g, m)
  PROVE  Understood(d, g2, m)
BY DEF Understood, Read

LEMMA BadLine ==
  ASSUME NEW d \in Drafts, NEW k \in 1 .. Len(d.lines), ~Good(LineLeft(d, k))
  PROVE  ~GoodUpTo(d, Len(d.lines))
BY LinesAre DEF LineLeft, GoodUpTo

LEMMA StartPlaced == Inv /\ Placed /\ DecodeStartLine => PlacedNext
<1> SUFFICES ASSUME Inv, Placed, DecodeStartLine PROVE PlacedNext
  OBVIOUS
<1>1. rest = Request(draft) /\ Understood(draft, got, 0) BY DEF Placed, Place, DecodeStartLine
<1>2. Head(rest) = Word(draft.method, 6)
  <2> DEFINE L == Left(draft)[Len(draft.lines)]
             u == IF draft.url THEN Before(SP, User(L)) ELSE End(L)
  <2>1. draft \in Drafts BY DEF Inv
  <2>2. rest = Before(Word(draft.method, 6), u) /\ L \in Text /\ Word(draft.method, 6) \in Token
    BY <1>1, <2>1, RequestLayout
  <2>3. u \in Text BY <2>2, EndIs, RequestLineIs, BeforeIs, DelimitersAre
  <2>4. QED BY <2>2, <2>3, BeforeIs
<1>3. "num" \notin DOMAIN Word(draft.method, 6) BY DEF Word
<1>4. ~IsStatusLine BY <1>2, <1>3 DEF IsStatusLine
<1>5. /\ hdr' = "RequestLine" /\ pc' = "field" /\ field' = 1
      /\ rest' = rest /\ got' = got
  BY <1>4 DEF DecodeStartLine
<1>6. InRequestLine(draft, field', rest') BY <1>1, <1>5 DEF InRequestLine
<1>7. Understood(draft, got', 0) BY <1>1, <1>5
<1>8. QED BY <1>5, <1>6, <1>7 DEF PlacedNext, Place

\* Where the decoder is when it looks for a header.
LEMMA AtName ==
  ASSUME Inv, Placed, pc = "name"
  PROVE  /\ draft \in Drafts /\ draft.url
         /\ \E k \in 0 .. Len(draft.lines) : AtLine(draft, rest, got, k)
BY DEF Inv, Placed, Place

LEMMA LineAhead ==
  ASSUME Inv, Clean(draft), NEW k \in 1 .. Len(draft.lines), AtLine(draft, rest, got, k)
  PROVE  LET l == LineLeft(draft, k)
         IN  /\ IsLine(l) /\ Left(draft)[k - 1] \in Text
             /\ Head(rest) \notin {CR, NUL}
             /\ \A h \in Headers : Named(h) <=> l.vals # <<>> /\ l.hdr = h
             /\ l.vals # <<>> =>
                  ReadHCOLON(After(rest, {COLON, SP})) = First(l, Left(draft)[k - 1])
<1>1. draft \in Drafts BY DEF Inv
<1>2. Len(draft.lines) \in Nat /\ IsLine(LineLeft(draft, k)) BY <1>1, LinesAre
<1>3. k - 1 \in 0 .. Len(draft.lines) BY <1>2
<1>4. Left(draft)[k - 1] \in Text BY <1>1, <1>3, LeftIs
<1>5. rest = LineBefore(LineLeft(draft, k), draft.spaced, Left(draft)[k - 1])
  BY <1>1, LeftIs DEF AtLine
<1>6. ~RunsOn(LineLeft(draft, k), draft.spaced) BY <1>1, CleanLine
<1>7. QED BY <1>2, <1>4, <1>5, <1>6, NameRead

LEMMA NoLineAhead ==
  ASSUME Inv, AtLine(draft, rest, got, 0) PROVE Head(rest) \in {CR, NUL}
BY LeftIs, EndingIs DEF AtLine, Inv

LEMMA NamePlaced ==
  ASSUME Inv, Placed, Clean(draft), NEW h \in Headers, HeaderName(h) PROVE PlacedNext
<1>1. PICK k \in 0 .. Len(draft.lines) : AtLine(draft, rest, got, k)
  BY AtName DEF HeaderName, HeaderLeft
<1>2. draft \in Drafts /\ draft.url BY AtName DEF HeaderName, HeaderLeft
<1>3. Len(draft.lines) \in Nat BY <1>2, LinesAre
<1>4. k # 0 BY <1>1, NoLineAhead DEF HeaderName, HeaderLeft
<1>5. k \in 1 .. Len(draft.lines) BY <1>3, <1>4
<1> DEFINE l == LineLeft(draft, k)
<1>6. l.hdr = h /\ l.vals # <<>> /\ rest' = First(l, Left(draft)[k - 1])
  BY <1>1, <1>5, LineAhead DEF HeaderName
<1>7. pc' = "field" /\ hdr' = h /\ field' = 1 /\ got' = got BY DEF HeaderName
<1>8. GoodUpTo(draft, Len(draft.lines) - k) /\ Understood(draft, got, Len(draft.lines) - k)
  BY <1>1 DEF AtLine
<1>9. InLine(draft, hdr', field', rest', got', k) BY <1>6, <1>7, <1>8 DEF InLine
<1>10. QED BY <1>2, <1>5, <1>7, <1>9 DEF PlacedNext, Place

LEMMA BadHeaderPlaced ==
  ASSUME Inv, Placed, Clean(draft), BadHeader PROVE PlacedNext
<1>1. PICK k \in 0 .. Len(draft.lines) : AtLine(draft, rest, got, k)
  BY AtName DEF BadHeader, HeaderLeft
<1>2. draft \in Drafts BY DEF Inv
<1>3. Len(draft.lines) \in Nat BY <1>2, LinesAre
<1>4. k # 0 BY <1>1, NoLineAhead DEF BadHeader, HeaderLeft
<1>5. k \in 1 .. Len(draft.lines) BY <1>3, <1>4
<1> DEFINE l == LineLeft(draft, k)
<1>6. l.hdr \in Headers => l.vals = <<>> BY <1>1, <1>5, LineAhead DEF BadHeader
<1>7. ASSUME l.hdr \in Headers PROVE Len(l.vals) # Len(Fields[l.hdr])
  <2>1. Len(l.vals) = 0 BY <1>6, <1>7
  <2>2. l.hdr \in DOMAIN Fields BY <1>7, HeadersAre
  <2>3. Len(Fields[l.hdr]) \in 1 .. 3 BY <2>2, FieldsAre
  <2>4. 0 \notin 1 .. 3 OBVIOUS
  <2>5. QED BY <2>1, <2>3, <2>4, Zenon
<1>8. ~Good(l) BY <1>7 DEF Good
<1>9. ~GoodUpTo(draft, Len(draft.lines)) BY <1>2, <1>5, <1>8, BadLine
<1>10. pc' = "failed" BY DEF BadHeader, Refuse
<1>11. QED BY <1>9, <1>10 DEF PlacedNext, Place

LEMMA EndPlaced ==
  ASSUME Inv, Placed, Clean(draft), EndOfHeaders PROVE PlacedNext
<1>1. PICK k \in 0 .. Len(draft.lines) : AtLine(draft, rest, got, k)
  BY AtName DEF EndOfHeaders
<1>2. draft \in Drafts /\ draft.url BY AtName DEF EndOfHeaders
<1>3. Len(draft.lines) \in Nat BY <1>2, LinesAre
<1>4. k = 0
  <2>1. ~(k \in 1 .. Len(draft.lines)) BY <1>1, LineAhead DEF EndOfHeaders
  <2>2. QED BY <1>3, <2>1
<1>5. Len(draft.lines) - k = Len(draft.lines) BY <1>3, <1>4
<1>6. GoodUpTo(draft, Len(draft.lines)) /\ Understood(draft, got, Len(draft.lines))
  BY <1>1, <1>5 DEF AtLine
<1>7. pc' = "done" /\ got' = got BY DEF EndOfHeaders
<1>8. QED BY <1>2, <1>6, <1>7 DEF PlacedNext, Place

LEMMA FieldRead ==
  ASSUME Inv, ReadField
  PROVE  LET f == Fields[hdr][field]
         IN  /\ pc = "field" /\ FieldFits /\ hdr' = hdr
             /\ rest' = Skip(After(rest, f.stops), f.skip)
             /\ field = Len(Fields[hdr]) => pc' = "name" /\ field' = field
             /\ field # Len(Fields[hdr]) => pc' = "field" /\ field' = field + 1
BY DEF ReadField

\* In the request line.
LEMMA InsideRequestLine ==
  ASSUME Inv, Placed, pc = "field", hdr = "RequestLine"
  PROVE  /\ draft \in Drafts /\ rest \in Text
         /\ InRequestLine(draft, field, rest) /\ Understood(draft, got, 0)
         /\ LET u == Left(draft)[Len(draft.lines)]
                m == Word(draft.method, 6)
            IN  /\ u \in Text /\ m \in Token \ Chars /\ m.len = 6
                /\ draft.url => Request(draft) = Before(m, Before(SP, User(u)))
<1>1. draft \in Drafts /\ rest \in Text BY DEF Inv, Cursor
<1>2. "RequestLine" \notin Headers BY DEF Headers
<1>3. InRequestLine(draft, field, rest) /\ Understood(draft, got, 0)
  BY <1>2 DEF Placed, Place, InLine
<1>4. Word(draft.method, 6).len = 6 BY DEF Word
<1>5. QED BY <1>1, <1>3, <1>4, RequestLayout

LEMMA RequestLinePlaced ==
  ASSUME Inv, Placed, Clean(draft), ReadField, hdr = "RequestLine" PROVE PlacedNext
<1> DEFINE u == Left(draft)[Len(draft.lines)]
           m == Word(draft.method, 6)
           f == Fields["RequestLine"][field]
<1>1. pc = "field" /\ FieldFits /\ hdr' = hdr /\ rest' = Skip(After(rest, f.stops), f.skip)
  BY FieldRead
<1>2. /\ field = 3 => pc' = "name" /\ field' = field
      /\ field # 3 => pc' = "field" /\ field' = field + 1
  BY FieldRead, RequestLineFields
<1>3. /\ draft \in Drafts /\ rest \in Text
      /\ InRequestLine(draft, field, rest) /\ Understood(draft, got, 0)
      /\ u \in Text /\ m \in Token \ Chars
      /\ draft.url => Request(draft) = Before(m, Before(SP, User(u)))
  BY <1>1, InsideRequestLine
<1>4. \A h \in Headers : got'[h] = got[h]
  <2>1. "RequestLine" \notin Headers BY DEF Headers
  <2>2. QED BY <2>1, StoredIs
<1>5. Understood(draft, got', 0) BY <1>3, <1>4, SameUnderstanding
<1> HIDE DEF m
<1>6. SP \in Chars \ {NUL} /\ AT \in Chars \ {NUL} /\ CR \in Chars \ {NUL} /\ LF \in Chars \ {NUL}
      /\ NUL \in Chars
  BY DelimitersAre DEF Chars
<1>7. CASE field = 1
  <2>1. f.stops = {SP} /\ f.skip = 1 /\ f.kind = "chars" /\ f.limit = METHOD_LTH
    BY <1>7, RequestLineFields, FieldIs
  <2>2. rest = Request(draft) BY <1>3, <1>7 DEF InRequestLine
  <2>3. pc' = "field" /\ field' = 2 BY <1>2, <1>7
  <2>4. CASE draft.url
    <3> DEFINE v == Before(SP, User(u))
    <3>1. User(u) \in Text BY <1>3, RequestLineIs
    <3>2. v \in Text /\ Head(v) = SP BY <1>6, <3>1, BeforeIs, CharsAreTokens
    <3>3. m \notin {SP} \cup {NUL} BY <1>3, <1>6
    <3>4. After(Before(m, v), {SP}) = v BY <1>3, <3>2, <3>3, TakenOne
    <3>5. Skip(v, 1) = User(u) BY <1>6, <3>1, SkipOne
    <3>6. rest' = User(u) BY <1>1, <1>3, <2>1, <2>2, <2>4, <3>4, <3>5
    <3>7. InRequestLine(draft, field', rest') BY <2>3, <2>4, <3>6 DEF InRequestLine
    <3>8. QED BY <1>1, <1>5, <2>3, <3>7 DEF PlacedNext, Place
  <2>5. CASE ~draft.url
    <3>1. AtFree(rest) BY <1>3, <2>2, <2>5, RequestAtFree
    <3>2. Head(After(rest, {SP})) \in {SP} \cup {NUL} BY <1>3, CutType
    <3>3. Fits(rest, {SP}, METHOD_LTH) BY <1>1, <2>1 DEF FieldFits
    <3>4. Head(After(rest, {SP})) = SP BY <3>2, <3>3 DEF Fits
    <3>5. AtFree(Skip(After(rest, {SP}), 1)) BY <1>3, <1>6, <3>1, <3>4, RestAtFree
    <3>6. AtFree(rest') BY <1>1, <2>1, <3>5
    <3>7. InRequestLine(draft, field', rest') BY <2>3, <2>5, <3>6 DEF InRequestLine
    <3>8. QED BY <1>1, <1>5, <2>3, <3>7 DEF PlacedNext, Place
  <2>6. QED BY <2>4, <2>5
<1>8. CASE field = 2
  <2>1. f.stops = {AT} /\ f.skip = 1 /\ f.kind = "chars" /\ f.limit = USER_LTH
    BY <1>8, RequestLineFields, FieldIs
  <2>2. pc' = "field" /\ field' = 3 BY <1>2, <1>8
  <2>3. CASE draft.url
    <3> DEFINE v == Before(AT, Host(u))
               w == Word("user", 6)
    <3>1. rest = User(u) BY <1>3, <1>8, <2>3 DEF InRequestLine
    <3>2. Host(u) \in Text /\ w \in Token \ Chars BY <1>3, RequestLineIs
    <3>3. v \in Text /\ Head(v) = AT BY <1>6, <3>2, BeforeIs, CharsAreTokens
    <3>4. w \notin {AT} \cup {NUL} BY <3>2, <1>6
    <3>5. rest = Before(w, v) BY <3>1 DEF User
    <3> HIDE DEF w
    <3>6. After(Before(w, v), {AT}) = v BY <3>2, <3>3, <3>4, TakenOne, ZenonT(60)
    <3>7. Skip(v, 1) = Host(u) BY <1>6, <3>2, SkipOne
    <3>8. rest' = Host(u) BY <1>1, <2>1, <3>5, <3>6, <3>7
    <3>9. InRequestLine(draft, field', rest') BY <2>2, <2>3, <3>8 DEF InRequestLine
    <3>10. QED BY <1>1, <1>5, <2>2, <3>9 DEF PlacedNext, Place
  <2>4. CASE ~draft.url
    <3>1. AtFree(rest) BY <1>3, <1>8, <2>4 DEF InRequestLine
    <3>2. Head(After(rest, {AT})) = NUL BY <1>3, <3>1, NoAtFound
    <3>3. Fits(rest, {AT}, USER_LTH) BY <1>1, <2>1 DEF FieldFits
    <3>4. QED BY <3>2, <3>3 DEF Fits
  <2>5. QED BY <2>3, <2>4
<1>9. CASE field = 3
  <2>1. f.stops = {CR} /\ f.skip = 2 /\ f.kind = "host" BY <1>9, RequestLineFields, FieldIs
  <2>2. pc' = "name" BY <1>2, <1>9
  <2>3. draft.url /\ rest = Host(u) BY <1>3, <1>9 DEF InRequestLine
  <2> DEFINE v == End(u)
             w == Word("host", 12)
  <2>4. v \in Text /\ Head(v) = CR BY <1>3, EndIs
  <2>5. w \in Token \ Chars BY <1>3, RequestLineIs
  <2>6. w \notin {CR} \cup {NUL} BY <2>5, <1>6
  <2>7. rest = Before(w, v) BY <2>3 DEF Host
  <2> HIDE DEF w, v
  <2>8. After(Before(w, v), {CR}) = v BY <2>4, <2>5, <2>6, TakenOne
  <2>9. Skip(v, 2) = u BY <1>3, <1>6, SkipTwo DEF v, End
  <2>10. rest' = u BY <1>1, <2>1, <2>7, <2>8, <2>9
  <2>11. Len(draft.lines) \in Nat BY <1>3, LinesAre
  <2>12. Len(draft.lines) - Len(draft.lines) = 0 /\ Len(draft.lines) \in 0 .. Len(draft.lines)
    BY <2>11
  <2>13. GoodUpTo(draft, 0) BY DEF GoodUpTo
  <2>14. AtLine(draft, rest', got', Len(draft.lines)) BY <1>5, <2>10, <2>12, <2>13 DEF AtLine
  <2>15. QED BY <2>2, <2>3, <2>12, <2>14 DEF PlacedNext, Place
<1>10. QED BY <1>3, <1>7, <1>8, <1>9 DEF InRequestLine

\* In a line.
LEMMA InsideLine ==
  ASSUME Inv, Placed, Clean(draft), pc = "field", hdr # "RequestLine"
  PROVE  /\ draft \in Drafts /\ draft.url /\ hdr \in Headers
         /\ \E k \in 1 .. Len(draft.lines) :
              LET l == LineLeft(draft, k)
              IN  /\ InLine(draft, hdr, field, rest, got, k)
                  /\ IsLine(l) /\ ~RunsOn(l, draft.spaced) /\ l.hdr = hdr /\ l.vals # <<>>
                  /\ Left(draft)[k - 1] \in Text
<1>1. draft \in Drafts BY DEF Inv
<1>2. PICK k \in 1 .. Len(draft.lines) : InLine(draft, hdr, field, rest, got, k)
  BY DEF Placed, Place
<1>3. draft.url BY DEF Placed, Place
<1> DEFINE l == LineLeft(draft, k)
<1>4. Len(draft.lines) \in Nat /\ IsLine(l) /\ (Len(draft.lines) - k) + 1 \in 1 .. Len(draft.lines)
  BY <1>1, LinesAre
<1>5. ~RunsOn(l, draft.spaced) BY <1>1, CleanLine
<1>6. l.hdr = hdr /\ l.vals # <<>> /\ hdr \in Headers BY <1>2 DEF InLine
<1>7. k - 1 \in 0 .. Len(draft.lines) BY <1>4
<1>8. Left(draft)[k - 1] \in Text BY <1>1, <1>7, LeftIs
<1>9. QED BY <1>1, <1>2, <1>3, <1>4, <1>5, <1>6, <1>8

\* What fits is what the values are narrow enough for.
LEMMA FitsIs ==
  ASSUME NEW f, f.kind # "host", NEW v, Taken(rest, f.stops) = v,
         Head(After(rest, f.stops)) # NUL
  PROVE  (IF f.kind = "host" THEN Width(Taken(rest, f.stops)) < f.limit
                             ELSE Fits(rest, f.stops, f.limit)) <=> Width(v) < f.limit
BY DEF Fits

LEMMA FirstFits ==
  ASSUME NEW l, IsLine(l), l.hdr = hdr, hdr \in Headers, l.vals # <<>>,
         NEW spaced, ~RunsOn(l, spaced), field = 1, NEW u \in Text, rest = First(l, u)
  PROVE  FieldFits <=> Width(l.vals[1]) < Fields[hdr][1].limit
<1> DEFINE f == Fields[hdr][1]
<1>1. /\ f.kind # "host" /\ Taken(rest, f.stops) = l.vals[1]
      /\ Head(After(rest, f.stops)) # NUL
  BY FirstRead
<1>2. FieldFits <=> IF f.kind = "host" THEN Width(Taken(rest, f.stops)) < f.limit
                                       ELSE Fits(rest, f.stops, f.limit)
  BY DEF FieldFits
<1> HIDE DEF f
<1>3. QED BY <1>1, <1>2, FitsIs DEF f

LEMMA SecondFits ==
  ASSUME NEW l, IsLine(l), l.hdr = hdr, hdr \in DOMAIN Between, Len(l.vals) = 2,
         NEW spaced, ~RunsOn(l, spaced), field = 2, NEW u \in Text, rest = Second(l, u)
  PROVE  FieldFits <=> Width(l.vals[2]) < Fields[hdr][2].limit
<1> DEFINE f == Fields[hdr][2]
<1>1. /\ f.kind # "host" /\ Taken(rest, f.stops) = l.vals[2]
      /\ Head(After(rest, f.stops)) # NUL
  BY SecondRead
<1>2. FieldFits <=> IF f.kind = "host" THEN Width(Taken(rest, f.stops)) < f.limit
                                       ELSE Fits(rest, f.stops, f.limit)
  BY DEF FieldFits
<1> HIDE DEF f
<1>3. QED BY <1>1, <1>2, FitsIs DEF f

\* A field too wide for its buffer is in a line that is not good.
LEMMA BadFieldPlaced ==
  ASSUME Inv, Placed, Clean(draft), BadField PROVE PlacedNext
<1>1. pc = "field" /\ ~FieldFits /\ pc' = "failed" BY DEF BadField
<1>2. SUFFICES ASSUME draft.url, GoodUpTo(draft, Len(draft.lines)) PROVE FALSE
  BY <1>1 DEF PlacedNext, Place
<1>3. CASE hdr = "RequestLine"
  <2> DEFINE u == Left(draft)[Len(draft.lines)]
             m == Word(draft.method, 6)
             f == Fields["RequestLine"][field]
  <2>1. /\ rest \in Text /\ InRequestLine(draft, field, rest)
        /\ u \in Text /\ m \in Token \ Chars /\ m.len = 6
        /\ Request(draft) = Before(m, Before(SP, User(u)))
    BY <1>1, <1>2, <1>3, InsideRequestLine
  <2>2. SP \in Chars \ {NUL} /\ AT \in Chars \ {NUL} /\ CR \in Chars \ {NUL} /\ NUL \in Chars
    BY DelimitersAre DEF Chars
  <2>3. User(u) \in Text /\ Host(u) \in Text /\ End(u) \in Text /\ Head(End(u)) = CR
    BY <2>1, RequestLineIs, EndIs
  <2> HIDE DEF m
  <2>4. CASE field = 1
    <3>1. f.stops = {SP} /\ f.kind = "chars" /\ f.limit = METHOD_LTH
      BY <2>4, RequestLineFields, FieldIs
    <3>2. rest = Before(m, Before(SP, User(u))) BY <2>1, <2>4 DEF InRequestLine
    <3>3. Before(SP, User(u)) \in Text /\ Head(Before(SP, User(u))) = SP
      BY <2>2, <2>3, BeforeIs, CharsAreTokens
    <3>4. Taken(rest, {SP}) = <<m>> /\ After(rest, {SP}) = Before(SP, User(u))
      BY <2>1, <2>2, <3>2, <3>3, TakenOne
    <3>5. Width(<<m>>) = 6 BY <2>1, WidthOne
    <3>6. Fits(rest, {SP}, METHOD_LTH) BY <2>2, <3>3, <3>4, <3>5 DEF Fits, METHOD_LTH
    <3>7. QED BY <1>1, <1>3, <3>1, <3>6 DEF FieldFits
  <2>5. CASE field = 2
    <3> DEFINE w == Word("user", 6)
    <3>1. f.stops = {AT} /\ f.kind = "chars" /\ f.limit = USER_LTH
      BY <2>5, RequestLineFields, FieldIs
    <3>2. rest = Before(w, Before(AT, Host(u))) BY <1>2, <2>1, <2>5 DEF InRequestLine, User
    <3>3. Before(AT, Host(u)) \in Text /\ Head(Before(AT, Host(u))) = AT
      BY <2>2, <2>3, BeforeIs, CharsAreTokens
    <3>4. w \in Token \ Chars BY <2>1, RequestLineIs
    <3>5. w.len = 6 BY DEF Word
    <3> HIDE DEF w
    <3>6. w \notin {AT} \cup {NUL} BY <2>2, <3>4
    <3>7. Taken(rest, {AT}) = <<w>> /\ After(rest, {AT}) = Before(AT, Host(u))
      BY <3>2, <3>3, <3>4, <3>6, TakenOne, SMTT(30)
    <3>8. Width(<<w>>) = 6 BY <3>4, <3>5, WidthOne
    <3>9. Fits(rest, {AT}, USER_LTH) BY <2>2, <3>3, <3>7, <3>8 DEF Fits, USER_LTH
    <3>10. QED BY <1>1, <1>3, <3>1, <3>9 DEF FieldFits
  <2>6. CASE field = 3
    <3> DEFINE w == Word("host", 12)
    <3>1. f.stops = {CR} /\ f.kind = "host" /\ f.limit = NODE_ADDR_LTH
      BY <2>6, RequestLineFields, FieldIs
    <3>2. rest = Before(w, End(u)) BY <2>1, <2>6 DEF InRequestLine, Host
    <3>3. w \in Token \ Chars BY <2>1, RequestLineIs
    <3>4. w.len = 12 BY DEF Word
    <3> HIDE DEF w
    <3>5. Taken(rest, {CR}) = <<w>> BY <2>2, <2>3, <3>2, <3>3, TakenOne
    <3>6. Width(<<w>>) = 12 BY <3>3, <3>4, WidthOne
    <3>7. Width(Taken(rest, {CR})) < NODE_ADDR_LTH BY <3>5, <3>6 DEF NODE_ADDR_LTH
    <3>8. QED BY <1>1, <1>3, <3>1, <3>7 DEF FieldFits
  <2>7. QED BY <2>1, <2>4, <2>5, <2>6 DEF InRequestLine
<1>4. CASE hdr # "RequestLine"
  <2>1. PICK k \in 1 .. Len(draft.lines) :
          LET l == LineLeft(draft, k)
          IN  /\ InLine(draft, hdr, field, rest, got, k)
              /\ IsLine(l) /\ ~RunsOn(l, draft.spaced) /\ l.hdr = hdr /\ l.vals # <<>>
              /\ Left(draft)[k - 1] \in Text
    BY <1>1, <1>4, InsideLine
  <2> DEFINE l == LineLeft(draft, k)
             u == Left(draft)[k - 1]
  <2>2. draft \in Drafts /\ hdr \in Headers BY <1>1, <1>4, InsideLine
  <2>3. Good(l) BY <1>2, <2>2, BadLine
  <2>4. l.vals \in Seq(Texts) /\ Len(l.vals) \in Nat /\ Len(l.vals) # 0 BY <2>1, ValuesAre
  <2>5. DOMAIN l.vals = 1 .. Len(l.vals) BY <2>4
  <2>6. CASE field = 1
    <3>1. rest = First(l, u) BY <2>1, <2>6 DEF InLine
    <3>2. 1 \in DOMAIN l.vals BY <2>4, <2>5
    <3>3. Width(l.vals[1]) < Fields[hdr][1].limit BY <2>1, <2>3, <3>2 DEF Good
    <3>4. QED BY <1>1, <2>1, <2>2, <2>6, <3>1, <3>3, FirstFits
  <2>7. CASE field = 2
    <3>1. rest = Second(l, u) /\ hdr \in DOMAIN Between /\ Len(l.vals) = 2
      BY <2>1, <2>7 DEF InLine
    <3>2. 2 \in DOMAIN l.vals BY <2>5, <3>1
    <3>3. Width(l.vals[2]) < Fields[hdr][2].limit BY <2>1, <2>3, <3>2 DEF Good
    <3>4. QED BY <1>1, <2>1, <2>7, <3>1, <3>3, SecondFits
  <2>8. QED BY <2>1, <2>6, <2>7 DEF InLine
<1>5. QED BY <1>3, <1>4

\* A value of a line is read.
LEMMA LinePlaced ==
  ASSUME Inv, Placed, Clean(draft), ReadField, hdr # "RequestLine" PROVE PlacedNext
<1>1. /\ pc = "field" /\ FieldFits /\ hdr' = hdr
      /\ rest' = Skip(After(rest, Fields[hdr][field].stops), Fields[hdr][field].skip)
      /\ field = Len(Fields[hdr]) => pc' = "name" /\ field' = field
      /\ field # Len(Fields[hdr]) => pc' = "field" /\ field' = field + 1
  BY FieldRead
<1>2. PICK k \in 1 .. Len(draft.lines) :
        LET l == LineLeft(draft, k)
        IN  /\ InLine(draft, hdr, field, rest, got, k)
            /\ IsLine(l) /\ ~RunsOn(l, draft.spaced) /\ l.hdr = hdr /\ l.vals # <<>>
            /\ Left(draft)[k - 1] \in Text
  BY <1>1, InsideLine
<1>3. draft \in Drafts /\ draft.url /\ hdr \in Headers BY <1>1, InsideLine
<1> DEFINE n == Len(draft.lines)
           m == n - k
           l == LineLeft(draft, k)
           u == Left(draft)[k - 1]
           f == Fields[hdr][field]
           old == IF field <= Len(got[hdr]) THEN got[hdr][field] ELSE <<>>
           value == Value(f.kind, old, Taken(rest, f.stops))
<1>4. n \in Nat /\ k - 1 \in 0 .. n BY <1>3, LinesAre
<1>5. l.vals \in Seq(Texts) /\ Len(l.vals) \in Nat /\ Len(l.vals) # 0 BY <1>2, ValuesAre
<1>6. DOMAIN l.vals = 1 .. Len(l.vals) BY <1>5
<1>7. GoodUpTo(draft, m) BY <1>2 DEF InLine
<1>8. \A h \in Headers : h # hdr => got'[h] = got[h] BY StoredIs
<1>9. ASSUME Once(draft), Understood(draft, got, m)
      PROVE  got[hdr] = <<>> /\ \A h \in Headers \ {l.hdr} : Read(draft, got', m, h)
  <2>1. got[hdr] = <<>> BY <1>2, <1>3, <1>9, NotReadYet
  <2>2. ASSUME NEW h \in Headers \ {l.hdr} PROVE Read(draft, got', m, h)
    <3>1. Read(draft, got, m, h) BY <1>9, <2>2 DEF Understood
    <3>2. got'[h] = got[h] BY <1>2, <1>8, <2>2
    <3>3. QED BY <3>1, <3>2 DEF Read
  <2>3. QED BY <2>1, <2>2
<1>10. CASE field = 1
  <2>1. rest = First(l, u) /\ Understood(draft, got, m) BY <1>2, <1>10 DEF InLine
  <2>2. Width(l.vals[1]) < f.limit BY <1>1, <1>2, <1>3, <1>10, <2>1, FirstFits
  <2>3. /\ Len(l.vals) = Len(Fields[hdr]) /\ Taken(rest, f.stops) = l.vals[1]
        /\ Skip(After(rest, f.stops), f.skip) = IF Len(Fields[hdr]) = 1 THEN u ELSE Second(l, u)
    BY <1>2, <1>3, <1>10, <2>1, FirstRead
  <2>4. ASSUME Once(draft)
        PROVE  got'[hdr] = <<Value(Fields[hdr][1].kind, <<>>, l.vals[1])>>
    <3>1. got[hdr] = <<>> BY <1>9, <2>1, <2>4
    <3>2. got'[hdr] = <<value>> /\ old = <<>> BY <1>10, <3>1, StoredIs
    <3>3. QED BY <1>10, <2>3, <3>2
  <2>5. CASE Len(Fields[hdr]) = 1
    <3>1. pc' = "name" /\ rest' = u BY <1>1, <1>10, <2>3, <2>5
    <3>2. Good(l)
      <4>1. \A i \in DOMAIN l.vals : i = 1 BY <1>6, <2>3, <2>5
      <4>2. QED BY <1>2, <1>3, <1>10, <2>2, <2>3, <4>1 DEF Good
    <3>3. Once(draft) => got'[l.hdr] = Meaning(l)
      <4>1. Meaning(l) = <<Value(Fields[l.hdr][1].kind, <<>>, l.vals[1])>>
        BY <1>5, <2>3, <2>5, MeaningIs
      <4>2. QED BY <1>2, <2>4, <4>1
    <3>4. AtLine(draft, u, got', k - 1)
      <4>1. Once(draft) => /\ got'[l.hdr] = Meaning(l)
                           /\ \A h \in Headers \ {l.hdr} : Read(draft, got', m, h)
        BY <1>9, <2>1, <3>3
      <4>2. QED BY <1>3, <1>7, <3>2, <4>1, OneMoreLine
    <3>5. QED BY <1>3, <1>4, <3>1, <3>4 DEF PlacedNext, Place
  <2>6. CASE Len(Fields[hdr]) # 1
    <3>1. hdr \in DOMAIN Between BY <1>3, <2>6, ShortHeader
    <3>2. Len(l.vals) = 2 BY <2>3, <3>1, LongHeader
    <3>3. pc' = "field" /\ field' = 2 /\ rest' = Second(l, u) BY <1>1, <1>10, <2>3, <2>6
    <3>4. HalfUnderstood(draft, got', m, l)
      BY <1>2, <1>9, <2>1, <2>4 DEF HalfUnderstood
    <3>5. InLine(draft, hdr', field', rest', got', k)
      BY <1>1, <1>2, <1>3, <1>7, <1>10, <2>2, <3>1, <3>2, <3>3, <3>4 DEF InLine
    <3>6. QED BY <1>3, <3>3, <3>5 DEF PlacedNext, Place
  <2>7. QED BY <2>5, <2>6
<1>11. CASE field = 2
  <2>1. /\ rest = Second(l, u) /\ HalfUnderstood(draft, got, m, l)
        /\ hdr \in DOMAIN Between /\ Len(l.vals) = 2 /\ Width(l.vals[1]) < Fields[hdr][1].limit
    BY <1>2, <1>11 DEF InLine
  <2>2. Width(l.vals[2]) < f.limit BY <1>1, <1>2, <1>11, <2>1, SecondFits
  <2>3. Len(Fields[hdr]) = 2 BY <2>1, LongHeader
  <2>4. Taken(rest, f.stops) = l.vals[2] /\ Skip(After(rest, f.stops), f.skip) = u
    BY <1>2, <1>11, <2>1, SecondRead
  <2>5. pc' = "name" /\ rest' = u BY <1>1, <1>11, <2>3, <2>4
  <2>6. Good(l)
    <3>1. \A i \in DOMAIN l.vals : i = 1 \/ i = 2 BY <1>6, <2>1
    <3>2. QED BY <1>2, <1>3, <1>11, <2>1, <2>2, <2>3, <3>1 DEF Good
  <2>7. ASSUME Once(draft)
        PROVE  /\ got'[l.hdr] = Meaning(l)
               /\ \A h \in Headers \ {l.hdr} : Read(draft, got', m, h)
    <3> DEFINE x == Value(Fields[hdr][1].kind, <<>>, l.vals[1])
    <3>1. got[hdr] = <<x>> /\ \A h \in Headers \ {l.hdr} : Read(draft, got, m, h)
      BY <1>2, <2>1, <2>7 DEF HalfUnderstood
    <3>2. got'[hdr] = <<x, value>> /\ old = <<>> BY <1>11, <3>1, StoredIs
    <3>3. value = Value(Fields[hdr][2].kind, <<>>, l.vals[2]) BY <1>11, <2>4, <3>2
    <3>4. Meaning(l) = <<x, Value(Fields[hdr][2].kind, <<>>, l.vals[2])>>
      BY <1>2, <1>5, <2>1, MeaningIs
    <3>5. got'[l.hdr] = Meaning(l) BY <1>2, <3>2, <3>3, <3>4
    <3>6. ASSUME NEW h \in Headers \ {l.hdr} PROVE Read(draft, got', m, h)
      <4>1. got'[h] = got[h] BY <1>2, <1>8, <3>6
      <4>2. QED BY <3>1, <4>1 DEF Read
    <3>7. QED BY <3>5, <3>6
  <2>8. AtLine(draft, u, got', k - 1) BY <1>3, <1>7, <2>6, <2>7, OneMoreLine
  <2>9. QED BY <1>3, <1>4, <2>5, <2>8 DEF PlacedNext, Place
<1>12. QED BY <1>2, <1>10, <1>11 DEF InLine

-----------------------------------------------------------------------------
(***************************************************************************)
(* The decoder follows every request.                                      *)
(***************************************************************************)
LEMMA InitFollows == Init => Follows
<1> SUFFICES ASSUME Init PROVE Placed BY DEF Follows, Placed
<1>1. \A h \in Headers : got[h] = <<>> BY NothingRead, HeadersAre DEF Init
<1>2. \A j : ~(j \in 1 .. 0) OBVIOUS
<1>3. Understood(draft, got, 0) BY <1>1, <1>2 DEF Understood, Read
<1>4. QED BY <1>3 DEF Init, Placed, Place

LEMMA NextFollows == Inv /\ Follows /\ [Next]_vars => Follows'
<1> SUFFICES ASSUME Inv, Follows, [Next]_vars, AtServer', Clean(draft') PROVE Placed'
  BY DEF Follows, Placed
<1>1. CASE Respond
  <2>1. PICK code, media, body : code \in {200, 400, 404, 486} /\ reply' = ReplyTo(code, media, body)
    BY <1>1, RespondIs DEF Send
  <2>2. reply'.code # 0 BY <2>1 DEF ReplyTo
  <2>3. NoReply.code = 0 BY DEF NoReply
  <2>4. QED BY <2>2, <2>3 DEF AtServer
<1>2. CASE UNCHANGED vars
  <2>1. AtServer /\ Clean(draft) BY <1>2 DEF AtServer, vars
  <2>2. Placed BY <2>1 DEF Follows, Placed
  <2>3. QED BY <1>2, <2>2 DEF Placed, vars
<1>3. CASE Decode
  <2>1. draft' = draft /\ reply' = reply
    BY <1>3 DEF Decode, DecodeStartLine, HeaderName, BadHeader, ReadField, BadField,
                Store, EndOfHeaders, Refuse
  <2>2. AtServer /\ Clean(draft) BY <2>1 DEF AtServer
  <2>3. Placed BY <2>2 DEF Follows, Placed
  <2>4. SUFFICES PlacedNext BY <2>1 DEF Placed, PlacedNext
  <2>5. CASE DecodeStartLine BY <2>3, <2>5, StartPlaced
  <2>6. CASE \E h \in Headers : HeaderName(h) BY <2>2, <2>3, <2>6, NamePlaced
  <2>7. CASE BadHeader BY <2>2, <2>3, <2>7, BadHeaderPlaced
  <2>8. CASE ReadField BY <2>2, <2>3, <2>8, RequestLinePlaced, LinePlaced
  <2>9. CASE BadField BY <2>2, <2>3, <2>9, BadFieldPlaced
  <2>10. CASE EndOfHeaders BY <2>2, <2>3, <2>10, EndPlaced
  <2>11. QED BY <1>3, <2>5, <2>6, <2>7, <2>8, <2>9, <2>10 DEF Decode
<1>4. QED BY <1>1, <1>2, <1>3 DEF Next

\* The decoder is where the lines it has read say, and has what they say: for every
\* request in which no line runs on into the next one.
THEOREM DecoderFollows == Spec => []Follows
BY InitInv, InitFollows, NextInv, NextFollows, PTL DEF Spec

LEMMA LinesOf ==
  ASSUME Inv
  PROVE  /\ \A l : l \in Lines <=> \E i \in 1 .. Len(draft.lines) : l = draft.lines[i]
         /\ InStep <=> Clean(draft)
         /\ (\A l \in Lines : Good(l)) <=> GoodUpTo(draft, Len(draft.lines))
         /\ EachHeaderOnce <=> Once(draft)
<1>1. DOMAIN draft.lines = 1 .. Len(draft.lines) BY LinesAre DEF Inv
<1>2. QED BY <1>1 DEF Lines, InStep, Clean, GoodUpTo, EachHeaderOnce, Once

LEMMA NumbersAreShort ==
  ASSUME NEW h \in DOMAIN Fields, NEW i \in 1 .. Len(Fields[h]),
         Fields[h][i].kind \in {"word", "dword"}
  PROVE  Fields[h][i].limit \in 0 .. COMMEN_LTH
<1> DEFINE Ok(s) == \A k \in 1 .. Len(s) :
                       s[k].kind \in {"word", "dword"} => s[k].limit \in 0 .. COMMEN_LTH
<1>1. ASSUME NEW p, NEW b, NEW c, NEW k,
             k \in {"word", "dword"} => b \in 0 .. COMMEN_LTH
      PROVE  Field(p, b, c, k).kind \in {"word", "dword"} =>
                Field(p, b, c, k).limit \in 0 .. COMMEN_LTH
  BY <1>1 DEF Field
<1>2. {4, 5, 6, 11} \subseteq 0 .. COMMEN_LTH BY DEF COMMEN_LTH
<1>3. /\ Ok(StatusLine) /\ Ok(RequestLine) /\ Ok(DecodeCallID) /\ Ok(DecodeCntLength)
      /\ Ok(DecodeCSeq) /\ Ok(DecodeMedia) /\ Ok(DecodeEvent) /\ Ok(DecodeFrom)
      /\ Ok(DecodeUserAgent)
  <2>1. ASSUME NEW x, x.kind \in {"word", "dword"} => x.limit \in 0 .. COMMEN_LTH
        PROVE  Ok(<<x>>)
    BY <2>1
  <2>2. ASSUME NEW x, x.kind \in {"word", "dword"} => x.limit \in 0 .. COMMEN_LTH,
               NEW y, y.kind \in {"word", "dword"} => y.limit \in 0 .. COMMEN_LTH
        PROVE  Ok(<<x, y>>)
    BY <2>2
  <2>3. ASSUME NEW x, x.kind \in {"word", "dword"} => x.limit \in 0 .. COMMEN_LTH,
               NEW y, y.kind \in {"word", "dword"} => y.limit \in 0 .. COMMEN_LTH,
               NEW z, z.kind \in {"word", "dword"} => z.limit \in 0 .. COMMEN_LTH
        PROVE  Ok(<<x, y, z>>)
    BY <2>3
  <2> HIDE DEF Ok
  <2>4. Ok(StatusLine) BY <1>1, <1>2, <2>2 DEF StatusLine
  <2>5. Ok(RequestLine) BY <1>1, <2>3 DEF RequestLine
  <2>6. Ok(DecodeCallID) BY <1>1, <2>1 DEF DecodeCallID
  <2>7. Ok(DecodeCntLength) BY <1>1, <1>2, <2>1 DEF DecodeCntLength
  <2>8. Ok(DecodeCSeq) BY <1>1, <1>2, <2>2 DEF DecodeCSeq
  <2>9. Ok(DecodeMedia) BY <1>1, <1>2, <2>2 DEF DecodeMedia, HOST_PORT_LTH
  <2>10. Ok(DecodeEvent) BY <1>1, <2>1 DEF DecodeEvent
  <2>11. Ok(DecodeFrom) BY <1>1, <2>2 DEF DecodeFrom
  <2>12. Ok(DecodeUserAgent) BY <1>1, <2>1 DEF DecodeUserAgent
  <2>13. QED
    BY <2>4, <2>5, <2>6, <2>7, <2>8, <2>9, <2>10, <2>11, <2>12
<1> HIDE DEF Ok
<1>4. Ok(Fields[h]) BY <1>3 DEF Fields
<1>5. QED BY <1>4 DEF Ok

LEMMA GoodIsWhole ==
  ASSUME NEW l, l.vals \in Seq(Texts), Good(l)
  PROVE  \A i \in DOMAIN l.vals : Width(l.vals[i]) < Room(Fields[l.hdr][i])
<1> SUFFICES ASSUME NEW i \in DOMAIN l.vals PROVE Width(l.vals[i]) < Room(Fields[l.hdr][i])
  OBVIOUS
<1> DEFINE f == Fields[l.hdr][i]
<1>1. Width(l.vals[i]) < f.limit /\ l.hdr \in DOMAIN Fields BY HeadersAre DEF Good
<1>2. i \in 1 .. Len(Fields[l.hdr]) BY DEF Good
<1>3. l.vals[i] \in Texts OBVIOUS
<1>4. Width(l.vals[i]) \in Nat BY <1>3, TextsAre
<1>5. f.kind \in {"word", "dword"} => f.limit \in 0 .. COMMEN_LTH
  BY <1>1, <1>2, NumbersAreShort
<1> HIDE DEF f
<1>6. Width(l.vals[i]) < Room(f)
  <2>1. CASE f.kind \in {"word", "dword"}
    <3> DEFINE n == f.limit
               w == Width(l.vals[i])
               c == COMMEN_LTH
    <3>1. w \in Nat /\ w < n /\ n \in 0 .. c BY <1>1, <1>4, <1>5, <2>1
    <3>2. c \in Nat BY DEF COMMEN_LTH
    <3>3. Room(f) = c BY <2>1 DEF Room
    <3> HIDE DEF n, w, c
    <3>4. w < c BY <3>1, <3>2
    <3>5. QED BY <3>3, <3>4 DEF w
  <2>2. CASE f.kind \notin {"word", "dword"} BY <1>1, <2>2 DEF Room
  <2>3. QED BY <2>1, <2>2
<1>7. QED BY <1>6 DEF f

LEMMA FollowsWhole == Inv /\ Follows => AcceptedRequestsAreWhole
<1> SUFFICES ASSUME Inv, Follows, AtServer, pc = "done", InStep
             PROVE  /\ draft.url
                    /\ \A l \in Lines :
                          /\ l.hdr \in Headers
                          /\ Len(l.vals) = Len(Fields[l.hdr])
                          /\ \A i \in DOMAIN l.vals :
                                Width(l.vals[i]) < Room(Fields[l.hdr][i])
  BY DEF AcceptedRequestsAreWhole
<1>1. Placed BY LinesOf DEF Follows, Placed
<1>2. draft.url /\ GoodUpTo(draft, Len(draft.lines)) BY <1>1 DEF Placed, Place
<1>3. \A l \in Lines : Good(l) BY <1>2, LinesOf
<1>4. ASSUME NEW l \in Lines PROVE l.vals \in Seq(Texts)
  <2>1. PICK i \in 1 .. Len(draft.lines) : l = draft.lines[i] BY LinesOf
  <2>2. IsLine(l) BY <2>1, LinesAre DEF Inv
  <2>3. QED BY <2>2, ValuesAre
<1>5. QED BY <1>2, <1>3, <1>4, GoodIsWhole DEF Good

LEMMA FollowsUnderstood == Inv /\ Follows => GoodRequestsAreUnderstood
<1> SUFFICES ASSUME Inv, Follows, AtServer, Returned, draft.url, EachHeaderOnce, InStep,
                    \A l \in Lines : Good(l)
             PROVE  /\ pc = "done"
                    /\ \A l \in Lines : got[l.hdr] = Meaning(l)
                    /\ \A h \in Headers : (\A l \in Lines : l.hdr # h) => got[h] = <<>>
  BY DEF GoodRequestsAreUnderstood
<1> DEFINE n == Len(draft.lines)
<1>1. Clean(draft) /\ GoodUpTo(draft, n) /\ Once(draft) BY LinesOf
<1>2. Placed BY <1>1 DEF Follows, Placed
<1>3. pc = "done" BY <1>1, <1>2 DEF Placed, Place, Returned
<1>4. Understood(draft, got, n) BY <1>2, <1>3 DEF Placed, Place
<1>5. \A h \in Headers : Read(draft, got, n, h) BY <1>1, <1>4 DEF Understood
<1>6. ASSUME NEW l \in Lines PROVE got[l.hdr] = Meaning(l)
  <2>1. PICK i \in 1 .. n : l = draft.lines[i] BY LinesOf
  <2>2. l.hdr \in Headers BY <1>6 DEF Good
  <2>3. QED BY <1>5, <2>1, <2>2 DEF Read
<1>7. ASSUME NEW h \in Headers, \A l \in Lines : l.hdr # h PROVE got[h] = <<>>
  <2>1. \A i \in 1 .. n : draft.lines[i] \in Lines BY LinesOf
  <2>2. \A i \in 1 .. n : draft.lines[i].hdr # h BY <1>7, <2>1
  <2>3. QED BY <1>5, <2>2 DEF Read
<1>8. QED BY <1>3, <1>6, <1>7

\* Where no line puts the decoder out of step, one line with an unknown header, with
\* a value left out or with one too wide for its buffer, or a request line without
\* its URL, has the whole request refused, however long it is.
THEOREM CodecAcceptsWholeRequests == Spec => []AcceptedRequestsAreWhole
BY CodecInvariance, DecoderFollows, FollowsWhole, PTL

\* A request of good lines, each header once, is accepted and understood as the
\* lines say, however many they are, whatever their order and their values, with or
\* without the blanks after the colons and the empty line at the end.
THEOREM CodecUnderstandsGoodRequests == Spec => []GoodRequestsAreUnderstood
BY CodecInvariance, DecoderFollows, FollowsUnderstood, PTL

-----------------------------------------------------------------------------
(***************************************************************************)
(* A reply token by token.                                                 *)
(***************************************************************************)
LEMMA AppendBefore ==
  ASSUME NEW s \in Seq(Token), NEW t \in Token, NEW u \in Text
  PROVE  Append(s, t) \o u = s \o Before(t, u)
<1> DEFINE a == <<t>>
<1>1. a \in Seq(Token) /\ u \in Seq(Token) BY DEF Text
<1>2. Append(s, t) = s \o a BY AppendIsConcat
<1> HIDE DEF a
<1>3. (s \o a) \o u = s \o (a \o u) BY <1>1, Associative, ZenonT(60)
<1>4. QED BY <1>2, <1>3 DEF a, Before

LEMMA TwoBefore ==
  ASSUME NEW a \in Token, NEW b \in Token, NEW u \in Text
  PROVE  <<a, b>> \o u = Before(a, Before(b, u))
<1>1. <<a, b>> = Append(<<a>>, b) BY AppendToOne
<1>2. <<a>> \in Seq(Token) OBVIOUS
<1>3. Append(<<a>>, b) \o u = <<a>> \o Before(b, u) BY <1>2, AppendBefore
<1>4. QED BY <1>1, <1>3 DEF Before

LEMMA ThreeBefore ==
  ASSUME NEW a \in Token, NEW b \in Token, NEW c \in Token, NEW u \in Text
  PROVE  <<a, b, c>> \o u = Before(a, Before(b, Before(c, u)))
<1> DEFINE s == <<a, b>>
           t == <<a, b, c>>
<1>1. t = Append(s, c) /\ s \in Seq(Token) OBVIOUS
<1>2. Before(c, u) \in Text BY BeforeIs
<1>3. s \o Before(c, u) = Before(a, Before(b, Before(c, u))) BY <1>2, TwoBefore
<1> HIDE DEF s, t
<1>4. Append(s, c) \o u = s \o Before(c, u) BY <1>1, AppendBefore
<1>5. QED BY <1>1, <1>3, <1>4 DEF t

LEMMA FourBefore ==
  ASSUME NEW a \in Token, NEW b \in Token, NEW c \in Token, NEW d \in Token, NEW u \in Text
  PROVE  <<a, b, c, d>> \o u = Before(a, Before(b, Before(c, Before(d, u))))
<1> DEFINE s == <<a, b, c>>
           t == <<a, b, c, d>>
<1>1. t = Append(s, d) /\ s \in Seq(Token) OBVIOUS
<1>2. Before(d, u) \in Text BY BeforeIs
<1>3. s \o Before(d, u) = Before(a, Before(b, Before(c, Before(d, u)))) BY <1>2, ThreeBefore
<1> HIDE DEF s, t
<1>4. Append(s, d) \o u = s \o Before(d, u) BY <1>1, AppendBefore
<1>5. QED BY <1>1, <1>3, <1>4 DEF t

LEMMA FiveBefore ==
  ASSUME NEW a \in Token, NEW b \in Token, NEW c \in Token, NEW d \in Token, NEW e \in Token,
         NEW u \in Text
  PROVE  <<a, b, c, d, e>> \o u = Before(a, Before(b, Before(c, Before(d, Before(e, u)))))
<1> DEFINE s == <<a, b, c, d>>
           t == <<a, b, c, d, e>>
<1>1. t = Append(s, e) /\ s \in Seq(Token) OBVIOUS
<1>2. Before(e, u) \in Text BY BeforeIs
<1>3. s \o Before(e, u) = Before(a, Before(b, Before(c, Before(d, Before(e, u)))))
  BY <1>2, FourBefore
<1> HIDE DEF s, t
<1>4. Append(s, e) \o u = s \o Before(e, u) BY <1>1, AppendBefore
<1>5. QED BY <1>1, <1>3, <1>4 DEF t

\* Numbers as "%d" prints them.
LEMMA DigitsAre ==
  ASSUME NEW n \in Nat, NEW m \in 1 .. 9, \A k \in 1 .. 9 : n >= 10 ^ k <=> k <= m
  PROVE  Num(n).len = m + 1
<1> DEFINE K == {k \in 1 .. 9 : (IF n < 0 THEN -n ELSE n) >= 10 ^ k}
<1>1. (IF n < 0 THEN -n ELSE n) = n OBVIOUS
<1>2. \A k \in 1 .. 9 : (IF n < 0 THEN -n ELSE n) >= 10 ^ k <=> k <= m BY <1>1
<1>3. K = {k \in 1 .. 9 : k <= m} BY <1>2, Zenon
<1>4. {k \in 1 .. 9 : k <= m} = 1 .. m OBVIOUS
<1>5. Cardinality(1 .. m) = (m - 1) + 1
  <2>1. \A j \in Nat \ {0} : IsFiniteSet(1 .. j) /\ Cardinality(1 .. j) = (j - 1) + 1
    BY FS_Interval
  <2>2. QED BY <2>1
<1>6. Digits(n) = 1 + Cardinality(K) BY DEF Digits
<1> HIDE DEF K
<1>7. Digits(n) = 1 + ((m - 1) + 1) BY <1>3, <1>4, <1>5, <1>6
<1>8. QED BY <1>7 DEF Num

LEMMA PowersAre ==
  /\ 10 ^ 1 = 10 /\ 10 ^ 2 = 100 /\ 10 ^ 3 = 1000 /\ 10 ^ 4 = 10000 /\ 10 ^ 5 = 100000
  /\ 10 ^ 6 = 1000000 /\ 10 ^ 7 = 10000000 /\ 10 ^ 8 = 100000000 /\ 10 ^ 9 = 1000000000
OBVIOUS

\* How many of the powers of ten a number reaches.
LEMMA PowersGrow ==
  ASSUME NEW n \in Nat, NEW m \in 1 .. 5, n >= 10 ^ m, n < 10 ^ (m + 1)
  PROVE  \A k \in 1 .. 9 : n >= 10 ^ k <=> k <= m
<1> DEFINE p(k) == 10 ^ k
<1>1. /\ p(1) = 10 /\ p(2) = 100 /\ p(3) = 1000 /\ p(4) = 10000 /\ p(5) = 100000
      /\ p(6) = 1000000 /\ p(7) = 10000000 /\ p(8) = 100000000 /\ p(9) = 1000000000
  BY PowersAre
<1>2. SUFFICES ASSUME NEW k \in 1 .. 9 PROVE n >= p(k) <=> k <= m
  OBVIOUS
<1>3. n >= p(m) /\ n < p(m + 1) OBVIOUS
<1> HIDE DEF p
<1>4. k = 1 \/ k = 2 \/ k = 3 \/ k = 4 \/ k = 5 \/ k = 6 \/ k = 7 \/ k = 8 \/ k = 9 OBVIOUS
<1>5. m = 1 \/ m = 2 \/ m = 3 \/ m = 4 \/ m = 5 OBVIOUS
<1>6. 1 + 1 = 2 /\ 2 + 1 = 3 /\ 3 + 1 = 4 /\ 4 + 1 = 5 /\ 5 + 1 = 6 OBVIOUS
<1>7. QED BY <1>1, <1>3, <1>4, <1>5, <1>6

\* The numbers of a reply.
Codes == {200, 400, 404, 486}

Bodies == {20, 1023}

LEMMA NumbersAre ==
  /\ \A n \in {200, 400, 404, 486} : Num(n).len = 3
  /\ Num(20).len = 2 /\ Num(1023).len = 4 /\ Num(LocalPort).len = 5
<1>1. ASSUME NEW n \in Nat, NEW m \in 1 .. 5, n >= 10 ^ m, n < 10 ^ (m + 1)
      PROVE  Num(n).len = m + 1
  <2>1. m \in 1 .. 9 OBVIOUS
  <2>2. \A k \in 1 .. 9 : n >= 10 ^ k <=> k <= m BY <1>1, PowersGrow
  <2>3. QED BY <2>1, <2>2, DigitsAre
<1>2. ASSUME NEW n \in {200, 400, 404, 486} PROVE Num(n).len = 3
  <2>1. n \in Nat /\ n >= 10 ^ 2 /\ n < 10 ^ (2 + 1) BY PowersAre
  <2>2. 2 \in 1 .. 5 /\ 2 + 1 = 3 OBVIOUS
  <2>3. QED BY <1>1, <2>1, <2>2
<1>3. Num(20).len = 2
  <2>1. 20 \in Nat /\ 20 >= 10 ^ 1 /\ 20 < 10 ^ (1 + 1) BY PowersAre
  <2>2. 1 \in 1 .. 5 /\ 1 + 1 = 2 OBVIOUS
  <2>3. QED BY <1>1, <2>1, <2>2
<1>4. Num(1023).len = 4
  <2>1. 1023 \in Nat /\ 1023 >= 10 ^ 3 /\ 1023 < 10 ^ (3 + 1) BY PowersAre
  <2>2. 3 \in 1 .. 5 /\ 3 + 1 = 4 OBVIOUS
  <2>3. QED BY <1>1, <2>1, <2>2
<1>5. Num(LocalPort).len = 5
  <2>1. LocalPort \in Nat /\ LocalPort >= 10 ^ 4 /\ LocalPort < 10 ^ (4 + 1)
    BY PowersAre DEF LocalPort
  <2>2. 4 \in 1 .. 5 /\ 4 + 1 = 5 OBVIOUS
  <2>3. QED BY <1>1, <2>1, <2>2
<1>6. QED BY <1>2, <1>3, <1>4, <1>5

LEMMA AtoiOne ==
  ASSUME NEW n \in Int PROVE Atoi(<<Num(n)>>) = n
<1> DEFINE t == Num(n)
           s == <<t>>
           I == {i \in DOMAIN s : s[i] # SP}
<1>1. t \notin Chars /\ t.num = n BY NumIs, ValueIs
<1>2. "num" \in DOMAIN t BY DEF Num
<1>3. SP \in Chars BY DEF Chars
<1> HIDE DEF t
<1>4. DOMAIN s = {1} /\ s[1] = t OBVIOUS
<1>5. I = {1} BY <1>1, <1>3, <1>4
<1>6. Min(I) = 1
  <2>1. I \in SUBSET Nat /\ I # {} BY <1>5
  <2>2. Min(I) \in I BY <2>1, MinIs
  <2>3. QED BY <1>5, <2>2
<1>7. Atoi(s) = IF I # {} /\ "num" \in DOMAIN s[Min(I)] THEN s[Min(I)].num ELSE 0 BY DEF Atoi
<1> HIDE DEF I
<1>8. I # {} /\ s[Min(I)] = t BY <1>4, <1>5, <1>6
<1>9. Atoi(s) = n BY <1>1, <1>2, <1>7, <1>8
<1>10. QED BY <1>9 DEF t

\* A number of a reply is one token, understood as it was meant.
LEMMA PlainNumber ==
  ASSUME NEW n \in Int
  PROVE  /\ Num(n) \in Token /\ Num(n) \notin Chars /\ "num" \in DOMAIN Num(n)
         /\ Value("dword", <<>>, <<Num(n)>>) = n
         /\ n \in {200, 400, 404, 486, 20, 1023, LocalPort} =>
              Value("word", <<>>, <<Num(n)>>) = n
<1>1. Num(n) \in Token /\ Num(n) \notin Chars BY NumIs, ValueIs
<1>2. "num" \in DOMAIN Num(n) BY DEF Num
<1>3. Value("dword", <<>>, <<Num(n)>>) = n BY AtoiOne DEF Value
<1>4. ASSUME n \in {200, 400, 404, 486, 20, 1023, LocalPort}
      PROVE  Value("word", <<>>, <<Num(n)>>) = n
  <2>1. Value("word", <<>>, <<Num(n)>>) = n % 65536 BY AtoiOne DEF Value
  <2>2. n % 65536 = n BY <1>4 DEF LocalPort
  <2>3. QED BY <2>1, <2>2
<1>5. QED BY <1>1, <1>2, <1>3, <1>4

LEMMA WrittenWhole ==
  ASSUME NEW n \in Int, NEW k \in Nat, Num(n).len <= k
  PROVE  Written(Num(n), k) = Num(n) /\ Num(n) \in Token
BY NumIs, ValueIs DEF Written

LEMMA PlainText ==
  ASSUME NEW s \in Seq(Token), NEW k \in {"chars", "string"} PROVE Value(k, <<>>, s) = s
<1>1. Width(s) \in Nat /\ Width(<<>>) = 0 BY WidthType, WidthEmpty
<1>2. Overwrite(<<>>, s) = s BY <1>1 DEF Overwrite
<1>3. QED BY <1>2 DEF Value

-----------------------------------------------------------------------------
(***************************************************************************)
(* What is left of a reply in front of each of its parts.                  *)
(***************************************************************************)
HeaderBefore(h, v) == Before(Name(h), Before(COLON, Before(SP, v)))

BodyText(r) == IF r.body = 0 THEN <<NUL>> ELSE Before(Word("body", r.body), <<NUL>>)

ToEnd(r) == End(BodyText(r))

LengthLeft(r) == Before(Num(r.body), End(ToEnd(r)))

ToLength(r) == IF r.body = 0 THEN ToEnd(r) ELSE HeaderBefore("ContentLength", LengthLeft(r))

PortLeft(r) == Before(Num(LocalPort), End(ToLength(r)))

MediaLeft(r) == Before(IPText, Before(COLON, PortLeft(r)))

ToMedia(r) == IF r.media = <<>> THEN ToLength(r) ELSE HeaderBefore("Media", MediaLeft(r))

MethodLeft(r) == r.method \o End(ToMedia(r))

SeqLeft(r) == Before(Num(r.seq), Before(SP, MethodLeft(r)))

ToSeq(r) == HeaderBefore("CSeq", SeqLeft(r))

IDLeft(r) == r.callid \o End(ToSeq(r))

ToID(r) == HeaderBefore("CallID", IDLeft(r))

ReasonLeft(r) == Before(Word("reason", 30), End(ToID(r)))

ReplyText(r) == Before(Num(r.code), Before(SP, ReasonLeft(r)))

LEMMA HeaderBeforeIs ==
  ASSUME NEW h \in Headers, NEW v \in Text
  PROVE  /\ HeaderBefore(h, v) \in Text
         /\ <<Name(h), COLON, SP>> \o v = HeaderBefore(h, v)
         /\ Name(h) \in Token /\ Before(SP, v) \in Text /\ Before(COLON, Before(SP, v)) \in Text
<1>1. Name(h) \in Token BY NamesAre, HeadersAre
<1>2. COLON \in Token /\ SP \in Token BY DelimitersAre
<1>3. Before(SP, v) \in Text BY <1>2, BeforeIs
<1>4. Before(COLON, Before(SP, v)) \in Text BY <1>2, <1>3, BeforeIs
<1>5. HeaderBefore(h, v) \in Text BY <1>1, <1>4, BeforeIs DEF HeaderBefore
<1>6. QED BY <1>1, <1>2, <1>3, <1>4, <1>5, ThreeBefore DEF HeaderBefore

LEMMA OwnTokens ==
  /\ Word("reason", 30) \in Token \ Chars /\ Word("reason", 30).len = 30
  /\ IPText \in Token \ Chars /\ IPText.len = 9
  /\ \A n \in {20, 1023} : Word("body", n) \in Token
<1>1. {"reason", "127.0.0.1", "body"} \subseteq Words \cup OwnWords BY DEF OwnWords
<1>2. 30 \in Nat \ {0} /\ 9 \in Nat \ {0} /\ 20 \in Nat \ {0} /\ 1023 \in Nat \ {0} OBVIOUS
<1>3. QED BY <1>1, <1>2, WordIs DEF IPText

LEMMA ReplyTexts ==
  ASSUME NEW r \in Reply
  PROVE  /\ BodyText(r) \in Text /\ ToEnd(r) \in Text /\ Head(ToEnd(r)) = CR
         /\ ToLength(r) \in Text /\ ToMedia(r) \in Text /\ ToSeq(r) \in Text /\ ToID(r) \in Text
         /\ LengthLeft(r) \in Text /\ PortLeft(r) \in Text /\ MediaLeft(r) \in Text
         /\ MethodLeft(r) \in Text /\ SeqLeft(r) \in Text /\ IDLeft(r) \in Text
         /\ ReasonLeft(r) \in Text /\ ReplyText(r) \in Text
<1>1. SP \in Token /\ COLON \in Token BY DelimitersAre
<1>2. {"CallID", "CSeq", "Media", "ContentLength"} \subseteq Headers BY HeadersAre
<1>3. /\ r.code \in Int /\ r.callid \in Seq(Token) /\ r.seq \in Int /\ r.method \in Seq(Token)
      /\ r.body \in Int /\ (r.body # 0 => r.body \in {20, 1023})
  BY DEF Reply
<1>4. \A n \in Int : Num(n) \in Token BY NumIs, ValueIs
<1>5. \A u \in Text : End(u) \in Text BY EndIs
<1>6. BodyText(r) \in Text
  <2>1. <<NUL>> \in Text BY EndOfText
  <2>2. QED BY <1>3, <2>1, OwnTokens, BeforeIs DEF BodyText
<1>7. ToEnd(r) \in Text /\ Head(ToEnd(r)) = CR BY <1>6, EndIs DEF ToEnd
<1>8. LengthLeft(r) \in Text BY <1>3, <1>4, <1>5, <1>7, BeforeIs DEF LengthLeft
<1>9. ToLength(r) \in Text BY <1>2, <1>7, <1>8, HeaderBeforeIs DEF ToLength
<1>10. PortLeft(r) \in Text
  <2>1. LocalPort \in Int BY DEF LocalPort
  <2>2. Num(LocalPort) \in Token BY <1>4, <2>1
  <2>3. QED BY <1>5, <1>9, <2>2, BeforeIs DEF PortLeft
<1>11. MediaLeft(r) \in Text
  <2>1. Before(COLON, PortLeft(r)) \in Text BY <1>1, <1>10, BeforeIs
  <2>2. QED BY <2>1, OwnTokens, BeforeIs DEF MediaLeft
<1>12. ToMedia(r) \in Text BY <1>2, <1>9, <1>11, HeaderBeforeIs DEF ToMedia
<1>13. MethodLeft(r) \in Text BY <1>3, <1>5, <1>12, JoinedText DEF MethodLeft
<1>14. SeqLeft(r) \in Text
  <2>1. Before(SP, MethodLeft(r)) \in Text BY <1>1, <1>13, BeforeIs
  <2>2. QED BY <1>3, <1>4, <2>1, BeforeIs DEF SeqLeft
<1>15. ToSeq(r) \in Text BY <1>2, <1>14, HeaderBeforeIs DEF ToSeq
<1>16. IDLeft(r) \in Text BY <1>3, <1>5, <1>15, JoinedText DEF IDLeft
<1>17. ToID(r) \in Text BY <1>2, <1>16, HeaderBeforeIs DEF ToID
<1>18. ReasonLeft(r) \in Text BY <1>5, <1>17, OwnTokens, BeforeIs DEF ReasonLeft
<1>19. ReplyText(r) \in Text
  <2>1. Before(SP, ReasonLeft(r)) \in Text BY <1>1, <1>18, BeforeIs
  <2>2. QED BY <1>3, <1>4, <2>1, BeforeIs DEF ReplyText
<1>20. QED BY <1>6, <1>7, <1>8, <1>9, <1>10, <1>11, <1>12, <1>13, <1>14, <1>15, <1>16, <1>17,
              <1>18, <1>19

LEMMA StatusLayout ==
  ASSUME NEW c \in Codes, NEW u \in Text
  PROVE  /\ EncodeStatus(c) \in Seq(Token)
         /\ EncodeStatus(c) \o u = Before(Num(c), Before(SP, Before(Word("reason", 30), End(u))))
<1> DEFINE n == Num(c)
           w == Word("reason", 30)
           a == <<n>>
           b == <<SP, w>>
<1>1. c \in Int /\ c % 256 # 0 BY DEF Codes
<1>2. Written(n, 4) = n /\ n \in Token
  <2>1. Num(c).len <= 4 /\ 4 \in Nat BY NumbersAre DEF Codes
  <2>2. QED BY <1>1, <2>1, WrittenWhole
<1>3. SP \in Token /\ w \in Token BY DelimitersAre, OwnTokens
<1>4. EncodeStatus(c) = (a \o b) \o EOL BY <1>1, <1>2 DEF EncodeStatus
<1> HIDE DEF n, w
<1>5. a \in Seq(Token) /\ b \in Seq(Token) BY <1>2, <1>3
<1>6. EOL \in Seq(Token) BY DelimitersAre DEF EOL
<1>7. End(u) \in Text /\ EOL \o u = End(u) BY EndIs
<1>8. b \o End(u) = Before(SP, Before(w, End(u))) BY <1>3, <1>7, TwoBefore
<1>9. u \in Seq(Token) /\ End(u) \in Seq(Token) BY <1>7 DEF Text
<1>10. a \o (b \o End(u)) = Before(n, Before(SP, Before(w, End(u)))) BY <1>8 DEF Before
<1> HIDE DEF a, b
<1>11. a \o b \in Seq(Token) /\ (a \o b) \o EOL \in Seq(Token) BY <1>5, <1>6, ConcatProperties
<1>12. ((a \o b) \o EOL) \o u = (a \o b) \o (EOL \o u) BY <1>6, <1>9, <1>11, Associative, ZenonT(60)
<1>13. (a \o b) \o End(u) = a \o (b \o End(u)) BY <1>5, <1>9, Associative, ZenonT(60)
<1>14. QED BY <1>4, <1>7, <1>10, <1>11, <1>12, <1>13 DEF n, w

\* A line that ends with a text of any number of tokens.
LEMMA TextLine ==
  ASSUME NEW a \in Seq(Token), NEW s \in Seq(Token), NEW u \in Text
  PROVE  /\ (a \o s) \o EOL \in Seq(Token) /\ s \o End(u) \in Text
         /\ ((a \o s) \o EOL) \o u = a \o (s \o End(u))
<1>1. EOL \in Seq(Token) BY DelimitersAre DEF EOL
<1>2. End(u) \in Text /\ EOL \o u = End(u) BY EndIs
<1>3. u \in Seq(Token) /\ End(u) \in Seq(Token) BY <1>2 DEF Text
<1>4. a \o s \in Seq(Token) /\ (a \o s) \o EOL \in Seq(Token) BY <1>1, ConcatProperties
<1>5. ((a \o s) \o EOL) \o u = (a \o s) \o (EOL \o u)
  <2> DEFINE p == a \o s
  <2>1. p \in Seq(Token) BY <1>4
  <2> HIDE DEF p
  <2>2. (p \o EOL) \o u = p \o (EOL \o u) BY <1>1, <1>3, <2>1, Associative, ZenonT(60)
  <2>3. QED BY <2>2 DEF p
<1>6. (a \o s) \o End(u) = a \o (s \o End(u)) BY <1>3, Associative, ZenonT(60)
<1>7. QED BY <1>2, <1>4, <1>5, <1>6, JoinedText

LEMMA CallIDLayout ==
  ASSUME NEW s \in Seq(Token), NEW u \in Text
  PROVE  /\ EncodeCallID(s) \in Seq(Token)
         /\ EncodeCallID(s) \o u = HeaderBefore("CallID", s \o End(u))
<1> DEFINE a == <<Name("CallID"), COLON, SP>>
<1>1. "CallID" \in Headers BY HeadersAre
<1>2. Name("CallID") \in Token /\ COLON \in Token /\ SP \in Token
  BY <1>1, HeadersAre, NamesAre, DelimitersAre
<1>3. a \in Seq(Token) BY <1>2
<1>4. EncodeCallID(s) = (a \o s) \o EOL BY DEF EncodeCallID
<1>5. s \o End(u) \in Text BY <1>3, TextLine
<1>6. a \o (s \o End(u)) = HeaderBefore("CallID", s \o End(u)) BY <1>1, <1>5, HeaderBeforeIs
<1> HIDE DEF a
<1>7. ((a \o s) \o EOL) \o u = a \o (s \o End(u)) /\ (a \o s) \o EOL \in Seq(Token)
  BY <1>3, TextLine
<1>8. QED BY <1>4, <1>6, <1>7

LEMMA CSeqLayout ==
  ASSUME NEW n \in Int, NEW s \in Seq(Token), NEW u \in Text
  PROVE  /\ EncodeCSeq(n, s) \in Seq(Token)
         /\ EncodeCSeq(n, s) \o u =
              HeaderBefore("CSeq", Before(Num(n), Before(SP, s \o End(u))))
<1> DEFINE t == Num(n)
           h == Name("CSeq")
           a == <<h, COLON, SP, t, SP>>
<1>1. t \in Token /\ t.len <= 11
  <2>1. t \in Values /\ t.len \in 1 .. 11 BY NumIs
  <2> HIDE DEF t
  <2>2. t \in Token BY <2>1, ValueIs
  <2>3. QED BY <2>1, <2>2
<1>2. Written(t, 11) = t
  <2>1. 11 \in Nat OBVIOUS
  <2>2. QED BY <1>1, <2>1, WrittenWhole
<1>3. h \in Token /\ COLON \in Token /\ SP \in Token BY HeadersAre, NamesAre, DelimitersAre
<1>4. EncodeCSeq(n, s) = (a \o s) \o EOL BY <1>2 DEF EncodeCSeq
<1> HIDE DEF t, h
<1>5. a \in Seq(Token) BY <1>1, <1>3
<1>6. s \o End(u) \in Text BY <1>5, TextLine
<1>7. a \o (s \o End(u)) = Before(h, Before(COLON, Before(SP, Before(t, Before(SP, s \o End(u))))))
  <2> DEFINE v == s \o End(u)
  <2>1. v \in Text BY <1>6
  <2> HIDE DEF v
  <2>2. a \o v = Before(h, Before(COLON, Before(SP, Before(t, Before(SP, v)))))
    BY <1>1, <1>3, <2>1, FiveBefore
  <2>3. QED BY <2>2 DEF v
<1> HIDE DEF a
<1>8. ((a \o s) \o EOL) \o u = a \o (s \o End(u)) /\ (a \o s) \o EOL \in Seq(Token)
  BY <1>5, TextLine
<1>9. QED BY <1>4, <1>7, <1>8 DEF t, h, HeaderBefore

LEMMA MediaLayout ==
  ASSUME NEW u \in Text
  PROVE  LET m == EncodeMedia(<<<<IPText>>, LocalPort>>)
         IN  /\ m \in Seq(Token)
             /\ m \o u = HeaderBefore("Media",
                            Before(IPText, Before(COLON, Before(Num(LocalPort), End(u)))))
<1> DEFINE m == EncodeMedia(<<<<IPText>>, LocalPort>>)
           t == Num(LocalPort)
           a == <<Name("Media"), COLON, SP>>
           b == <<IPText>>
           c == <<COLON, t>>
           v == Before(COLON, Before(t, End(u)))
<1>1. "Media" \in Headers BY HeadersAre
<1>2. LocalPort \in Int BY DEF LocalPort
<1>3. t \in Token /\ Written(t, 5) = t
  <2>1. Num(LocalPort).len <= 5 /\ 5 \in Nat BY NumbersAre
  <2>2. QED BY <1>2, <2>1, WrittenWhole
<1>4. Name("Media") \in Token /\ COLON \in Token /\ SP \in Token /\ IPText \in Token
  BY <1>1, HeadersAre, NamesAre, DelimitersAre, OwnTokens
<1>5. m = ((a \o b) \o c) \o EOL
  <2> DEFINE media == <<<<IPText>>, LocalPort>>
  <2>1. media # <<>> /\ media[1] = b /\ media[2] = LocalPort OBVIOUS
  <2>2. QED BY <1>3, <2>1 DEF EncodeMedia
<1> HIDE DEF m, t
<1>6. a \in Seq(Token) /\ b \in Seq(Token) /\ c \in Seq(Token) BY <1>3, <1>4
<1>7. End(u) \in Text BY EndIs
<1>8. c \o End(u) = v BY <1>3, <1>4, <1>7, TwoBefore
<1>9. b \o v = Before(IPText, v) BY DEF Before
<1>10. v \in Text
  <2>1. Before(t, End(u)) \in Text BY <1>3, <1>7, BeforeIs
  <2>2. QED BY <1>4, <2>1, BeforeIs
<1>11. Before(IPText, v) \in Text BY <1>4, <1>10, BeforeIs
<1>12. a \o Before(IPText, v) = HeaderBefore("Media", Before(IPText, v))
  BY <1>1, <1>11, HeaderBeforeIs
<1>13. v \in Seq(Token) BY <1>10 DEF Text
<1> HIDE DEF a, b, c, v
<1>14. a \o b \in Seq(Token) BY <1>6, ConcatProperties
<1>15. m \in Seq(Token) /\ m \o u = (a \o b) \o (c \o End(u)) BY <1>5, <1>6, <1>14, TextLine
<1>16. (a \o b) \o v = a \o (b \o v) BY <1>6, <1>13, Associative, ZenonT(60)
<1>17. QED BY <1>8, <1>9, <1>12, <1>15, <1>16 DEF m, t, v

LEMMA LengthLayout ==
  ASSUME NEW n \in Bodies, NEW u \in Text
  PROVE  /\ EncodeCntLength(n) \in Seq(Token)
         /\ EncodeCntLength(n) \o u = HeaderBefore("ContentLength", Before(Num(n), End(u)))
<1> DEFINE t == Num(n)
           h == Name("ContentLength")
           a == <<h, COLON, SP, t>>
<1>1. n \in Int /\ n # 0 BY DEF Bodies
<1>2. t.len <= 5 BY NumbersAre DEF Bodies
<1>3. t \in Token /\ Written(t, 5) = t
  <2>1. 5 \in Nat OBVIOUS
  <2>2. QED BY <1>1, <1>2, <2>1, WrittenWhole
<1>4. h \in Token /\ COLON \in Token /\ SP \in Token BY HeadersAre, NamesAre, DelimitersAre
<1>5. EncodeCntLength(n) = a \o EOL BY <1>1, <1>3 DEF EncodeCntLength
<1> HIDE DEF t, h
<1>6. a \in Seq(Token) BY <1>3, <1>4
<1>7. End(u) \in Text /\ EOL \o u = End(u) BY EndIs
<1>8. a \o End(u) = Before(h, Before(COLON, Before(SP, Before(t, End(u)))))
  BY <1>3, <1>4, <1>7, FourBefore
<1>9. EOL \in Seq(Token) /\ u \in Seq(Token) BY DelimitersAre DEF EOL, Text
<1> HIDE DEF a
<1>10. a \o EOL \in Seq(Token) BY <1>6, <1>9, ConcatProperties
<1>11. (a \o EOL) \o u = a \o (EOL \o u) BY <1>6, <1>9, Associative, ZenonT(60)
<1>12. QED BY <1>5, <1>7, <1>8, <1>10, <1>11 DEF t, h, HeaderBefore

LEMMA ReplyLayout ==
  ASSUME NEW r \in Reply PROVE P_ComEncode(r) = ReplyText(r)
<1> DEFINE status == EncodeStatus(r.code)
           id == EncodeCallID(r.callid)
           seq == EncodeCSeq(r.seq, r.method)
           media == EncodeMedia(r.media)
           lth == EncodeCntLength(r.body)
           body == IF r.body = 0 THEN <<>> ELSE <<Word("body", r.body)>>
           nul == <<NUL>>
<1>1. /\ r.code \in {200, 400, 404, 486} /\ r.callid \in Seq(Token) /\ r.seq \in Int
      /\ r.method \in Seq(Token) /\ (r.media # <<>> => r.media = <<<<IPText>>, LocalPort>>)
      /\ (r.body # 0 => r.body \in {20, 1023})
  BY DEF Reply
<1>2. /\ BodyText(r) \in Text /\ ToEnd(r) \in Text /\ ToLength(r) \in Text /\ ToMedia(r) \in Text
      /\ ToSeq(r) \in Text /\ ToID(r) \in Text
  BY ReplyTexts
<1>3. /\ BodyText(r) \in Seq(Token) /\ ToEnd(r) \in Seq(Token) /\ ToLength(r) \in Seq(Token)
      /\ ToMedia(r) \in Seq(Token) /\ ToSeq(r) \in Seq(Token) /\ ToID(r) \in Seq(Token)
  BY <1>2 DEF Text
<1>4. nul \in Seq(Token) BY EndOfText
<1>5. body \in Seq(Token) /\ body \o nul = BodyText(r)
  <2>1. CASE r.body = 0
    <3>1. <<>> \o nul = nul BY <1>4, ConcatEmptySeq
    <3>2. QED BY <2>1, <3>1 DEF BodyText
  <2>2. CASE r.body # 0
    <3>1. Word("body", r.body) \in Token BY <1>1, <2>2, OwnTokens
    <3>2. QED BY <2>2, <3>1 DEF BodyText, Before
  <2>3. QED BY <2>1, <2>2
<1>6. EOL \in Seq(Token) /\ EOL \o BodyText(r) = ToEnd(r)
  BY <1>2, DelimitersAre, EndIs DEF EOL, ToEnd
<1>7. lth \in Seq(Token) /\ lth \o ToEnd(r) = ToLength(r)
  <2>1. CASE r.body = 0
    <3>1. lth = <<>> /\ ToLength(r) = ToEnd(r) BY <2>1 DEF EncodeCntLength, ToLength
    <3>2. <<>> \o ToEnd(r) = ToEnd(r) BY <1>3, ConcatEmptySeq
    <3>3. <<>> \in Seq(Token) OBVIOUS
    <3>4. QED BY <3>1, <3>2, <3>3, Zenon
  <2>2. CASE r.body # 0
    <3> DEFINE n == r.body
               u == ToEnd(r)
    <3>1. n \in Bodies /\ u \in Text BY <1>1, <1>2, <2>2 DEF Bodies
    <3>2. lth = EncodeCntLength(n) OBVIOUS
    <3>3. ToLength(r) = HeaderBefore("ContentLength", Before(Num(n), End(u)))
      BY <2>2 DEF ToLength, LengthLeft
    <3> HIDE DEF n, u, lth
    <3>4. lth \in Seq(Token) /\ lth \o u = ToLength(r) BY <3>1, <3>2, <3>3, LengthLayout
    <3>5. QED BY <3>4 DEF u
  <2>3. QED BY <2>1, <2>2
<1>8. media \in Seq(Token) /\ media \o ToLength(r) = ToMedia(r)
  <2>1. CASE r.media = <<>>
    <3>1. media = <<>> /\ ToMedia(r) = ToLength(r) BY <2>1 DEF EncodeMedia, ToMedia
    <3>2. <<>> \o ToLength(r) = ToLength(r) BY <1>3, ConcatEmptySeq
    <3>3. <<>> \in Seq(Token) OBVIOUS
    <3>4. QED BY <3>1, <3>2, <3>3, Zenon
  <2>2. CASE r.media # <<>>
    <3>1. media = EncodeMedia(<<<<IPText>>, LocalPort>>) BY <1>1, <2>2
    <3>2. EncodeMedia(<<<<IPText>>, LocalPort>>) \in Seq(Token)
          /\ EncodeMedia(<<<<IPText>>, LocalPort>>) \o ToLength(r)
               = HeaderBefore("Media", Before(IPText, Before(COLON,
                                         Before(Num(LocalPort), End(ToLength(r))))))
      BY <1>2, MediaLayout
    <3>3. ToMedia(r) = HeaderBefore("Media", Before(IPText, Before(COLON,
                                         Before(Num(LocalPort), End(ToLength(r))))))
      BY <2>2 DEF ToMedia, MediaLeft, PortLeft
    <3>4. QED BY <3>1, <3>2, <3>3, Zenon
  <2>3. QED BY <2>1, <2>2
<1>9. seq \in Seq(Token) /\ seq \o ToMedia(r) = ToSeq(r)
  <2> DEFINE n == r.seq
             s == r.method
             u == ToMedia(r)
  <2>1. n \in Int /\ s \in Seq(Token) /\ u \in Text BY <1>1, <1>2
  <2>2. seq = EncodeCSeq(n, s) OBVIOUS
  <2>3. ToSeq(r) = HeaderBefore("CSeq", Before(Num(n), Before(SP, s \o End(u))))
    BY DEF ToSeq, SeqLeft, MethodLeft
  <2> HIDE DEF n, s, u, seq
  <2>4. seq \in Seq(Token) /\ seq \o u = ToSeq(r) BY <2>1, <2>2, <2>3, CSeqLayout
  <2>5. QED BY <2>4 DEF u
<1>10. id \in Seq(Token) /\ id \o ToSeq(r) = ToID(r)
  <2>1. id \in Seq(Token)
        /\ id \o ToSeq(r) = HeaderBefore("CallID", r.callid \o End(ToSeq(r)))
    BY <1>1, <1>2, CallIDLayout
  <2>2. QED BY <2>1 DEF ToID, IDLeft
<1>11. status \in Seq(Token) /\ status \o ToID(r) = ReplyText(r)
  <2> DEFINE c == r.code
             u == ToID(r)
  <2>1. c \in Codes /\ u \in Text BY <1>1, <1>2 DEF Codes
  <2>2. status = EncodeStatus(c) OBVIOUS
  <2>3. ReplyText(r) = Before(Num(c), Before(SP, Before(Word("reason", 30), End(u))))
    BY DEF ReplyText, ReasonLeft
  <2> HIDE DEF c, u, status
  <2>4. status \in Seq(Token) /\ status \o u = ReplyText(r) BY <2>1, <2>2, <2>3, StatusLayout
  <2>5. QED BY <2>4 DEF u
<1>12. P_ComEncode(r)
         = ((((((status \o id) \o seq) \o media) \o lth) \o EOL) \o body) \o nul
  BY DEF P_ComEncode
<1> HIDE DEF status, id, seq, media, lth, body, nul
<1> DEFINE A == status \o id
           B == A \o seq
           C == B \o media
           D == C \o lth
           E == D \o EOL
<1>13. A \in Seq(Token) BY <1>10, <1>11, ConcatProperties
<1>14. P_ComEncode(r) = (E \o body) \o nul BY <1>12
<1>15. A \o ToSeq(r) = status \o (id \o ToSeq(r)) BY <1>3, <1>10, <1>11, Associative, ZenonT(60)
<1> HIDE DEF A
<1>16. B \in Seq(Token) BY <1>9, <1>13, ConcatProperties
<1>17. B \o ToMedia(r) = A \o (seq \o ToMedia(r)) BY <1>3, <1>9, <1>13, Associative, ZenonT(60)
<1> HIDE DEF B
<1>18. C \in Seq(Token) BY <1>8, <1>16, ConcatProperties
<1>19. C \o ToLength(r) = B \o (media \o ToLength(r))
  BY <1>3, <1>8, <1>16, Associative, ZenonT(60)
<1> HIDE DEF C
<1>20. D \in Seq(Token) BY <1>7, <1>18, ConcatProperties
<1>21. D \o ToEnd(r) = C \o (lth \o ToEnd(r)) BY <1>3, <1>7, <1>18, Associative, ZenonT(60)
<1> HIDE DEF D
<1>22. E \in Seq(Token) BY <1>6, <1>20, ConcatProperties
<1>23. E \o BodyText(r) = D \o (EOL \o BodyText(r)) BY <1>3, <1>6, <1>20, Associative, ZenonT(60)
<1> HIDE DEF E
<1>24. (E \o body) \o nul = E \o (body \o nul) BY <1>4, <1>5, <1>22, Associative, ZenonT(60)
<1>25. QED BY <1>5, <1>6, <1>7, <1>8, <1>9, <1>10, <1>11, <1>14, <1>15, <1>17, <1>19, <1>21, <1>23,
              <1>24, Zenon

\* A reply repeats of a request what its decoder has held, free of the end of a line.
\* In the 400 to a request that was not decoded that may be all its buffer takes, and
\* then the client refuses it as the server did.
TooWide(r) == Width(r.callid) = ID_TOKEN_LTH \/ Width(r.method) = METHOD_LTH

Answer ==
    {r \in Reply :
        /\ Width(r.callid) <= ID_TOKEN_LTH /\ Free(r.callid, {CR})
        /\ Width(r.method) <= METHOD_LTH /\ Free(r.method, {CR})
        /\ TooWide(r) => r.code = 400}

LEMMA NothingFits == Width(<<>>) = 0 /\ Free(<<>>, {CR})
BY WidthEmpty DEF Free

LEMMA FieldsOf ==
  /\ Fields["CallID"] = <<Field({CR}, ID_TOKEN_LTH, 2, "chars")>>
  /\ Fields["CSeq"] = <<Field({SP}, 11, 1, "dword"), Field({CR}, METHOD_LTH, 2, "chars")>>
  /\ Fields["Media"] = <<Field({COLON}, NODE_ADDR_LTH, 1, "chars"),
                         Field({CR}, HOST_PORT_LTH, 2, "word")>>
  /\ Fields["ContentLength"] = <<Field({CR}, 5, 2, "word")>>
  /\ Fields["StatusLine"] = <<Field({SP}, 4, 1, "word"), Field({CR}, REASON_LTH, 2, "string")>>
BY DEF Fields, DecodeCallID, DecodeCSeq, DecodeMedia, DecodeCntLength, StatusLine

\* What a reply repeats is what was held of the request, or nothing.
LEMMA RepeatedFits ==
  ASSUME Inv, NEW h \in DOMAIN Fields, NEW i \in 1 .. Len(Fields[h]),
         Fields[h][i].kind = "chars", Fields[h][i].stops = {CR},
         NEW x, x = FieldOr(h, i, <<>>)
  PROVE  /\ Width(x) <= Fields[h][i].limit /\ Free(x, {CR})
         /\ Width(x) = Fields[h][i].limit => pc = "failed"
<1> DEFINE f == Fields[h][i]
<1>1. \/ x = <<>>
      \/ Holds(f, x)
      \/ pc = "failed" /\ Full(f, x)
  BY FieldType DEF GaveUpAt
<1>2. f.kind = "chars" /\ f.stops = {CR} OBVIOUS
<1>3. f.limit \in Nat \ {0} BY FieldsAre
<1>4. x \in Seq(Token) BY TextOrNone
<1> HIDE DEF f
<1>5. Width(x) \in Nat BY <1>4, WidthType
<1>6. CASE x = <<>> BY <1>2, <1>3, <1>6, NothingFits DEF f
<1>7. CASE Holds(f, x)
  <2>1. Width(x) < f.limit /\ Free(x, {CR}) BY <1>2, <1>7 DEF Holds
  <2>2. QED BY <1>2, <1>3, <1>5, <2>1 DEF f
<1>8. CASE pc = "failed" /\ Full(f, x)
  <2>1. Width(x) = f.limit /\ Free(x, {CR}) BY <1>2, <1>8 DEF Full
  <2>2. QED BY <1>2, <1>3, <1>8, <2>1 DEF f
<1>9. QED BY <1>1, <1>6, <1>7, <1>8

LEMMA RepeatedFree ==
  ASSUME Inv, NEW h \in DOMAIN Fields, NEW i \in 1 .. Len(Fields[h]),
         Fields[h][i].kind = "chars", Fields[h][i].stops = {CR}
  PROVE  Free(FieldOr(h, i, <<>>), {CR})
<1> DEFINE x == FieldOr(h, i, <<>>)
<1>1. x = FieldOr(h, i, <<>>) OBVIOUS
<1> HIDE DEF x
<1>2. QED BY <1>1, RepeatedFits

LEMMA AnswerIs ==
  ASSUME Inv, NEW code \in {200, 400, 404, 486},
         NEW media \in {<<>>, <<<<IPText>>, LocalPort>>}, NEW body \in {0, 20, 1023},
         pc = "failed" => code = 400
  PROVE  ReplyTo(code, media, body) \in Answer
<1> DEFINE r == ReplyTo(code, media, body)
<1>1. r \in Reply BY ReplyIs
<1>2. /\ r.code = code
      /\ r.callid = FieldOr("CallID", 1, <<>>) /\ r.method = FieldOr("CSeq", 2, <<>>)
  BY DEF ReplyTo
<1> HIDE DEF r
<1>3. "CallID" \in DOMAIN Fields /\ "CSeq" \in DOMAIN Fields BY HeadersAre
<1>4. Width(r.callid) <= ID_TOKEN_LTH /\ Free(r.callid, {CR})
      /\ (Width(r.callid) = ID_TOKEN_LTH => pc = "failed")
  <2>1. Fields["CallID"][1] = Field({CR}, ID_TOKEN_LTH, 2, "chars") /\ Len(Fields["CallID"]) = 1
    BY FieldsOf
  <2>2. 1 \in 1 .. Len(Fields["CallID"]) BY <2>1
  <2> DEFINE h == "CallID"
             i == 1
  <2>3. /\ Fields[h][i].kind = "chars" /\ Fields[h][i].stops = {CR}
        /\ Fields[h][i].limit = ID_TOKEN_LTH
    BY <2>1, FieldIs
  <2>4. h \in DOMAIN Fields /\ i \in 1 .. Len(Fields[h]) BY <1>3, <2>2
  <2> DEFINE x == r.callid
  <2>5. x = FieldOr(h, i, <<>>) BY <1>2
  <2> HIDE DEF h, i, x
  <2>6. /\ Width(x) <= Fields[h][i].limit /\ Free(x, {CR})
        /\ Width(x) = Fields[h][i].limit => pc = "failed"
    <3>1. Width(x) <= Fields[h][i].limit /\ (Width(x) = Fields[h][i].limit => pc = "failed")
      BY <2>3, <2>4, <2>5, RepeatedFits
    <3>2. Fields[h][i].kind = "chars" BY <2>3
    <3>3. Fields[h][i].stops = {CR} BY <2>3
    <3>4. h \in DOMAIN Fields BY <2>4
    <3>5. i \in 1 .. Len(Fields[h]) BY <2>4
    <3>6. Free(x, {CR}) BY <2>5, <3>2, <3>3, <3>4, <3>5, RepeatedFree
    <3>7. QED BY <3>1, <3>6
  <2>7. QED BY <2>3, <2>6 DEF x
<1>5. Width(r.method) <= METHOD_LTH /\ Free(r.method, {CR})
      /\ (Width(r.method) = METHOD_LTH => pc = "failed")
  <2>1. Fields["CSeq"][2] = Field({CR}, METHOD_LTH, 2, "chars") /\ Len(Fields["CSeq"]) = 2
    BY FieldsOf
  <2>2. 2 \in 1 .. Len(Fields["CSeq"]) BY <2>1
  <2> DEFINE h == "CSeq"
             i == 2
  <2>3. /\ Fields[h][i].kind = "chars" /\ Fields[h][i].stops = {CR}
        /\ Fields[h][i].limit = METHOD_LTH
    BY <2>1, FieldIs
  <2>4. h \in DOMAIN Fields /\ i \in 1 .. Len(Fields[h]) BY <1>3, <2>2
  <2> DEFINE x == r.method
  <2>5. x = FieldOr(h, i, <<>>) BY <1>2
  <2> HIDE DEF h, i, x
  <2>6. /\ Width(x) <= Fields[h][i].limit /\ Free(x, {CR})
        /\ Width(x) = Fields[h][i].limit => pc = "failed"
    <3>1. Width(x) <= Fields[h][i].limit /\ (Width(x) = Fields[h][i].limit => pc = "failed")
      BY <2>3, <2>4, <2>5, RepeatedFits
    <3>2. Fields[h][i].kind = "chars" BY <2>3
    <3>3. Fields[h][i].stops = {CR} BY <2>3
    <3>4. h \in DOMAIN Fields BY <2>4
    <3>5. i \in 1 .. Len(Fields[h]) BY <2>4
    <3>6. Free(x, {CR}) BY <2>5, <3>2, <3>3, <3>4, <3>5, RepeatedFree
    <3>7. QED BY <3>1, <3>6
  <2>7. QED BY <2>3, <2>6 DEF x
<1>6. TooWide(r) => r.code = 400 BY <1>2, <1>4, <1>5 DEF TooWide
<1>7. r \in Answer BY <1>1, <1>4, <1>5, <1>6 DEF Answer
<1>8. QED BY <1>7 DEF r

-----------------------------------------------------------------------------
(***************************************************************************)
(* Where the decoder of the client is in a reply, and what it has read.    *)
(***************************************************************************)

\* What the headers of a reply say.
Told(r) ==
    [CallID |-> <<r.callid>>, CSeq |-> <<r.seq, r.method>>, Media |-> r.media,
     ContentLength |-> IF r.body = 0 THEN <<>> ELSE <<r.body>>,
     From |-> <<>>, Event |-> <<>>, UserAgent |-> <<>>]

\* The headers of H have been read, and h has perhaps.
HeardBut(r, g, H, h) ==
    /\ g["StatusLine"][1] = r.code
    /\ \A x \in Headers \ {h} : g[x] = IF x \in H THEN Told(r)[x] ELSE <<>>

Heard(r, g, H) ==
    /\ g["StatusLine"][1] = r.code
    /\ \A x \in Headers : g[x] = IF x \in H THEN Told(r)[x] ELSE <<>>

\* In front of the values v of the header h those of H have been read.
Stage(r, h, v, H) ==
    \/ h = "CallID" /\ v = IDLeft(r) /\ H = {}
    \/ h = "CSeq" /\ v = SeqLeft(r) /\ H = {"CallID"}
    \/ h = "Media" /\ v = MediaLeft(r) /\ H = {"CallID", "CSeq"} /\ r.media # <<>>
    \/ h = "ContentLength" /\ v = LengthLeft(r) /\ H = Headers \ {"ContentLength"} /\ r.body # 0

InStatusLine(r, f, s, g) ==
    \/ f = 1 /\ s = ReplyText(r) /\ \A h \in DOMAIN Fields : g[h] = <<>>
    \/ f = 2 /\ s = ReasonLeft(r) /\ g["StatusLine"] = <<r.code>>
       /\ \A h \in Headers : g[h] = <<>>

AtHeader(r, s, g) ==
    \/ \E h, v, H : Stage(r, h, v, H) /\ s = HeaderBefore(h, v) /\ Heard(r, g, H)
    \/ s = ToEnd(r) /\ Heard(r, g, Headers)

InHeader(r, h, f, s, g) ==
    \/ f = 1 /\ \E H : Stage(r, h, s, H) /\ Heard(r, g, H)
    \/ f = 2 /\ h = "CSeq" /\ s = MethodLeft(r)
       /\ HeardBut(r, g, {"CallID"}, "CSeq") /\ g["CSeq"] = <<r.seq>>
    \/ f = 2 /\ h = "Media" /\ s = PortLeft(r) /\ r.media # <<>>
       /\ HeardBut(r, g, {"CallID", "CSeq"}, "Media") /\ g["Media"] = <<<<IPText>>>>

HeardPlace(r, p, h, f, s, g) ==
    \/ p = "start" /\ s = ReplyText(r) /\ \A x \in DOMAIN Fields : g[x] = <<>>
    \/ p = "field" /\ h = "StatusLine" /\ InStatusLine(r, f, s, g)
    \/ p = "name" /\ AtHeader(r, s, g)
    \/ p = "field" /\ h \in Headers /\ InHeader(r, h, f, s, g)
    \/ p = "done" /\ Heard(r, g, Headers)
    \/ p = "failed" /\ (Num(r.seq).len >= 11 \/ TooWide(r))

Hears == AtClient => reply \in Answer /\ HeardPlace(reply, pc, hdr, field, rest, got)

\* A header that is left out has nothing to say.
LEMMA LengthPassed ==
  ASSUME NEW r, NEW g, Heard(r, g, Headers \ {"ContentLength"}) PROVE AtHeader(r, ToLength(r), g)
<1>1. CASE r.body # 0
  <2>1. Stage(r, "ContentLength", LengthLeft(r), Headers \ {"ContentLength"})
    BY <1>1 DEF Stage
  <2>2. ToLength(r) = HeaderBefore("ContentLength", LengthLeft(r)) BY <1>1 DEF ToLength
  <2>3. QED BY <2>1, <2>2 DEF AtHeader
<1>2. CASE r.body = 0
  <2>1. ToLength(r) = ToEnd(r) BY <1>2 DEF ToLength
  <2>2. Told(r)["ContentLength"] = <<>> BY <1>2 DEF Told
  <2>3. Heard(r, g, Headers) BY <2>2 DEF Heard
  <2>4. QED BY <2>1, <2>3 DEF AtHeader
<1>3. QED BY <1>1, <1>2

LEMMA MediaPassed ==
  ASSUME NEW r, NEW g, Heard(r, g, {"CallID", "CSeq"}) PROVE AtHeader(r, ToMedia(r), g)
<1>1. CASE r.media # <<>>
  <2>1. Stage(r, "Media", MediaLeft(r), {"CallID", "CSeq"}) BY <1>1 DEF Stage
  <2>2. ToMedia(r) = HeaderBefore("Media", MediaLeft(r)) BY <1>1 DEF ToMedia
  <2>3. QED BY <2>1, <2>2 DEF AtHeader
<1>2. CASE r.media = <<>>
  <2>1. ToMedia(r) = ToLength(r) BY <1>2 DEF ToMedia
  <2>2. /\ Told(r)["Media"] = <<>> /\ Told(r)["From"] = <<>>
        /\ Told(r)["Event"] = <<>> /\ Told(r)["UserAgent"] = <<>>
    BY <1>2 DEF Told
  <2>3. \A x \in Headers :
          x \in {"CallID", "CSeq"} \/ x \in {"Media", "From", "Event", "UserAgent"}
            \/ x = "ContentLength"
    BY HeadersAre
  <2>4. "ContentLength" \notin {"CallID", "CSeq"} OBVIOUS
  <2>5. Heard(r, g, Headers \ {"ContentLength"})
    BY <2>2, <2>3, <2>4, HeadersAre DEF Heard
  <2>6. QED BY <2>1, <2>5, LengthPassed
<1>3. QED BY <1>1, <1>2

-----------------------------------------------------------------------------
(***************************************************************************)
(* What is ahead of the cursor in a reply: the value s, and w behind it.   *)
(***************************************************************************)
Ahead(s, w) ==
    LET f == Fields[hdr][field]
    IN  /\ s \in Seq(Token) /\ w \in Text /\ rest = s \o w
        /\ f.kind # "host" /\ Free(s, f.stops) /\ Head(w) \in f.stops /\ Head(w) # NUL

LEMMA AheadIs ==
  ASSUME NEW s, NEW w, Ahead(s, w)
  PROVE  LET f == Fields[hdr][field]
         IN  /\ Taken(rest, f.stops) = s /\ After(rest, f.stops) = w
             /\ FieldFits <=> Width(s) < f.limit
<1> DEFINE f == Fields[hdr][field]
<1>1. /\ s \in Seq(Token) /\ w \in Text /\ rest = s \o w
      /\ f.kind # "host" /\ Free(s, f.stops) /\ Head(w) \in f.stops /\ Head(w) # NUL
  BY DEF Ahead
<1>2. FieldFits <=> IF f.kind = "host" THEN Width(Taken(rest, f.stops)) < f.limit
                                       ELSE Fits(rest, f.stops, f.limit)
  BY DEF FieldFits
<1> HIDE DEF f
<1>3. Head(w) \in f.stops \cup {NUL} BY <1>1
<1>4. Taken(rest, f.stops) = s /\ After(rest, f.stops) = w BY <1>1, <1>3, TakenIs
<1>5. FieldFits <=> Width(s) < f.limit BY <1>1, <1>2, <1>4 DEF Fits
<1>6. QED BY <1>4, <1>5 DEF f

LEMMA AheadRead ==
  ASSUME Inv, ReadField, NEW s, NEW w, Ahead(s, w)
  PROVE  LET f == Fields[hdr][field]
             value == Value(f.kind, <<>>, s)
         IN  /\ hdr' = hdr /\ rest' = Skip(w, f.skip)
             /\ field = Len(Fields[hdr]) => pc' = "name"
             /\ field # Len(Fields[hdr]) => pc' = "field" /\ field' = field + 1
             /\ \A h \in DOMAIN Fields : h # hdr => got'[h] = got[h]
             /\ got[hdr] = <<>> /\ field = 1 => got'[hdr] = <<value>>
             /\ \A x : got[hdr] = <<x>> /\ field = 2 => got'[hdr] = <<x, value>>
<1> DEFINE f == Fields[hdr][field]
           old == IF field <= Len(got[hdr]) THEN got[hdr][field] ELSE <<>>
<1>1. Taken(rest, f.stops) = s /\ After(rest, f.stops) = w BY AheadIs
<1>2. /\ hdr' = hdr /\ rest' = Skip(w, f.skip)
      /\ field = Len(Fields[hdr]) => pc' = "name"
      /\ field # Len(Fields[hdr]) => pc' = "field" /\ field' = field + 1
  BY <1>1, FieldRead
<1>3. /\ \A h \in DOMAIN Fields : h # hdr => got'[h] = got[h]
      /\ got[hdr] = <<>> /\ field = 1 =>
           got'[hdr] = <<Value(f.kind, old, Taken(rest, f.stops))>> /\ old = <<>>
      /\ \A x : got[hdr] = <<x>> /\ field = 2 =>
           got'[hdr] = <<x, Value(f.kind, old, Taken(rest, f.stops))>> /\ old = <<>>
  BY StoredIs
<1> HIDE DEF f, old
<1>4. QED BY <1>1, <1>2, <1>3 DEF f

\* One token, up to one of the delimiters.
LEMMA TokenAhead ==
  ASSUME NEW t \in Token, t \notin Chars, NEW w \in Text, rest = Before(t, w),
         NEW c \in Chars, c # NUL, Head(w) = c, NEW k, k # "host", NEW n, NEW i,
         Fields[hdr][field] = Field({c}, n, i, k)
  PROVE  Ahead(<<t>>, w) /\ Width(<<t>>) = t.len
<1> DEFINE f == Fields[hdr][field]
<1>1. f.stops = {c} /\ f.kind = k BY FieldIs
<1>2. t \notin {c} \cup {NUL} BY DEF Chars
<1>3. <<t>> \in Seq(Token) /\ Len(<<t>>) = 1 /\ <<t>>[1] = t OBVIOUS
<1>4. Free(<<t>>, {c}) BY <1>2, <1>3 DEF Free
<1>5. rest = <<t>> \o w BY DEF Before
<1> HIDE DEF f
<1>6. f.kind # "host" /\ Free(<<t>>, f.stops) /\ Head(w) \in f.stops /\ Head(w) # NUL
  BY <1>1, <1>4
<1>7. Ahead(<<t>>, w) BY <1>3, <1>5, <1>6 DEF Ahead, f
<1>8. QED BY <1>7, WidthOne

\* What reading the value v does when u is behind it.
Reads(v, u) ==
    /\ hdr' = hdr /\ rest' = u
    /\ field = Len(Fields[hdr]) => pc' = "name"
    /\ field # Len(Fields[hdr]) => pc' = "field" /\ field' = field + 1
    /\ \A h \in DOMAIN Fields : h # hdr => got'[h] = got[h]
    /\ got[hdr] = <<>> /\ field = 1 => got'[hdr] = <<v>>
    /\ \A x : got[hdr] = <<x>> /\ field = 2 => got'[hdr] = <<x, v>>

LEMMA AheadReads ==
  ASSUME Inv, ReadField, NEW s, NEW w, Ahead(s, w), NEW a, NEW n, NEW i, NEW k,
         Fields[hdr][field] = Field(a, n, i, k), NEW u, Skip(w, i) = u
  PROVE  Reads(Value(k, <<>>, s), u)
<1> DEFINE f == Fields[hdr][field]
<1>1. f.skip = i /\ f.kind = k BY FieldIs
<1> DEFINE v == Value(f.kind, <<>>, s)
<1>2. /\ hdr' = hdr /\ rest' = Skip(w, f.skip)
      /\ field = Len(Fields[hdr]) => pc' = "name"
      /\ field # Len(Fields[hdr]) => pc' = "field" /\ field' = field + 1
      /\ \A h \in DOMAIN Fields : h # hdr => got'[h] = got[h]
      /\ got[hdr] = <<>> /\ field = 1 => got'[hdr] = <<v>>
      /\ \A x : got[hdr] = <<x>> /\ field = 2 => got'[hdr] = <<x, v>>
  BY AheadRead
<1>3. v = Value(k, <<>>, s) BY <1>1
<1> HIDE DEF f, v
<1>4. QED BY <1>1, <1>2, <1>3 DEF Reads

\* One token up to a delimiter inside a line.
LEMMA TokenSpot ==
  ASSUME NEW t \in Token, t \notin Chars, NEW c \in Chars, c # NUL, NEW u \in Text,
         rest = Before(t, Before(c, u)), NEW n, NEW k, k # "host",
         Fields[hdr][field] = Field({c}, n, 1, k)
  PROVE  /\ FieldFits <=> t.len < n
         /\ Inv /\ ReadField => Reads(Value(k, <<>>, <<t>>), u)
<1>1. c \in Token BY CharsAreTokens
<1> DEFINE w == Before(c, u)
<1>2. w \in Text /\ Head(w) = c BY <1>1, BeforeIs
<1>3. Skip(w, 1) = u BY SkipOne
<1>4. rest = Before(t, w) OBVIOUS
<1> HIDE DEF w
<1>5. Ahead(<<t>>, w) /\ Width(<<t>>) = t.len BY <1>2, <1>4, TokenAhead
<1>6. Fields[hdr][field].limit = n BY FieldIs
<1>7. FieldFits <=> t.len < n BY <1>5, <1>6, AheadIs
<1>8. Inv /\ ReadField => Reads(Value(k, <<>>, <<t>>), u) BY <1>3, <1>5, AheadReads
<1>9. QED BY <1>7, <1>8

\* Any tokens up to the end of the line.
LEMMA TextSpot ==
  ASSUME NEW s \in Seq(Token), Free(s, {CR}), NEW u \in Text, rest = s \o End(u),
         NEW n, NEW k, k # "host", Fields[hdr][field] = Field({CR}, n, 2, k)
  PROVE  /\ FieldFits <=> Width(s) < n
         /\ Inv /\ ReadField => Reads(Value(k, <<>>, s), u)
<1> DEFINE f == Fields[hdr][field]
<1>1. f.stops = {CR} /\ f.kind = k /\ f.limit = n BY FieldIs
<1>2. CR \in Chars /\ CR # NUL /\ LF \in Chars /\ LF # NUL BY DelimitersAre
<1>3. End(u) \in Text /\ Head(End(u)) = CR BY EndIs
<1>4. Skip(End(u), 2) = u BY <1>2, SkipTwo DEF End
<1>5. Ahead(s, End(u)) BY <1>1, <1>2, <1>3 DEF Ahead
<1>6. FieldFits <=> Width(s) < n BY <1>1, <1>5, AheadIs
<1> HIDE DEF f
<1>7. Inv /\ ReadField => Reads(Value(k, <<>>, s), u) BY <1>4, <1>5, AheadReads
<1>8. QED BY <1>6, <1>7

\* One token up to the end of the line.
LEMMA LastTokenSpot ==
  ASSUME NEW t \in Token, t \notin Chars, NEW u \in Text, rest = Before(t, End(u)),
         NEW n, NEW k, k # "host", Fields[hdr][field] = Field({CR}, n, 2, k)
  PROVE  /\ FieldFits <=> t.len < n
         /\ Inv /\ ReadField => Reads(Value(k, <<>>, <<t>>), u)
<1>1. t \notin {CR} \cup {NUL} BY DEF Chars
<1>2. <<t>> \in Seq(Token) /\ Len(<<t>>) = 1 /\ <<t>>[1] = t OBVIOUS
<1>3. Free(<<t>>, {CR}) BY <1>1, <1>2 DEF Free
<1>4. rest = <<t>> \o End(u) BY DEF Before
<1>5. Width(<<t>>) = t.len BY WidthOne
<1> DEFINE s == <<t>>
<1> HIDE DEF s
<1>6. s \in Seq(Token) /\ Free(s, {CR}) /\ rest = s \o End(u) /\ Width(s) = t.len
  BY <1>2, <1>3, <1>4, <1>5 DEF s
<1>7. FieldFits <=> Width(s) < n BY <1>6, TextSpot
<1>8. Inv /\ ReadField => Reads(Value(k, <<>>, s), u) BY <1>6, TextSpot
<1>9. QED BY <1>6, <1>7, <1>8 DEF s

\* The name of a header, with the values v behind it.
LEMMA NameAhead ==
  ASSUME NEW h \in Headers, NEW v \in Text, rest = HeaderBefore(h, v)
  PROVE  /\ Head(rest) \notin {CR, NUL}
         /\ \A x \in Headers : Named(x) <=> x = h
         /\ ReadHCOLON(After(rest, {COLON, SP})) = v
<1> DEFINE stops == {COLON, SP}
           n == Name(h)
           w == Before(COLON, Before(SP, v))
<1>1. n \in Token /\ n \notin Chars /\ n.len \in 1 .. 14 /\ n.word = h
  <2>1. h \in DOMAIN NameLth BY HeadersAre
  <2>2. NameLth[h] \in 1 .. 14 BY <2>1 DEF NameLth
  <2>3. NameLth[h] \in Nat \ {0} BY <2>2
  <2>4. h \in Words \cup OwnWords BY <2>1 DEF OwnWords
  <2>5. QED BY <2>1, <2>3, <2>4, NamesAre, WordIs DEF Name
<1>2. n \notin stops \cup {NUL} /\ n \notin {CR, NUL} BY <1>1 DEF Chars
<1>3. SP \in Chars \ {NUL} /\ COLON \in Chars \ {NUL} /\ SP \in Token /\ COLON \in Token
  BY DelimitersAre
<1>4. Before(SP, v) \in Text /\ Head(Before(SP, v)) = SP BY <1>3, BeforeIs
<1>5. w \in Text /\ Head(w) = COLON /\ w[2] = SP BY <1>3, <1>4, BeforeIs
<1>6. Skip(w, 2) = v BY <1>3, SkipTwo
<1>7. rest = Before(n, w) BY DEF HeaderBefore
<1>8. COLON \in stops OBVIOUS
<1> HIDE DEF n, stops, w
<1>9. Head(rest) = n BY <1>1, <1>5, <1>7, BeforeIs
<1>10. Taken(rest, stops) = <<n>> /\ After(rest, stops) = w
  BY <1>1, <1>2, <1>5, <1>7, <1>8, TakenOne
<1>11. Width(Taken(rest, stops)) < HNAME_LTH
  <2>1. Width(<<n>>) = n.len BY <1>1, WidthOne
  <2>2. QED BY <1>1, <1>10, <2>1 DEF HNAME_LTH
<1>12. ASSUME NEW x \in Headers PROVE Named(x) <=> x = h
  <2>1. Named(x) <=> <<n>> = <<Name(x)>>
    BY <1>3, <1>5, <1>10, <1>11 DEF Named, Fits, stops
  <2>2. Name(x).word = x BY NamesAre, HeadersAre
  <2>3. <<n>> = <<Name(x)>> <=> n = Name(x) OBVIOUS
  <2>4. QED BY <1>1, <2>1, <2>2, <2>3 DEF n
<1>13. ReadHCOLON(w) = v BY <1>5, <1>6 DEF ReadHCOLON
<1>14. QED BY <1>2, <1>9, <1>10, <1>12, <1>13 DEF stops

-----------------------------------------------------------------------------
(***************************************************************************)
(* The values of a reply, one by one.                                      *)
(***************************************************************************)
LEMMA AnswerHas ==
  ASSUME NEW r \in Answer
  PROVE  /\ r \in Reply /\ r.code \in {200, 400, 404, 486} /\ r.code \in Int
         /\ r.seq \in Int /\ r.media \in {<<>>, <<<<IPText>>, LocalPort>>}
         /\ r.body # 0 => r.body \in {20, 1023} /\ r.body \in Int
BY DEF Answer, Reply

LEMMA AnswerTexts ==
  ASSUME NEW r \in Answer
  PROVE  /\ r \in Reply /\ r.callid \in Seq(Token) /\ r.method \in Seq(Token)
         /\ Width(r.callid) <= ID_TOKEN_LTH /\ Free(r.callid, {CR})
         /\ Width(r.method) <= METHOD_LTH /\ Free(r.method, {CR})
BY DEF Answer, Reply

LEMMA NumbersAreTokens ==
  \A n \in Int : Num(n) \in Token /\ Num(n) \notin Chars
BY NumIs, ValueIs

LEMMA CodeSpot ==
  ASSUME NEW r \in Answer, hdr = "StatusLine", field = 1, rest = ReplyText(r)
  PROVE  FieldFits /\ (Inv /\ ReadField => Reads(r.code, ReasonLeft(r)))
<1> DEFINE t == Num(r.code)
           u == ReasonLeft(r)
<1>1. r \in Reply /\ r.code \in {200, 400, 404, 486} /\ r.code \in Int BY AnswerHas
<1>2. t \in Token /\ t \notin Chars BY <1>1, NumbersAreTokens
<1>3. Value("word", <<>>, <<t>>) = r.code BY <1>1, PlainNumber
<1>4. t.len = 3 BY <1>1, NumbersAre
<1>5. Fields[hdr][field] = Field({SP}, 4, 1, "word") BY FieldsOf
<1>6. u \in Text BY <1>1, ReplyTexts
<1>7. SP \in Chars /\ SP # NUL BY DelimitersAre
<1>8. rest = Before(t, Before(SP, u)) BY DEF ReplyText
<1> HIDE DEF t, u
<1>9. FieldFits <=> t.len < 4 BY <1>2, <1>5, <1>6, <1>7, <1>8, TokenSpot
<1>10. Inv /\ ReadField => Reads(Value("word", <<>>, <<t>>), u)
  BY <1>2, <1>5, <1>6, <1>7, <1>8, TokenSpot
<1>11. QED BY <1>3, <1>4, <1>9, <1>10 DEF u

LEMMA ReasonSpot ==
  ASSUME NEW r \in Answer, hdr = "StatusLine", field = 2, rest = ReasonLeft(r)
  PROVE  FieldFits /\ (Inv /\ ReadField => \E v : Reads(v, ToID(r)))
<1> DEFINE t == Word("reason", 30)
           u == ToID(r)
<1>1. r \in Reply BY AnswerHas
<1>2. t \in Token /\ t \notin Chars /\ t.len = 30 BY OwnTokens
<1>3. Fields[hdr][field] = Field({CR}, REASON_LTH, 2, "string") BY FieldsOf
<1>4. u \in Text BY <1>1, ReplyTexts
<1>5. rest = Before(t, End(u)) BY DEF ReasonLeft
<1> HIDE DEF t, u
<1>6. FieldFits <=> t.len < REASON_LTH BY <1>2, <1>3, <1>4, <1>5, LastTokenSpot
<1>7. FieldFits BY <1>2, <1>6 DEF REASON_LTH
<1>8. Inv /\ ReadField => Reads(Value("string", <<>>, <<t>>), u)
  BY <1>2, <1>3, <1>4, <1>5, LastTokenSpot
<1>9. QED BY <1>7, <1>8 DEF u

LEMMA CallIDSpot ==
  ASSUME NEW r \in Answer, hdr = "CallID", field = 1, rest = IDLeft(r)
  PROVE  /\ FieldFits <=> Width(r.callid) < ID_TOKEN_LTH
         /\ Inv /\ ReadField => Reads(r.callid, ToSeq(r))
<1> DEFINE s == r.callid
           u == ToSeq(r)
<1>1. r \in Reply /\ s \in Seq(Token) /\ Free(s, {CR})
  BY AnswerTexts, Zenon
<1>2. Fields[hdr][field] = Field({CR}, ID_TOKEN_LTH, 2, "chars") BY FieldsOf
<1>3. u \in Text BY <1>1, ReplyTexts
<1>4. rest = s \o End(u) BY DEF IDLeft
<1>5. Value("chars", <<>>, s) = s BY <1>1, PlainText
<1> HIDE DEF s, u
<1>6. /\ FieldFits <=> Width(s) < ID_TOKEN_LTH
      /\ Inv /\ ReadField => Reads(Value("chars", <<>>, s), u)
  <2>1. "chars" # "host" OBVIOUS
  <2>2. QED BY <1>1, <1>2, <1>3, <1>4, <2>1, TextSpot, Zenon
<1>7. QED BY <1>5, <1>6 DEF s, u

LEMMA SeqSpot ==
  ASSUME NEW r \in Answer, hdr = "CSeq", field = 1, rest = SeqLeft(r)
  PROVE  /\ FieldFits <=> Num(r.seq).len < 11
         /\ Inv /\ ReadField => Reads(r.seq, MethodLeft(r))
<1> DEFINE t == Num(r.seq)
           u == MethodLeft(r)
<1>1. r \in Reply /\ r.seq \in Int BY AnswerHas
<1>2. t \in Token /\ t \notin Chars BY <1>1, NumbersAreTokens
<1>3. Value("dword", <<>>, <<t>>) = r.seq BY <1>1, PlainNumber
<1>4. Fields[hdr][field] = Field({SP}, 11, 1, "dword") BY FieldsOf
<1>5. u \in Text BY <1>1, ReplyTexts
<1>6. SP \in Chars /\ SP # NUL BY DelimitersAre
<1>7. rest = Before(t, Before(SP, u)) BY DEF SeqLeft
<1> HIDE DEF t, u
<1>8. FieldFits <=> t.len < 11 BY <1>2, <1>4, <1>5, <1>6, <1>7, TokenSpot
<1>9. Inv /\ ReadField => Reads(Value("dword", <<>>, <<t>>), u)
  BY <1>2, <1>4, <1>5, <1>6, <1>7, TokenSpot
<1>10. QED BY <1>3, <1>8, <1>9 DEF t, u

LEMMA MethodSpot ==
  ASSUME NEW r \in Answer, hdr = "CSeq", field = 2, rest = MethodLeft(r)
  PROVE  /\ FieldFits <=> Width(r.method) < METHOD_LTH
         /\ Inv /\ ReadField => Reads(r.method, ToMedia(r))
<1> DEFINE s == r.method
           u == ToMedia(r)
<1>1. r \in Reply /\ s \in Seq(Token) /\ Free(s, {CR})
  BY AnswerTexts, Zenon
<1>2. Fields[hdr][field] = Field({CR}, METHOD_LTH, 2, "chars") BY FieldsOf
<1>3. u \in Text BY <1>1, ReplyTexts
<1>4. rest = s \o End(u) BY DEF MethodLeft
<1>5. Value("chars", <<>>, s) = s BY <1>1, PlainText
<1> HIDE DEF s, u
<1>6. /\ FieldFits <=> Width(s) < METHOD_LTH
      /\ Inv /\ ReadField => Reads(Value("chars", <<>>, s), u)
  <2>1. "chars" # "host" OBVIOUS
  <2>2. QED BY <1>1, <1>2, <1>3, <1>4, <2>1, TextSpot, Zenon
<1>7. QED BY <1>5, <1>6 DEF s, u

LEMMA AddressSpot ==
  ASSUME NEW r \in Answer, hdr = "Media", field = 1, rest = MediaLeft(r)
  PROVE  FieldFits /\ (Inv /\ ReadField => Reads(<<IPText>>, PortLeft(r)))
<1> DEFINE t == IPText
           u == PortLeft(r)
<1>1. r \in Reply BY AnswerHas
<1>2. t \in Token /\ t \notin Chars /\ t.len = 9 BY OwnTokens
<1>3. Value("chars", <<>>, <<t>>) = <<t>>
  <2>1. <<t>> \in Seq(Token) BY <1>2
  <2>2. QED BY <2>1, PlainText
<1>4. Fields[hdr][field] = Field({COLON}, NODE_ADDR_LTH, 1, "chars") BY FieldsOf
<1>5. u \in Text BY <1>1, ReplyTexts
<1>6. COLON \in Chars /\ COLON # NUL BY DelimitersAre
<1>7. rest = Before(t, Before(COLON, u)) BY DEF MediaLeft
<1> HIDE DEF t, u
<1>8. FieldFits <=> t.len < NODE_ADDR_LTH BY <1>2, <1>4, <1>5, <1>6, <1>7, TokenSpot
<1>9. FieldFits BY <1>2, <1>8 DEF NODE_ADDR_LTH
<1>10. Inv /\ ReadField => Reads(Value("chars", <<>>, <<t>>), u)
  BY <1>2, <1>4, <1>5, <1>6, <1>7, TokenSpot
<1>11. QED BY <1>3, <1>9, <1>10 DEF t, u

LEMMA PortSpot ==
  ASSUME NEW r \in Answer, hdr = "Media", field = 2, rest = PortLeft(r)
  PROVE  FieldFits /\ (Inv /\ ReadField => Reads(LocalPort, ToLength(r)))
<1> DEFINE t == Num(LocalPort)
           u == ToLength(r)
<1>1. r \in Reply BY AnswerHas
<1>2. LocalPort \in Int BY DEF LocalPort
<1>3. t \in Token /\ t \notin Chars /\ Value("word", <<>>, <<t>>) = LocalPort
  BY <1>2, PlainNumber
<1>4. t.len = 5 BY NumbersAre
<1>5. Fields[hdr][field] = Field({CR}, HOST_PORT_LTH, 2, "word") BY FieldsOf
<1>6. u \in Text BY <1>1, ReplyTexts
<1>7. rest = Before(t, End(u)) BY DEF PortLeft
<1> HIDE DEF t, u
<1>8. FieldFits <=> t.len < HOST_PORT_LTH BY <1>3, <1>5, <1>6, <1>7, LastTokenSpot
<1>9. FieldFits BY <1>4, <1>8 DEF HOST_PORT_LTH
<1>10. Inv /\ ReadField => Reads(Value("word", <<>>, <<t>>), u)
  BY <1>3, <1>5, <1>6, <1>7, LastTokenSpot
<1>11. QED BY <1>3, <1>9, <1>10 DEF u

LEMMA LengthSpot ==
  ASSUME NEW r \in Answer, r.body # 0, hdr = "ContentLength", field = 1, rest = LengthLeft(r)
  PROVE  FieldFits /\ (Inv /\ ReadField => Reads(r.body, ToEnd(r)))
<1> DEFINE t == Num(r.body)
           u == ToEnd(r)
<1>1. r \in Reply /\ r.body \in {20, 1023} /\ r.body \in Int BY AnswerHas
<1>2. t \in Token /\ t \notin Chars /\ Value("word", <<>>, <<t>>) = r.body BY <1>1, PlainNumber
<1>3. t.len < 5
  <2>1. t.len = 2 \/ t.len = 4 BY <1>1, NumbersAre
  <2>2. QED BY <2>1
<1>4. Fields[hdr][field] = Field({CR}, 5, 2, "word") BY FieldsOf
<1>5. u \in Text BY <1>1, ReplyTexts
<1>6. rest = Before(t, End(u)) BY DEF LengthLeft
<1> HIDE DEF t, u
<1>7. FieldFits BY <1>2, <1>3, <1>4, <1>5, <1>6, LastTokenSpot
<1>8. Inv /\ ReadField => Reads(Value("word", <<>>, <<t>>), u)
  BY <1>2, <1>4, <1>5, <1>6, LastTokenSpot
<1>9. QED BY <1>2, <1>7, <1>8 DEF u

-----------------------------------------------------------------------------
(***************************************************************************)
(* The steps of the client.                                                *)
(***************************************************************************)
HeardNow(r) == HeardPlace(r, pc, hdr, field, rest, got)

HeardNext(r) == HeardPlace(r, pc', hdr', field', rest', got')

LEMMA StartHeard ==
  ASSUME NEW r \in Answer, HeardNow(r), DecodeStartLine PROVE HeardNext(r)
<1>1. rest = ReplyText(r) /\ \A x \in DOMAIN Fields : got[x] = <<>>
  BY DEF HeardNow, HeardPlace, DecodeStartLine
<1>2. IsStatusLine
  <2> DEFINE t == Num(r.code)
             w == Before(SP, ReasonLeft(r))
  <2>1. r \in Reply /\ r.code \in {200, 400, 404, 486} /\ r.code \in Int BY AnswerHas
  <2>2. t \in Token /\ "num" \in DOMAIN t
    <3>1. t \in Token BY <2>1, NumbersAreTokens
    <3>2. "num" \in DOMAIN t BY DEF Num
    <3>3. QED BY <3>1, <3>2
  <2>3. t.len = 3 BY <2>1, NumbersAre
  <2>4. ReasonLeft(r) \in Text BY <2>1, ReplyTexts
  <2>5. SP \in Token BY DelimitersAre
  <2>6. w \in Text /\ Head(w) = SP BY <2>4, <2>5, BeforeIs
  <2>7. rest = Before(t, w) BY <1>1 DEF ReplyText
  <2> HIDE DEF t, w
  <2>8. Head(rest) = t /\ rest[2] = SP BY <2>2, <2>6, <2>7, BeforeIs
  <2>9. QED BY <2>2, <2>3, <2>8 DEF IsStatusLine
<1>3. /\ hdr' = "StatusLine" /\ pc' = "field" /\ field' = 1 /\ rest' = rest /\ got' = got
  BY <1>2 DEF DecodeStartLine
<1>4. InStatusLine(r, field', rest', got') BY <1>1, <1>3 DEF InStatusLine
<1>5. QED BY <1>3, <1>4 DEF HeardNext, HeardPlace

\* Where the client is when it looks for a header, and when it reads one.
LEMMA AtHeaderNow ==
  ASSUME NEW r, HeardNow(r), pc = "name" PROVE AtHeader(r, rest, got)
BY DEF HeardNow, HeardPlace

LEMMA InFieldNow ==
  ASSUME NEW r, HeardNow(r), pc = "field"
  PROVE  \/ hdr = "StatusLine" /\ InStatusLine(r, field, rest, got)
         \/ hdr \in Headers /\ InHeader(r, hdr, field, rest, got)
BY DEF HeardNow, HeardPlace

LEMMA StageIs ==
  ASSUME NEW r \in Answer, NEW h, NEW v, NEW H, Stage(r, h, v, H)
  PROVE  h \in Headers /\ v \in Text
<1>1. {"CallID", "CSeq", "Media", "ContentLength"} \subseteq Headers BY HeadersAre
<1>2. r \in Reply BY AnswerHas
<1>3. IDLeft(r) \in Text /\ SeqLeft(r) \in Text /\ MediaLeft(r) \in Text /\ LengthLeft(r) \in Text
  BY <1>2, ReplyTexts
<1>4. QED BY <1>1, <1>3 DEF Stage

LEMMA NameHeard ==
  ASSUME NEW r \in Answer, HeardNow(r), NEW x \in Headers, HeaderName(x) PROVE HeardNext(r)
<1>1. pc = "name" /\ Head(rest) \notin {CR, NUL} BY DEF HeaderName, HeaderLeft
<1>2. AtHeader(r, rest, got) BY <1>1, AtHeaderNow
<1>3. rest # ToEnd(r)
  <2>1. r \in Reply BY AnswerHas
  <2>2. Head(ToEnd(r)) = CR BY <2>1, ReplyTexts
  <2>3. QED BY <1>1, <2>2
<1>4. PICK h, v, H : Stage(r, h, v, H) /\ rest = HeaderBefore(h, v) /\ Heard(r, got, H)
  BY <1>2, <1>3 DEF AtHeader
<1>5. h \in Headers /\ v \in Text BY <1>4, StageIs
<1>6. Named(x) <=> x = h BY <1>4, <1>5, NameAhead
<1>7. ReadHCOLON(After(rest, {COLON, SP})) = v BY <1>4, <1>5, NameAhead
<1>8. x = h /\ rest' = v BY <1>6, <1>7 DEF HeaderName
<1>9. pc' = "field" /\ hdr' = x /\ field' = 1 /\ got' = got BY DEF HeaderName
<1>10. InHeader(r, hdr', field', rest', got') BY <1>4, <1>8, <1>9 DEF InHeader
<1>11. QED BY <1>9, <1>10 DEF HeardNext, HeardPlace

LEMMA NoBadHeader ==
  ASSUME NEW r \in Answer, HeardNow(r) PROVE ~BadHeader
<1> SUFFICES ASSUME BadHeader PROVE FALSE OBVIOUS
<1>1. pc = "name" /\ Head(rest) \notin {CR, NUL} BY DEF BadHeader, HeaderLeft
<1>2. AtHeader(r, rest, got) BY <1>1, AtHeaderNow
<1>3. rest # ToEnd(r)
  <2>1. r \in Reply BY AnswerHas
  <2>2. Head(ToEnd(r)) = CR BY <2>1, ReplyTexts
  <2>3. QED BY <1>1, <2>2
<1>4. PICK h, v, H : Stage(r, h, v, H) /\ rest = HeaderBefore(h, v) /\ Heard(r, got, H)
  BY <1>2, <1>3 DEF AtHeader
<1>5. h \in Headers /\ v \in Text BY <1>4, StageIs
<1>6. Named(h) BY <1>4, <1>5, NameAhead
<1>7. QED BY <1>5, <1>6 DEF BadHeader

LEMMA EndHeard ==
  ASSUME NEW r \in Answer, HeardNow(r), EndOfHeaders PROVE HeardNext(r)
<1>1. pc = "name" /\ Head(rest) \in {CR, NUL} BY DEF EndOfHeaders
<1>2. AtHeader(r, rest, got) BY <1>1, AtHeaderNow
<1>3. ASSUME NEW h, NEW v, NEW H, Stage(r, h, v, H), rest = HeaderBefore(h, v) PROVE FALSE
  <2>1. h \in Headers /\ v \in Text BY <1>3, StageIs
  <2>2. Head(rest) \notin {CR, NUL} BY <1>3, <2>1, NameAhead
  <2>3. QED BY <1>1, <2>2
<1>4. Heard(r, got, Headers) BY <1>2, <1>3 DEF AtHeader
<1>5. pc' = "done" /\ got' = got BY DEF EndOfHeaders
<1>6. QED BY <1>4, <1>5 DEF HeardNext, HeardPlace

\* The fields of the headers of a reply are seven.
LEMMA WhichField ==
  ASSUME NEW r, hdr \in Headers, InHeader(r, hdr, field, rest, got)
  PROVE  \/ hdr = "CallID" /\ field = 1 /\ rest = IDLeft(r) /\ Heard(r, got, {})
         \/ hdr = "CSeq" /\ field = 1 /\ rest = SeqLeft(r) /\ Heard(r, got, {"CallID"})
         \/ /\ hdr = "CSeq" /\ field = 2 /\ rest = MethodLeft(r)
            /\ HeardBut(r, got, {"CallID"}, "CSeq") /\ got["CSeq"] = <<r.seq>>
         \/ /\ hdr = "Media" /\ field = 1 /\ rest = MediaLeft(r) /\ r.media # <<>>
            /\ Heard(r, got, {"CallID", "CSeq"})
         \/ /\ hdr = "Media" /\ field = 2 /\ rest = PortLeft(r) /\ r.media # <<>>
            /\ HeardBut(r, got, {"CallID", "CSeq"}, "Media") /\ got["Media"] = <<<<IPText>>>>
         \/ /\ hdr = "ContentLength" /\ field = 1 /\ rest = LengthLeft(r) /\ r.body # 0
            /\ Heard(r, got, Headers \ {"ContentLength"})
BY DEF InHeader, Stage

LEMMA BadFieldHeard ==
  ASSUME NEW r \in Answer, HeardNow(r), BadField PROVE HeardNext(r)
<1>1. pc = "field" /\ ~FieldFits /\ pc' = "failed" BY DEF BadField
<1>2. hdr # "StatusLine"
  <2>1. SUFFICES ASSUME hdr = "StatusLine" PROVE FALSE OBVIOUS
  <2>2. "StatusLine" \notin Headers BY HeadersAre
  <2>3. InStatusLine(r, field, rest, got) BY <1>1, <2>1, <2>2, InFieldNow
  <2>4. QED BY <1>1, <2>1, <2>3, CodeSpot, ReasonSpot DEF InStatusLine
<1>3. hdr \in Headers /\ InHeader(r, hdr, field, rest, got) BY <1>1, <1>2, InFieldNow
<1>4. \/ hdr = "CSeq" /\ field = 1 /\ rest = SeqLeft(r)
      \/ hdr = "CallID" /\ field = 1 /\ rest = IDLeft(r)
      \/ hdr = "CSeq" /\ field = 2 /\ rest = MethodLeft(r)
  <2>1. ~(hdr = "Media" /\ field = 1 /\ rest = MediaLeft(r)) BY <1>1, AddressSpot
  <2>2. ~(hdr = "Media" /\ field = 2 /\ rest = PortLeft(r)) BY <1>1, PortSpot
  <2>3. ~(hdr = "ContentLength" /\ field = 1 /\ rest = LengthLeft(r) /\ r.body # 0)
    BY <1>1, LengthSpot
  <2>4. QED BY <1>3, <2>1, <2>2, <2>3, WhichField
<1>5. CASE hdr = "CSeq" /\ field = 1 /\ rest = SeqLeft(r)
  <2>1. ~(Num(r.seq).len < 11) BY <1>1, <1>5, SeqSpot
  <2>2. r.seq \in Int BY AnswerHas
  <2>3. Num(r.seq).len \in 1 .. 11 BY <2>2, NumIs
  <2>4. Num(r.seq).len >= 11 BY <2>1, <2>3
  <2>5. QED BY <1>1, <2>4 DEF HeardNext, HeardPlace
<1>6. CASE hdr = "CallID" /\ field = 1 /\ rest = IDLeft(r)
  <2>1. ~(Width(r.callid) < ID_TOKEN_LTH) BY <1>1, <1>6, CallIDSpot
  <2>2. Width(r.callid) <= ID_TOKEN_LTH /\ Width(r.callid) \in Nat BY AnswerTexts, WidthType
  <2>3. TooWide(r) BY <2>1, <2>2 DEF TooWide, ID_TOKEN_LTH
  <2>4. QED BY <1>1, <2>3 DEF HeardNext, HeardPlace
<1>7. CASE hdr = "CSeq" /\ field = 2 /\ rest = MethodLeft(r)
  <2>1. ~(Width(r.method) < METHOD_LTH) BY <1>1, <1>7, MethodSpot
  <2>2. Width(r.method) <= METHOD_LTH /\ Width(r.method) \in Nat BY AnswerTexts, WidthType
  <2>3. TooWide(r) BY <2>1, <2>2 DEF TooWide, METHOD_LTH
  <2>4. QED BY <1>1, <2>3 DEF HeardNext, HeardPlace
<1>8. QED BY <1>4, <1>5, <1>6, <1>7

\* One more header has been read.
LEMMA HeardMore ==
  ASSUME NEW r, hdr \in Headers, NEW H, HeardBut(r, got, H, hdr), NEW v, NEW u, Reads(v, u),
         got'[hdr] = Told(r)[hdr]
  PROVE  Heard(r, got', H \cup {hdr})
<1>1. \A h \in DOMAIN Fields : h # hdr => got'[h] = got[h] BY DEF Reads
<1>2. "StatusLine" \in DOMAIN Fields /\ "StatusLine" # hdr /\ Headers \subseteq DOMAIN Fields
  BY HeadersAre
<1>3. got'["StatusLine"][1] = r.code BY <1>1, <1>2 DEF HeardBut
<1>4. \A x \in Headers \ {hdr} : got'[x] = IF x \in H THEN Told(r)[x] ELSE <<>>
  BY <1>1, <1>2 DEF HeardBut
<1>5. QED BY <1>3, <1>4 DEF Heard

LEMMA HalfHeard ==
  ASSUME NEW r, hdr \in Headers, NEW H, HeardBut(r, got, H, hdr), NEW v, NEW u, Reads(v, u)
  PROVE  HeardBut(r, got', H, hdr)
<1>1. \A h \in DOMAIN Fields : h # hdr => got'[h] = got[h] BY DEF Reads
<1>2. "StatusLine" \in DOMAIN Fields /\ "StatusLine" # hdr /\ Headers \subseteq DOMAIN Fields
  BY HeadersAre
<1>3. QED BY <1>1, <1>2 DEF HeardBut

LEMMA NotHeardYet ==
  ASSUME NEW r, NEW H, NEW h \in Headers, h \notin H, Heard(r, got, H)
  PROVE  HeardBut(r, got, H, h) /\ got[h] = <<>>
BY DEF Heard, HeardBut

LEMMA LengthsAre ==
  /\ Len(Fields["CallID"]) = 1 /\ Len(Fields["CSeq"]) = 2 /\ Len(Fields["Media"]) = 2
  /\ Len(Fields["ContentLength"]) = 1 /\ Len(Fields["StatusLine"]) = 2
BY FieldsOf

LEMMA StatusHeard ==
  ASSUME Inv, NEW r \in Answer, ReadField, hdr = "StatusLine", InStatusLine(r, field, rest, got)
  PROVE  HeardNext(r)
<1>1. Headers \subseteq DOMAIN Fields /\ hdr \notin Headers /\ hdr \in DOMAIN Fields BY HeadersAre
<1>2. Len(Fields[hdr]) = 2 BY LengthsAre
<1>3. CASE field = 1 /\ rest = ReplyText(r) /\ \A h \in DOMAIN Fields : got[h] = <<>>
  <2>1. Reads(r.code, ReasonLeft(r)) BY <1>3, CodeSpot
  <2>2. /\ hdr' = hdr /\ rest' = ReasonLeft(r) /\ pc' = "field" /\ field' = 2
        /\ got'[hdr] = <<r.code>> /\ \A h \in Headers : got'[h] = <<>>
    <3>1. got[hdr] = <<>> /\ field # 2 /\ field + 1 = 2 BY <1>1, <1>3
    <3>2. \A h \in Headers : got'[h] = got[h] BY <1>1, <2>1 DEF Reads
    <3>3. QED BY <1>1, <1>2, <1>3, <2>1, <3>1, <3>2 DEF Reads
  <2>3. InStatusLine(r, field', rest', got') BY <2>2 DEF InStatusLine
  <2>4. QED BY <2>2, <2>3 DEF HeardNext, HeardPlace
<1>4. CASE /\ field = 2 /\ rest = ReasonLeft(r) /\ got["StatusLine"] = <<r.code>>
           /\ \A h \in Headers : got[h] = <<>>
  <2>1. PICK v : Reads(v, ToID(r)) BY <1>4, ReasonSpot
  <2>2. /\ rest' = ToID(r) /\ pc' = "name" /\ got'[hdr] = <<r.code, v>>
        /\ \A h \in Headers : got'[h] = <<>>
    <3>1. \A h \in Headers : got'[h] = got[h] BY <1>1, <2>1 DEF Reads
    <3>2. QED BY <1>2, <1>4, <2>1, <3>1 DEF Reads
  <2>3. got'["StatusLine"][1] = r.code BY <2>2
  <2>4. Heard(r, got', {}) BY <2>2, <2>3 DEF Heard
  <2>5. Stage(r, "CallID", IDLeft(r), {}) BY DEF Stage
  <2>6. AtHeader(r, rest', got') BY <2>2, <2>4, <2>5 DEF AtHeader, ToID
  <2>7. QED BY <2>2, <2>6 DEF HeardNext, HeardPlace
<1>5. QED BY <1>3, <1>4 DEF InStatusLine

LEMMA CallIDHeard ==
  ASSUME Inv, NEW r \in Answer, ReadField, hdr = "CallID", field = 1, rest = IDLeft(r),
         Heard(r, got, {})
  PROVE  HeardNext(r)
<1>1. hdr \in Headers BY HeadersAre
<1>2. HeardBut(r, got, {}, hdr) /\ got[hdr] = <<>> BY <1>1, NotHeardYet
<1>3. Reads(r.callid, ToSeq(r)) BY CallIDSpot
<1>4. rest' = ToSeq(r) /\ pc' = "name" /\ got'[hdr] = <<r.callid>>
  BY <1>2, <1>3, LengthsAre DEF Reads
<1>5. Told(r)[hdr] = <<r.callid>> BY DEF Told
<1>6. Heard(r, got', {} \cup {hdr}) BY <1>1, <1>2, <1>3, <1>4, <1>5, HeardMore
<1>7. {} \cup {hdr} = {"CallID"} OBVIOUS
<1>8. Heard(r, got', {"CallID"}) BY <1>6, <1>7
<1>9. Stage(r, "CSeq", SeqLeft(r), {"CallID"}) BY DEF Stage
<1>10. AtHeader(r, rest', got') BY <1>4, <1>8, <1>9 DEF AtHeader, ToSeq
<1>11. QED BY <1>4, <1>10 DEF HeardNext, HeardPlace

LEMMA SeqHeard ==
  ASSUME Inv, NEW r \in Answer, ReadField, hdr = "CSeq", field = 1, rest = SeqLeft(r),
         Heard(r, got, {"CallID"})
  PROVE  HeardNext(r)
<1>1. hdr \in Headers /\ hdr \notin {"CallID"} BY HeadersAre
<1>2. HeardBut(r, got, {"CallID"}, hdr) /\ got[hdr] = <<>> BY <1>1, NotHeardYet
<1>3. Reads(r.seq, MethodLeft(r)) BY SeqSpot
<1>4. /\ hdr' = hdr /\ rest' = MethodLeft(r) /\ pc' = "field" /\ field' = 2
      /\ got'[hdr] = <<r.seq>>
  BY <1>2, <1>3, LengthsAre DEF Reads
<1>5. HeardBut(r, got', {"CallID"}, hdr) BY <1>1, <1>2, <1>3, HalfHeard
<1>6. InHeader(r, hdr', field', rest', got') BY <1>4, <1>5 DEF InHeader
<1>7. QED BY <1>1, <1>4, <1>6 DEF HeardNext, HeardPlace

LEMMA MethodHeard ==
  ASSUME Inv, NEW r \in Answer, ReadField, hdr = "CSeq", field = 2, rest = MethodLeft(r),
         HeardBut(r, got, {"CallID"}, "CSeq"), got["CSeq"] = <<r.seq>>
  PROVE  HeardNext(r)
<1>1. hdr \in Headers BY HeadersAre
<1>2. Reads(r.method, ToMedia(r)) BY MethodSpot
<1>3. rest' = ToMedia(r) /\ pc' = "name" /\ got'[hdr] = <<r.seq, r.method>>
  BY <1>2, LengthsAre DEF Reads
<1>4. Told(r)[hdr] = <<r.seq, r.method>> BY DEF Told
<1>5. Heard(r, got', {"CallID"} \cup {hdr}) BY <1>1, <1>2, <1>3, <1>4, HeardMore
<1>6. {"CallID"} \cup {hdr} = {"CallID", "CSeq"} OBVIOUS
<1>7. Heard(r, got', {"CallID", "CSeq"}) BY <1>5, <1>6
<1>8. AtHeader(r, rest', got') BY <1>3, <1>7, MediaPassed
<1>9. QED BY <1>3, <1>8 DEF HeardNext, HeardPlace

LEMMA AddressHeard ==
  ASSUME Inv, NEW r \in Answer, ReadField, hdr = "Media", field = 1, rest = MediaLeft(r),
         r.media # <<>>, Heard(r, got, {"CallID", "CSeq"})
  PROVE  HeardNext(r)
<1>1. hdr \in Headers /\ hdr \notin {"CallID", "CSeq"} BY HeadersAre
<1>2. HeardBut(r, got, {"CallID", "CSeq"}, hdr) /\ got[hdr] = <<>> BY <1>1, NotHeardYet
<1>3. Reads(<<IPText>>, PortLeft(r)) BY AddressSpot
<1>4. /\ hdr' = hdr /\ rest' = PortLeft(r) /\ pc' = "field" /\ field' = 2
      /\ got'[hdr] = <<<<IPText>>>>
  BY <1>2, <1>3, LengthsAre DEF Reads
<1>5. HeardBut(r, got', {"CallID", "CSeq"}, hdr) BY <1>1, <1>2, <1>3, HalfHeard
<1>6. InHeader(r, hdr', field', rest', got') BY <1>4, <1>5 DEF InHeader
<1>7. QED BY <1>1, <1>4, <1>6 DEF HeardNext, HeardPlace

\* With the Media header everything but Content-Length has been read.
LEMMA PortHeard ==
  ASSUME Inv, NEW r \in Answer, ReadField, hdr = "Media", field = 2, rest = PortLeft(r),
         r.media # <<>>, HeardBut(r, got, {"CallID", "CSeq"}, "Media"),
         got["Media"] = <<<<IPText>>>>
  PROVE  HeardNext(r)
<1>1. hdr \in Headers BY HeadersAre
<1>2. Reads(LocalPort, ToLength(r)) BY PortSpot
<1>3. rest' = ToLength(r) /\ pc' = "name" /\ got'[hdr] = <<<<IPText>>, LocalPort>>
  BY <1>2, LengthsAre DEF Reads
<1>4. Told(r)[hdr] = <<<<IPText>>, LocalPort>>
  <2>1. r.media \in {<<>>, <<<<IPText>>, LocalPort>>} BY AnswerHas
  <2>2. r.media = <<<<IPText>>, LocalPort>> BY <2>1
  <2>3. QED BY <2>2 DEF Told
<1>5. Heard(r, got', {"CallID", "CSeq"} \cup {hdr}) BY <1>1, <1>2, <1>3, <1>4, HeardMore
<1>6. Heard(r, got', Headers \ {"ContentLength"})
  <2>1. Told(r)["From"] = <<>> /\ Told(r)["Event"] = <<>> /\ Told(r)["UserAgent"] = <<>>
    BY DEF Told
  <2>2. \A x \in Headers :
          x \in {"CallID", "CSeq"} \cup {hdr} \/ x \in {"From", "Event", "UserAgent"}
            \/ x = "ContentLength"
    BY HeadersAre
  <2>3. "ContentLength" \notin {"CallID", "CSeq"} \cup {hdr} OBVIOUS
  <2> DEFINE H == {"CallID", "CSeq"} \cup {hdr}
  <2> HIDE DEF H
  <2>4. \A x \in Headers \ {"ContentLength"} : got'[x] = Told(r)[x]
    <3>1. \A x \in Headers : x \in H \/ Told(r)[x] = <<>> \/ x = "ContentLength"
      BY <2>1, <2>2 DEF H
    <3>2. \A x \in Headers : got'[x] = IF x \in H THEN Told(r)[x] ELSE <<>>
      BY <1>5 DEF Heard, H
    <3>3. QED BY <3>1, <3>2
  <2>5. got'["ContentLength"] = <<>>
    <3>1. "ContentLength" \in Headers BY HeadersAre
    <3>2. QED BY <1>5, <2>3, <3>1 DEF Heard
  <2>6. got'["StatusLine"][1] = r.code BY <1>5 DEF Heard
  <2>7. QED BY <2>4, <2>5, <2>6 DEF Heard
<1>7. AtHeader(r, rest', got') BY <1>3, <1>6, LengthPassed
<1>8. QED BY <1>3, <1>7 DEF HeardNext, HeardPlace

LEMMA LengthHeard ==
  ASSUME Inv, NEW r \in Answer, ReadField, hdr = "ContentLength", field = 1,
         rest = LengthLeft(r), r.body # 0, Heard(r, got, Headers \ {"ContentLength"})
  PROVE  HeardNext(r)
<1>1. hdr \in Headers /\ hdr \notin Headers \ {"ContentLength"} BY HeadersAre
<1>2. HeardBut(r, got, Headers \ {"ContentLength"}, hdr) /\ got[hdr] = <<>> BY <1>1, NotHeardYet
<1>3. Reads(r.body, ToEnd(r)) BY LengthSpot
<1>4. rest' = ToEnd(r) /\ pc' = "name" /\ got'[hdr] = <<r.body>>
  BY <1>2, <1>3, LengthsAre DEF Reads
<1>5. Told(r)[hdr] = <<r.body>> BY DEF Told
<1>6. Heard(r, got', (Headers \ {"ContentLength"}) \cup {hdr})
  BY <1>1, <1>2, <1>3, <1>4, <1>5, HeardMore
<1>7. (Headers \ {"ContentLength"}) \cup {hdr} = Headers BY <1>1
<1>8. Heard(r, got', Headers) BY <1>6, <1>7
<1>9. AtHeader(r, rest', got') BY <1>4, <1>8 DEF AtHeader
<1>10. QED BY <1>4, <1>9 DEF HeardNext, HeardPlace

LEMMA FieldHeard ==
  ASSUME Inv, NEW r \in Answer, HeardNow(r), ReadField PROVE HeardNext(r)
<1>1. pc = "field" BY DEF ReadField
<1>2. CASE hdr = "StatusLine"
  <2>1. "StatusLine" \notin Headers BY HeadersAre
  <2>2. QED BY <1>1, <1>2, <2>1, InFieldNow, StatusHeard
<1>3. CASE hdr # "StatusLine"
  <2>1. hdr \in Headers /\ InHeader(r, hdr, field, rest, got) BY <1>1, <1>3, InFieldNow
  <2>2. QED
    BY <2>1, WhichField, CallIDHeard, SeqHeard, MethodHeard, AddressHeard, PortHeard, LengthHeard,
       ZenonT(60)
<1>4. QED BY <1>2, <1>3

LEMMA RespondHeard ==
  ASSUME Inv, Respond PROVE reply' \in Answer /\ HeardPlace(reply', pc', hdr', field', rest', got')
<1>1. PICK code \in {200, 400, 404, 486}, media \in {<<>>, <<<<IPText>>, LocalPort>>},
           body \in {0, 20, 1023} :
         /\ Send(ReplyTo(code, media, body))
         /\ pc = "failed" => code = 400
  BY RespondIs
<1> DEFINE r == ReplyTo(code, media, body)
<1>2. r \in Answer BY <1>1, AnswerIs
<1>3. reply' = r BY <1>1 DEF Send
<1>4. rest' = P_ComEncode(r) /\ pc' = "start" /\ got' = Nothing BY <1>1 DEF Send, Start
<1> HIDE DEF r
<1>5. r \in Reply BY <1>2, AnswerHas
<1>6. rest' = ReplyText(r) BY <1>4, <1>5, ReplyLayout
<1>7. \A x \in DOMAIN Fields : got'[x] = <<>> BY <1>4, NothingRead
<1>8. HeardPlace(r, pc', hdr', field', rest', got') BY <1>4, <1>6, <1>7 DEF HeardPlace
<1>9. QED BY <1>2, <1>3, <1>8

LEMMA InitHears == Init => Hears
BY DEF Init, Hears, AtClient, AtServer

LEMMA NextHears == Inv /\ Hears /\ [Next]_vars => Hears'
<1> SUFFICES ASSUME Inv, Hears, [Next]_vars, AtClient'
             PROVE  reply' \in Answer /\ HeardPlace(reply', pc', hdr', field', rest', got')
  BY DEF Hears
<1>1. CASE Respond BY <1>1, RespondHeard
<1>2. CASE UNCHANGED vars
  <2>1. /\ reply' = reply /\ pc' = pc /\ hdr' = hdr /\ field' = field /\ rest' = rest
        /\ got' = got
    BY <1>2 DEF vars
  <2>2. AtClient BY <2>1 DEF AtClient, AtServer
  <2>3. QED BY <2>1, <2>2 DEF Hears
<1>3. CASE Decode
  <2>1. reply' = reply
    BY <1>3 DEF Decode, DecodeStartLine, HeaderName, BadHeader, ReadField, BadField,
                EndOfHeaders, Refuse, Store
  <2>2. AtClient BY <2>1 DEF AtClient, AtServer
  <2>3. reply \in Answer /\ HeardNow(reply) BY <2>2 DEF Hears, HeardNow
  <2>4. SUFFICES HeardNext(reply) BY <2>1, <2>3 DEF HeardNext
  <2>5. CASE DecodeStartLine BY <2>3, <2>5, StartHeard
  <2>6. CASE \E h \in Headers : HeaderName(h) BY <2>3, <2>6, NameHeard
  <2>7. CASE BadHeader BY <2>3, <2>7, NoBadHeader
  <2>8. CASE ReadField BY <2>3, <2>8, FieldHeard
  <2>9. CASE BadField BY <2>3, <2>9, BadFieldHeard
  <2>10. CASE EndOfHeaders BY <2>3, <2>10, EndHeard
  <2>11. QED BY <1>3, <2>5, <2>6, <2>7, <2>8, <2>9, <2>10 DEF Decode
<1>4. QED BY <1>1, <1>2, <1>3 DEF Next

\* The decoder of the client is where the reply says, and has what it says: for every
\* Call-ID and CSeq the request can have brought, decoded or not, and every reply that
\* repeats them.
THEOREM ClientFollows == Spec => []Hears
BY InitInv, InitHears, NextInv, NextHears, PTL DEF Spec

LEMMA HeardIsMeant == Hears => RepliesMeanWhatWasSent
<1> SUFFICES ASSUME Hears, AtClient
             PROVE  /\ pc = "failed" =>
                        \/ Num(reply.seq).len >= 11
                        \/ /\ reply.code = 400
                           /\ \/ Width(reply.callid) = ID_TOKEN_LTH
                              \/ Width(reply.method) = METHOD_LTH
                    /\ pc = "done" =>
                        /\ got["StatusLine"][1] = reply.code
                        /\ got["CallID"] = <<reply.callid>>
                        /\ got["CSeq"] = <<reply.seq, reply.method>>
                        /\ got["Media"] = reply.media
                        /\ got["ContentLength"] = IF reply.body = 0 THEN <<>> ELSE <<reply.body>>
                        /\ got["From"] = <<>> /\ got["Event"] = <<>> /\ got["UserAgent"] = <<>>
  BY DEF RepliesMeanWhatWasSent
<1>1. reply \in Answer /\ HeardPlace(reply, pc, hdr, field, rest, got) BY DEF Hears
<1>2. ASSUME pc = "failed"
      PROVE  \/ Num(reply.seq).len >= 11
             \/ /\ reply.code = 400
                /\ Width(reply.callid) = ID_TOKEN_LTH \/ Width(reply.method) = METHOD_LTH
  <2>1. Num(reply.seq).len >= 11 \/ TooWide(reply) BY <1>1, <1>2 DEF HeardPlace
  <2>2. TooWide(reply) => reply.code = 400 BY <1>1 DEF Answer
  <2>3. QED BY <2>1, <2>2 DEF TooWide
<1>3. ASSUME pc = "done"
      PROVE  /\ got["StatusLine"][1] = reply.code
             /\ got["CallID"] = <<reply.callid>>
             /\ got["CSeq"] = <<reply.seq, reply.method>>
             /\ got["Media"] = reply.media
             /\ got["ContentLength"] = IF reply.body = 0 THEN <<>> ELSE <<reply.body>>
             /\ got["From"] = <<>> /\ got["Event"] = <<>> /\ got["UserAgent"] = <<>>
  <2>1. Heard(reply, got, Headers) BY <1>1, <1>3 DEF HeardPlace
  <2>2. \A x \in Headers : got[x] = Told(reply)[x] BY <2>1 DEF Heard
  <2>3. got["StatusLine"][1] = reply.code BY <2>1 DEF Heard
  <2>4. QED BY <2>2, <2>3, HeadersAre DEF Told
<1>4. QED BY <1>2, <1>3

\* A client with the same codec understands every reply as the server meant it, unless
\* its CSeq is one that "%d" prints with eleven characters, or it is the 400 to a request
\* whose Call-ID or method was too wide to be decoded.
THEOREM ClientsUnderstandReplies == Spec => []RepliesMeanWhatWasSent
BY ClientFollows, HeardIsMeant, PTL

=============================================================================
