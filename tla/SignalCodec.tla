----------------------------- MODULE SignalCodec -----------------------------
(***************************************************************************)
(* The text protocol of the control plane (core/s_codec.cpp): P_ComDecode  *)
(* reads a request with a cursor that only moves forward, P_ComEncode      *)
(* writes the reply.  The model follows one request: it is decoded, one of *)
(* the replies the handlers can make is encoded, and a client that uses    *)
(* the same codec decodes that.                                            *)
(*                                                                         *)
(* A text is a sequence of tokens: the delimiters the decoder looks for,   *)
(* and words, of which only the width in characters and the identity       *)
(* matter (StrICmp compares without case, so case is left out).  Numbers   *)
(* are words with a value, the one atoi makes of them.  A DWORD is shown   *)
(* as the signed number with the same bits, which is how "%d" prints it.   *)
(***************************************************************************)
EXTENDS Integers, SequencesExt

CONSTANTS
    Drafts,     \* the requests clients send: see Request below
    Words       \* the words they write

-----------------------------------------------------------------------------
(***************************************************************************)
(* Texts.                                                                  *)
(***************************************************************************)
Char(c) == [char |-> c, len |-> 1]
Word(w, n) == [word |-> w, len |-> n]

Digits(n) == 1 + Cardinality({k \in 1 .. 9 : (IF n < 0 THEN -n ELSE n) >= 10 ^ k})

\* What sprintf("%d") prints.
Num(n) == [num |-> n, len |-> Digits(n) + (IF n < 0 THEN 1 ELSE 0)]

SP == Char(" ")
CR == Char("\r")
LF == Char("\n")
COLON == Char(":")
AT == Char("@")
LT == Char("<")
GT == Char(">")
NUL == Char("nul")

Width(s) ==
    LET width[k \in 0 .. Len(s)] == IF k = 0 THEN 0 ELSE width[k - 1] + s[k].len
    IN  width[Len(s)]

\* pbMsg++.  The buffer is zeroed after every message (main.cpp), so behind the
\* end of a text there are only zeros.
Advance(s) ==
    IF Head(s) = NUL THEN s
    ELSE IF Head(s).len = 1 THEN Tail(s)
    ELSE <<Word("rest", Head(s).len - 1)>> \o Tail(s)

Skip(s, n) ==
    IF n = 1 THEN Advance(s)
    ELSE IF n = 2 THEN Advance(Advance(s))
    ELSE Advance(Advance(Advance(s)))

\* The copying loops: up to the first of some delimiters.
Stop(s, stops) == Min({i \in DOMAIN s : s[i] \in stops \cup {NUL}})
Taken(s, stops) == SubSeq(s, 1, Stop(s, stops) - 1)
After(s, stops) == SubSeq(s, Stop(s, stops), Len(s))

\* Mutant: a value may fill its buffer.
Fits_Full(s, stops, limit) ==
    Head(After(s, stops)) # NUL /\ Width(Taken(s, stops)) <= limit

Fits(s, stops, limit) ==
    Head(After(s, stops)) # NUL /\ Width(Taken(s, stops)) < limit

\* atoi skips blanks, and makes 0 of what is no number.
Atoi(s) ==
    LET words == {i \in DOMAIN s : s[i] # SP}
    IN  IF words # {} /\ "num" \in DOMAIN s[Min(words)] THEN s[Min(words)].num ELSE 0

-----------------------------------------------------------------------------
(***************************************************************************)
(* The start line and the headers.  Each is read field by field: what ends *)
(* the field, how wide it may not be, how many characters to skip after    *)
(* it, and how it is stored.  "chars" go into a buffer of the session      *)
(* without a terminator, and "host" is one that the text may end with.     *)
(***************************************************************************)
METHOD_LTH == 16
HNAME_LTH == 32
HOST_PORT_LTH == 6
USER_LTH == 48
ID_TOKEN_LTH == 48
EVENT_NAME_LTH == 48
NODE_ADDR_LTH == 32
COMMEN_LTH == 64
REASON_LTH == 128

Field(stops, limit, skip, kind) ==
    [stops |-> stops, limit |-> limit, skip |-> skip, kind |-> kind]

\* 200 OK
StatusLine == <<Field({SP}, 4, 1, "word"), Field({CR}, REASON_LTH, 2, "string")>>

\* CONN user@host
RequestLine ==
    <<Field({SP}, METHOD_LTH, 1, "chars"), Field({AT}, USER_LTH, 1, "chars"),
      Field({CR}, NODE_ADDR_LTH, 2, "host")>>

DecodeCallID == <<Field({CR}, ID_TOKEN_LTH, 2, "chars")>>
DecodeCntLength == <<Field({CR}, 5, 2, "word")>>
DecodeCSeq == <<Field({SP}, 11, 1, "dword"), Field({CR}, METHOD_LTH, 2, "chars")>>
DecodeEvent == <<Field({CR}, EVENT_NAME_LTH, 2, "chars")>>

\* name<ID>: what ends a field is skipped unseen, and then the end of the line.
DecodeFrom ==
    <<Field({LT, CR}, USER_LTH, 1, "chars"), Field({GT, CR}, USER_LTH, 3, "chars")>>

DecodeMedia ==
    <<Field({COLON}, NODE_ADDR_LTH, 1, "chars"), Field({CR}, HOST_PORT_LTH, 2, "word")>>

DecodeUserAgent == <<Field({CR}, COMMEN_LTH, 2, "string")>>

Fields ==
    [StatusLine |-> StatusLine, RequestLine |-> RequestLine, CallID |-> DecodeCallID, CSeq |-> DecodeCSeq, Media |-> DecodeMedia,
     From |-> DecodeFrom, Event |-> DecodeEvent,
     ContentLength |-> DecodeCntLength, UserAgent |-> DecodeUserAgent]

Headers == DOMAIN Fields \ {"StatusLine", "RequestLine"}

NameLth ==
    [CallID |-> 7, CSeq |-> 4, Media |-> 5, From |-> 4, Event |-> 5,
     ContentLength |-> 14, UserAgent |-> 10, Other |-> 6]

Name(h) == Word(h, NameLth[h])

\* A shorter value leaves the tail of the one that was in the buffer before.
Overwrite(old, new) ==
    IF Width(new) >= Width(old) THEN new
    ELSE Append(new, Word("tail", Width(old) - Width(new)))

\* Mutant: the number is not cut to a WORD.
Value_NoCut(kind, old, new) ==
    IF kind \in {"word", "dword"} THEN Atoi(new)
    ELSE IF kind = "string" THEN new
    ELSE Overwrite(old, new)

Value(kind, old, new) ==
    IF kind = "word" THEN Atoi(new) % 65536
    ELSE IF kind = "dword" THEN Atoi(new)
    ELSE IF kind = "string" THEN new
    ELSE Overwrite(old, new)

-----------------------------------------------------------------------------
(***************************************************************************)
(* Encoding a reply.                                                       *)
(***************************************************************************)

\* Mutant: WriteString stops one character early.
Written_Short(t, n) ==
    IF t.len < n THEN t ELSE Num(t.num \div 10 ^ (t.len - n + 1))

\* WriteString: at most n characters of a number, the last digits cut off.
Written(t, n) == IF t.len <= n THEN t ELSE Num(t.num \div 10 ^ (t.len - n))

EOL == <<CR, LF>>

EncodeMedia(media) ==
    IF media = <<>> THEN <<>>
    ELSE <<Name("Media"), COLON, SP>> \o media[1]
             \o <<COLON, Written(Num(media[2]), 5)>> \o EOL

\* The reason is written if the byte behind bMap[2] of the status line, the low
\* byte of the code, is not zero.
EncodeStatus(code) ==
    <<Written(Num(code), 4)>>
        \o (IF code % 256 # 0 THEN <<SP, Word("reason", 30)>> ELSE <<>>) \o EOL

EncodeCallID(callid) == <<Name("CallID"), COLON, SP>> \o callid \o EOL

EncodeCSeq(seq, method) ==
    <<Name("CSeq"), COLON, SP, Written(Num(seq), 11), SP>> \o method \o EOL

\* The Content-Length header is written when there is a body.
EncodeCntLength(body) ==
    IF body = 0 THEN <<>>
    ELSE <<Name("ContentLength"), COLON, SP, Written(Num(body), 5)>> \o EOL

P_ComEncode(r) ==
    EncodeStatus(r.code) \o EncodeCallID(r.callid) \o EncodeCSeq(r.seq, r.method)
        \o EncodeMedia(r.media) \o EncodeCntLength(r.body) \o EOL
        \o (IF r.body = 0 THEN <<>> ELSE <<Word("body", r.body)>>)
        \o <<NUL>>

-----------------------------------------------------------------------------
(***************************************************************************)
(* What clients write.  A line has a header, the values of its fields and  *)
(* a tail; one with too few values leaves out the delimiters in front of   *)
(* them.  A draft is a method, whether the request line has its URL, the   *)
(* lines, whether a blank follows the colons, and whether an empty line    *)
(* follows.                                                                *)
(***************************************************************************)
Between == [CSeq |-> <<SP>>, Media |-> <<COLON>>, From |-> <<LT>>]

Line(l, spaced) ==
    <<Name(l.hdr)>>
        \o (IF l.vals = <<>> THEN <<>>
            ELSE (IF spaced THEN <<COLON, SP>> ELSE <<COLON>>) \o l.vals[1])
        \o (IF Len(l.vals) < 2 THEN <<>> ELSE Between[l.hdr] \o l.vals[2])
        \o l.tail

\* The tail as the format has it: the end of the line, behind the '>' of a From.
Closing(l) == (IF l.hdr = "From" /\ Len(l.vals) = 2 THEN <<GT>> ELSE <<>>) \o EOL

Request(d) ==
    <<Word(d.method, 6)>>
        \o (IF d.url THEN <<SP, Word("user", 6), AT, Word("host", 12)>> ELSE <<>>) \o EOL
        \o FlattenSeq([i \in DOMAIN d.lines |-> Line(d.lines[i], d.spaced)])
        \o (IF d.ended THEN EOL ELSE <<>>)
        \o <<NUL>>

\* A value is empty, or one word or number whatever its field is for, and no line
\* has more of them than its header has fields.  The tail may be anything.  No more
\* than that is assumed of what clients write.
Values == [word : Words, len : Nat \ {0}] \cup [num : Int, len : Nat \ {0}]

Texts == {s \in Seq(Values) : Len(s) <= 1}

WrittenLine ==
    [hdr : DOMAIN NameLth, vals : Seq(Texts),
     tail : Seq(Values \cup {SP, CR, LF, COLON, AT, LT, GT})]

ASSUME DraftsAssumption ==
    /\ Drafts \subseteq [method : Words, url : BOOLEAN, lines : Seq(WrittenLine),
                         spaced : BOOLEAN, ended : BOOLEAN]
    /\ \A d \in Drafts : \A i \in DOMAIN d.lines :
          LET l == d.lines[i]
          IN  Len(l.vals) <= IF l.hdr \in Headers THEN Len(Fields[l.hdr]) ELSE 1

-----------------------------------------------------------------------------
VARIABLES
    draft,   \* the request under way
    reply,   \* the reply it got, or NoReply
    rest,    \* the text behind the cursor
    pc,      \* where the decoder is
    hdr,     \* the header it reads
    field,   \* and the number of the field
    got      \* the fields of each header, and of the start line, decoded so far

vars == <<draft, reply, rest, pc, hdr, field, got>>

NoReply == [code |-> 0]

Nothing == [h \in DOMAIN Fields |-> <<>>]

Start(text) ==
    /\ rest' = text
    /\ pc' = "start" /\ got' = Nothing
    /\ UNCHANGED <<hdr, field>>

Refuse == pc' = "failed" /\ UNCHANGED <<draft, reply, rest, hdr, field, got>>

-----------------------------------------------------------------------------
(***************************************************************************)
(* P_ComDecode.                                                            *)
(***************************************************************************)
Methods == {"CONN", "DISCONN", "RESET", "NOTIFY"}

\* getMsgType: a status line gives its class, a request line its method.
MsgType ==
    IF got["StatusLine"] # <<>> THEN got["StatusLine"][1] \div 100
    ELSE LET method == got["RequestLine"][1]
         IN  IF \E m \in Methods : method = <<Word(m, 6)>> THEN Head(method).word
                                                          ELSE "UNKNOWN"

\* Three digits and a blank make a status line.
IsStatusLine == "num" \in DOMAIN Head(rest) /\ Head(rest).len = 3 /\ rest[2] = SP

DecodeStartLine ==
    /\ pc = "start"
    /\ hdr' = IF IsStatusLine THEN "StatusLine" ELSE "RequestLine"
    /\ pc' = "field" /\ field' = 1
    /\ UNCHANGED <<draft, reply, rest, got>>

\* Mutant: the blank after the colon is not optional.
ReadHCOLON_Blank(s) == Skip(s, 2)

\* ReadHCOLON
ReadHCOLON(s) == IF s[2] = SP THEN Skip(s, 2) ELSE Skip(s, 1)

HeaderLeft == pc = "name" /\ Head(rest) \notin {CR, NUL}

Named(h) ==
    /\ Taken(rest, {COLON, SP}) = <<Name(h)>>
    /\ Fits(rest, {COLON, SP}, HNAME_LTH)
    /\ Head(After(rest, {COLON, SP})) = COLON

HeaderName(h) ==
    /\ HeaderLeft
    /\ Named(h)
    /\ rest' = ReadHCOLON(After(rest, {COLON, SP}))
    /\ pc' = "field" /\ hdr' = h /\ field' = 1
    /\ UNCHANGED <<draft, reply, got>>

\* Mutant: a header that is not known is passed over, but not its text.
BadHeader_Continue ==
    /\ HeaderLeft
    /\ \A h \in Headers : ~Named(h)
    /\ rest' = After(rest, {COLON, SP})
    /\ UNCHANGED <<draft, reply, pc, hdr, field, got>>

\* An unknown header, or no colon, ends the decoding.
BadHeader ==
    /\ HeaderLeft
    /\ \A h \in Headers : ~Named(h)
    /\ Refuse

FieldFits ==
    LET f == Fields[hdr][field]
    IN  IF f.kind = "host" THEN Width(Taken(rest, f.stops)) < f.limit
                           ELSE Fits(rest, f.stops, f.limit)

FieldOr(h, i, none) == IF i <= Len(got[h]) THEN got[h][i] ELSE none

Store(value) ==
    got' = [got EXCEPT ![hdr] = IF field <= Len(@) THEN [@ EXCEPT ![field] = value]
                                                  ELSE Append(@, value)]

\* One copying loop of a Decode function.
ReadField ==
    LET f == Fields[hdr][field]
        old == FieldOr(hdr, field, <<>>)
    IN  /\ pc = "field"
        /\ FieldFits
        /\ Store(Value(f.kind, old, Taken(rest, f.stops)))
        /\ rest' = Skip(After(rest, f.stops), f.skip)
        /\ IF field = Len(Fields[hdr]) THEN pc' = "name" /\ UNCHANGED field
                                       ELSE field' = field + 1 /\ UNCHANGED pc
        /\ UNCHANGED <<draft, reply, hdr>>

\* What a buffer has taken when the loop gives up: it may be full.
Held(f, s) == IF Width(s) < f.limit THEN s ELSE <<Word("head", f.limit)>>

\* A field that ends too late or not at all ends the decoding.  The loop has copied
\* into the session by then; only a number goes to a buffer of the function first.
BadField ==
    LET f == Fields[hdr][field]
        old == FieldOr(hdr, field, <<>>)
    IN  /\ pc = "field"
        /\ ~FieldFits
        /\ IF f.kind \in {"word", "dword"} THEN UNCHANGED got
           ELSE Store(Overwrite(old, Held(f, Taken(rest, f.stops))))
        /\ pc' = "failed"
        /\ UNCHANGED <<draft, reply, rest, hdr, field>>

\* The empty line, or the end of the text where a header could begin.
EndOfHeaders ==
    /\ pc = "name" /\ Head(rest) \in {CR, NUL}
    /\ pc' = "done"
    /\ UNCHANGED <<draft, reply, rest, hdr, field, got>>

-----------------------------------------------------------------------------
(***************************************************************************)
(* The reply.  sendResponse and sendMgrResponse reuse the session that was *)
(* decoded, with its map of headers cleared but for Call-ID and CSeq.      *)
(***************************************************************************)
IPText == Word("127.0.0.1", 9)
LocalPort == 54321

ReplyTo(code, media, body) ==
    [code |-> code, callid |-> FieldOr("CallID", 1, <<>>),
     seq |-> FieldOr("CSeq", 1, 0), method |-> FieldOr("CSeq", 2, <<>>),
     media |-> media, body |-> body]

Send(r) == reply' = r /\ Start(P_ComEncode(r)) /\ UNCHANGED draft

\* Which reply is the business of ControlPlane: the Media header comes with the
\* 200 of a CONN, a body with the 200 of a NOTIFY.
Handle ==
    /\ pc = "done" /\ reply = NoReply /\ MsgType \in Methods
    /\ \E code \in {200, 400, 404, 486}, media \in {<<>>, <<<<IPText>>, LocalPort>>},
          body \in {0, 20, 1023} :
          /\ media # <<>> <=> code = 200 /\ MsgType = "CONN"
          /\ body # 0 => code = 200 /\ MsgType = "NOTIFY"
          /\ Send(ReplyTo(code, media, body))

\* A request that is not decoded gets a 400, with as much of Call-ID and CSeq as the
\* decoder had come to.
Reject == pc = "failed" /\ reply = NoReply /\ Send(ReplyTo(400, <<>>, 0))

Respond == Handle \/ Reject

Init ==
    /\ draft \in Drafts
    /\ reply = NoReply
    /\ rest = Request(draft)
    /\ pc = "start" /\ hdr = "CallID" /\ field = 1
    /\ got = Nothing

Decode ==
    \/ DecodeStartLine
    \/ (\E h \in Headers : HeaderName(h)) \/ BadHeader
    \/ ReadField \/ BadField
    \/ EndOfHeaders

Next == Decode \/ Respond

Spec == Init /\ [][Next]_vars

\* The decoder is a loop of one thread: it goes on until it returns.
FairSpec == Spec /\ WF_vars(Decode)

-----------------------------------------------------------------------------
(***************************************************************************)
(* Correctness.                                                            *)
(***************************************************************************)
Returned == pc \in {"done", "failed"}
AtServer == reply = NoReply
AtClient == ~AtServer

\* What a session holds fits the struct it is held in.
Word16 == 0 .. 65535

\* A buffer that a field has filled is that of the field at which decoding failed.
TypeOK ==
    /\ pc \in {"start", "name", "field", "done", "failed"}
    /\ hdr \in DOMAIN Fields /\ field \in 1 .. Len(Fields[hdr])
    /\ rest # <<>> /\ Last(rest) = NUL
    /\ \A h \in DOMAIN Fields : \A i \in DOMAIN got[h] :
          LET f == Fields[h][i]
          IN  /\ f.kind = "word" => got[h][i] \in Word16
              /\ f.kind = "dword" => got[h][i] \in Int
              /\ f.kind \notin {"word", "dword"} =>
                    \/ Width(got[h][i]) < f.limit
                    \/ /\ pc = "failed" /\ h = hdr /\ i = field
                       /\ Width(got[h][i]) = f.limit

\* A line with a known header and all its values, each short enough for the loop
\* that reads it.  For a Content-Length that is four digits.
Good(l) ==
    /\ l.hdr \in Headers
    /\ Len(l.vals) = Len(Fields[l.hdr])
    /\ \A i \in DOMAIN l.vals : Width(l.vals[i]) < Fields[l.hdr][i].limit

\* Lines after which the decoder is out of step with the lines: one that does not
\* end as the format has it, one whose first field is ended by a delimiter that is
\* missing, and a CSeq without a number, the blank behind which is taken for the one
\* behind the colon.
RunsOn(l, spaced) ==
    \/ l.tail # Closing(l)
    \/ l.hdr \in DOMAIN Between /\ Len(l.vals) = 1
    \/ l.hdr = "CSeq" /\ Len(l.vals) = 2 /\ l.vals[1] = <<>> /\ ~spaced

Meaning(l) ==
    [i \in DOMAIN l.vals |-> Value(Fields[l.hdr][i].kind, <<>>, l.vals[i])]

Lines == {draft.lines[i] : i \in DOMAIN draft.lines}

EachHeaderOnce ==
    \A i, j \in DOMAIN draft.lines :
        draft.lines[i].hdr = draft.lines[j].hdr => i = j

InStep == \A l \in Lines : ~RunsOn(l, draft.spaced)

\* A request of good lines, each header once, is accepted and understood as the
\* lines say, whatever their order, with or without the blanks after the colons
\* and with or without the empty line at the end.
GoodRequestsAreUnderstood ==
    AtServer /\ Returned /\ draft.url /\ EachHeaderOnce /\ InStep
      /\ (\A l \in Lines : Good(l)) =>
        /\ pc = "done"
        /\ \A l \in Lines : got[l.hdr] = Meaning(l)
        /\ \A h \in Headers : (\A l \in Lines : l.hdr # h) => got[h] = <<>>

\* The buffer a value is copied to: a number goes to one of the function.
Room(f) == IF f.kind \in {"word", "dword"} THEN COMMEN_LTH ELSE f.limit

\* A request that is accepted has a URL, and no line with an unknown header, with
\* a value left out or with one too wide for its buffer: one such line anywhere has
\* the whole request refused, unless a line before it has put the decoder out of
\* step.  Nothing else is looked at: values may be empty, and a number no number.
AcceptedRequestsAreWhole ==
    AtServer /\ pc = "done" /\ InStep =>
        /\ draft.url
        /\ \A l \in Lines :
              /\ l.hdr \in Headers
              /\ Len(l.vals) = Len(Fields[l.hdr])
              /\ \A i \in DOMAIN l.vals : Width(l.vals[i]) < Room(Fields[l.hdr][i])

\* A client with the same codec understands every reply, and what it understands is
\* what the server meant: the code, the Call-ID and CSeq of its own request, and the
\* port that was opened for it.  It fails only at what it cannot read itself: a CSeq
\* that "%d" prints with eleven characters, and the 400 to a request whose Call-ID
\* or CSeq method was too wide, which repeats all that fits the buffer.
RepliesMeanWhatWasSent ==
    AtClient =>
        /\ pc = "failed" =>
            \/ Num(reply.seq).len >= 11
            \/ /\ reply.code = 400
               /\ Width(reply.callid) = ID_TOKEN_LTH \/ Width(reply.method) = METHOD_LTH
        /\ pc = "done" =>
            /\ got["StatusLine"][1] = reply.code
            /\ got["CallID"] = <<reply.callid>>
            /\ got["CSeq"] = <<reply.seq, reply.method>>
            /\ got["Media"] = reply.media
            /\ got["ContentLength"] = IF reply.body = 0 THEN <<>> ELSE <<reply.body>>
            /\ got["From"] = <<>> /\ got["Event"] = <<>> /\ got["UserAgent"] = <<>>

\* The decoder returns, whatever the text: no header is read for ever.
DecoderReturns == []<>Returned

=============================================================================
