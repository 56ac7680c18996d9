---------------------------- MODULE MCSignalCodec ----------------------------
(***************************************************************************)
(* Requests for SignalCodec: every sequence of up to two lines out of good *)
(* and bad ones, and of three out of those that bear on one another.       *)
(***************************************************************************)
EXTENDS SignalCodec

\* A line of which no value is empty, and one that ends as it should.
Full(vals) == [i \in DOMAIN vals |-> <<vals[i]>>]

Cut(h, texts, tail) == [hdr |-> h, vals |-> texts, tail |-> tail]

Closed(h, texts) == Cut(h, texts, Closing([hdr |-> h, vals |-> texts]))

L(h, vals) == Closed(h, Full(vals))

UUID == Word("uuid", 36)

GoodLines ==
    {L("CallID", <<UUID>>),
     L("CSeq", <<Num(1), Word("CONN", 6)>>),
     L("From", <<Word("F-007", 5), Word("id", 2)>>),
     L("Media", <<Word("192.168.0.98", 12), Num(54321)>>),
     L("Event", <<Word("logon-state", 11)>>),
     L("ContentLength", <<Num(1024)>>),
     L("UserAgent", <<Word("WifiClient", 14)>>)}

\* 3000000000 as the client prints it, in ten characters.  What atoi makes of a
\* number that fits no int is up to the C library: it wraps, or it saturates.
BigSeqs == {[num |-> -1294967296, len |-> 10], Num(2147483647)}

EdgeLines ==
    {L("CSeq", <<n, Word("CONN", 6)>>) : n \in BigSeqs} \cup
    {L("Media", <<Word("192.168.0.98", 12), Num(99999)>>),
     L("CallID", <<Word("long", 48)>>),
     L("ContentLength", <<Num(65535)>>),
     L("From", <<Word("F-007", 5)>>),
     L("CSeq", <<Num(1)>>),
     L("Media", <<Word("192.168.0.98", 12)>>),
     L("From", <<>>),
     L("CSeq", <<Num(1), Word("long", 16)>>),
     L("Media", <<Word("192.168.0.98", 12), Word("x", 1)>>),
     L("Other", <<Word("x", 1)>>)}

\* Lines with an empty value, and lines that do not end as they should.
BrokenLines ==
    {Closed("CallID", <<<<>>>>),
     Closed("CSeq", <<<<>>, <<Word("CONN", 6)>>>>),
     Closed("From", <<<<>>, <<>>>>),
     Closed("Media", <<<<>>, <<>>>>),
     Cut("From", <<<<Word("F-007", 5)>>, <<Word("id", 2)>>>>, EOL),
     Cut("CallID", <<<<UUID>>>>, <<CR>>),
     Cut("CallID", <<<<UUID>>>>, <<LF>>),
     Cut("UserAgent", <<<<Word("x", 1)>>>>, <<SP, AT, Word("x", 1), CR, LF>>)}

AllLines == GoodLines \cup EdgeLines \cup BrokenLines

\* Lines for the longest drafts: the edges of one-field headers do not depend on
\* what stands around them.
LongDraftLines ==
    {l \in GoodLines \cup EdgeLines : l.hdr \notin {"Event", "UserAgent", "ContentLength"}}

MCWords ==
    {"CONN", "NOTIFY", "HELLO", "uuid", "F-007", "id", "192.168.0.98", "logon-state",
     "WifiClient", "long", "x"}

Draft(method, url, lines, spaced, ended) ==
    [method |-> method, url |-> url, lines |-> lines, spaced |-> spaced, ended |-> ended]

MCDrafts ==
    {Draft("CONN", TRUE, ls, s, e) :
        ls \in BoundedSeq(AllLines, 2), s \in BOOLEAN, e \in BOOLEAN}
    \cup {Draft("NOTIFY", TRUE, ls, s, TRUE) : ls \in BoundedSeq(GoodLines, 2), s \in BOOLEAN}
    \cup {Draft("CONN", FALSE, ls, TRUE, TRUE) : ls \in BoundedSeq(AllLines, 1)}
    \cup {Draft("HELLO", TRUE, ls, TRUE, TRUE) : ls \in BoundedSeq(AllLines, 1)}
    \cup {Draft("CONN", TRUE, ls, TRUE, TRUE) : ls \in SeqOf(LongDraftLines, 3)}
=============================================================================
