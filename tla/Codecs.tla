-------------------------------- MODULE Codecs --------------------------------
(***************************************************************************)
(* Three algorithms of the library that have no state: the parameters of a *)
(* header (asyncio/httputil.cpp), the path of a relative reference         *)
(* (httputils/urlparse.cpp) and the lengths of WebSocket frames            *)
(* (asyncio/websocket.cpp).  Each is run on an input of its own and is     *)
(* compared with what the input was made from.                             *)
(*                                                                         *)
(* A text is a sequence of characters, its positions count from 0 as those *)
(* of std::string do; a path is the sequence of its segments.  Masking, an *)
(* exclusive or with the key, is left out.                                 *)
(***************************************************************************)
EXTENDS Integers, Sequences, FiniteSetsExt, SequencesExt

CONSTANTS
    Headers,   \* sequences of parameters [name, value, quoted]
    Joins,     \* pairs [base, path] of paths
    Frames     \* sequences of frames [fin, opcode, masked, length]

VARIABLES
    input,   \* what is encoded, with its kind
    output,  \* what was read from it
    done     \* output has been computed

vars == <<input, output, done>>

-----------------------------------------------------------------------------
\* Texts: std::string::find and String::count

Npos == -1

Find(s, c, from) ==
    LET at == {i \in from..(Len(s) - 1) : s[i + 1] = c}
    IN  IF at = {} THEN Npos ELSE Min(at)

\* A length of 0 stands for the whole text.
CountedTo(s, len) == IF len = 0 THEN Len(s) ELSE Min({len, Len(s)})

Quotes(s, len) == Cardinality({i \in 1..CountedTo(s, len) : s[i] = "\""})

EscapedQuotes(s, len) ==
    Cardinality({i \in 1..(CountedTo(s, len) - 1) : s[i] = "\\" /\ s[i + 1] = "\""})

Blank == {" "}
RECURSIVE TrimLeft(_)
TrimLeft(s) == IF s # <<>> /\ Head(s) \in Blank THEN TrimLeft(Tail(s)) ELSE s
Trim(s) == Reverse(TrimLeft(Reverse(TrimLeft(s))))

\* boost::replace_all of an escaped character by the character
RECURSIVE Unescape(_, _)
Unescape(s, c) ==
    IF Len(s) < 2 THEN s
    ELSE IF s[1] = "\\" /\ s[2] = c THEN <<c>> \o Unescape(SubSeq(s, 3, Len(s)), c)
    ELSE <<s[1]>> \o Unescape(Tail(s), c)

-----------------------------------------------------------------------------
\* HTTPUtil::parseParam and parseHeader

\* Mutant: an escaped quote counts as a quote.
InQuotesEscaped(s, end) == Quotes(s, end) % 2 # 0

InQuotes(s, end) == (Quotes(s, end) - EscapedQuotes(s, end)) % 2 # 0

\* The first ';' ends the parameter, unless it is quoted: then a quote behind it.
RECURSIVE ParamEnd(_, _)
ParamEnd(s, end) ==
    IF end = Npos THEN Len(s)
    ELSE IF InQuotes(s, end) THEN ParamEnd(s, Find(s, "\"", end + 1)) ELSE end

RECURSIVE ParseParam(_)
ParseParam(s) ==
    IF s = <<>> \/ Head(s) # ";" THEN <<>>
    ELSE LET rest == Tail(s)
             end == ParamEnd(rest, Find(rest, ";", 0))
         IN  <<Trim(SubSeq(rest, 1, end))>> \o ParseParam(SubSeq(rest, end + 1, Len(rest)))

Unquoted(v) ==
    IF Len(v) >= 2 /\ v[1] = "\"" /\ Last(v) = "\""
    THEN Unescape(Unescape(SubSeq(v, 2, Len(v) - 1), "\\"), "\"") ELSE v

\* The parameters of a header by name; of equal names the last one counts.
ParseHeader(line) ==
    LET parts == Tail(ParseParam(<<";">> \o line))
        named == SelectSeq(parts, LAMBDA p : Find(p, "=", 0) # Npos)
        Name(p) == Trim(SubSeq(p, 1, Find(p, "=", 0)))
        Value(p) == Unquoted(Trim(SubSeq(p, Find(p, "=", 0) + 2, Len(p))))
    IN  [n \in {Name(named[i]) : i \in DOMAIN named} |->
             Value(named[SelectLastInSubSeq(named, 1, Len(named), LAMBDA p : Name(p) = n)])]

-----------------------------------------------------------------------------
\* URLParse::urlJoin on the segments of two paths

DropLastDot(segments) ==
    IF Last(segments) = "." THEN [segments EXCEPT ![Len(segments)] = ""] ELSE segments

\* A ".." that follows a name is taken out with it, the first one first; the
\* last segment is left to LastUp.
Ups(segments) ==
    {i \in 2..(Len(segments) - 1) :
        segments[i] = ".." /\ segments[i - 1] \notin {"", ".."}}

RECURSIVE TakeUps(_)
TakeUps(segments) ==
    IF Ups(segments) = {} THEN segments
    ELSE LET i == Min(Ups(segments))
         IN  TakeUps(RemoveAt(RemoveAt(segments, i), i - 1))

\* Mutant: a ".." at the end stays.
LastUpKept(segments) == segments

LastUp(segments) ==
    IF segments = <<"", "..">> THEN <<"", "">>
    ELSE IF Len(segments) > 2 /\ Last(segments) = ".."
    THEN Append(SubSeq(segments, 1, Len(segments) - 2), "")
    ELSE segments

URLJoin(base, path) ==
    LET segments == SelectSeq(DropLastDot(Front(base) \o path), LAMBDA s : s # ".")
    IN  LastUp(TakeUps(segments))

-----------------------------------------------------------------------------
\* WebSocketProtocol13::writeFrame, onFrameStart, onFrameLength16 and 64

RECURSIVE BigEndian(_, _)
BigEndian(n, bytes) ==
    IF bytes = 0 THEN <<>> ELSE Append(BigEndian(n \div 256, bytes - 1), n % 256)

FromBigEndian(bytes) == FoldLeft(LAMBDA n, b : 256 * n + b, 0, bytes)

MaskKey == <<1, 2, 3, 4>>
Payload(n) == [i \in 1..n |-> 0]

\* Mutant: 126 is written as the length itself.
LengthFieldShort(n, bit) ==
    CASE n < 127 -> <<n + bit>>
      [] n \in 127..65535 -> <<126 + bit>> \o BigEndian(n % 65536, 2)
      [] OTHER -> <<127 + bit>> \o BigEndian(n, 8)

LengthField(n, bit) ==
    CASE n < 126 -> <<n + bit>>
      [] n \in 126..65535 -> <<126 + bit>> \o BigEndian(n % 65536, 2)
      [] OTHER -> <<127 + bit>> \o BigEndian(n, 8)

\* A frame without a payload is sent without a key, also when its bit is set.
WriteFrame(f) ==
    <<(IF f.fin THEN 128 ELSE 0) + f.opcode>>
        \o LengthField(f.length, IF f.masked THEN 128 ELSE 0)
        \o (IF f.masked /\ f.length > 0 THEN MaskKey ELSE <<>>) \o Payload(f.length)

\* The frames in what has arrived: a refused frame ends them (abort), and one
\* that is not complete waits.
RECURSIVE ReadFrames(_)
ReadFrames(wire) ==
    LET first == wire[2] % 128
        bytes == CASE first = 126 -> 2 [] first = 127 -> 8 [] OTHER -> 0
        length == IF bytes = 0 THEN first ELSE FromBigEndian(SubSeq(wire, 3, 2 + bytes))
        start == 2 + bytes + IF wire[2] >= 128 THEN 4 ELSE 0
        opcode == wire[1] % 16
        frame == [fin |-> wire[1] >= 128, opcode |-> opcode,
                  data |-> SubSeq(wire, start + 1, start + length)]
    IN  IF \/ Len(wire) < 2
           \/ (wire[1] \div 16) % 8 # 0
           \/ opcode >= 8 /\ first >= 126
           \/ Len(wire) < 2 + bytes
           \/ Len(wire) < start + length
        THEN <<>>
        ELSE <<frame>> \o ReadFrames(SubSeq(wire, start + length + 1, Len(wire)))

-----------------------------------------------------------------------------
\* What is encoded: the parameters of a header as the test of special file names
\* writes them, a pair of paths, frames

Escaped(v) ==
    FoldLeft(LAMBDA s, c : s \o IF c \in {"\\", "\""} THEN <<"\\", c>> ELSE <<c>>, <<>>, v)

Header(params) ==
    FoldLeft(LAMBDA s, p : s \o <<";", " ">> \o p.name \o <<"=">>
                 \o IF p.quoted THEN <<"\"">> \o Escaped(p.value) \o <<"\"">> ELSE p.value,
             <<"k">>, params)

Wire(frames) == FoldLeft(LAMBDA bytes, f : bytes \o WriteFrame(f), <<>>, frames)

CodecsInit ==
    /\ input \in [kind : {"header"}, of : Headers] \cup [kind : {"path"}, of : Joins]
                 \cup [kind : {"frames"}, of : Frames]
    /\ output = <<>> /\ done = FALSE

Parse == input.kind = "header" /\ output' = ParseHeader(Header(input.of))
Join == input.kind = "path" /\ output' = URLJoin(input.of.base, input.of.path)
Receive == input.kind = "frames" /\ output' = ReadFrames(Wire(input.of))

CodecsNext == ~done /\ done' = TRUE /\ UNCHANGED input /\ (Parse \/ Join \/ Receive)

CodecsSpec == CodecsInit /\ [][CodecsNext]_vars

-----------------------------------------------------------------------------
\* Properties

Read(kind) == done /\ input.kind = kind

\* The parameters of a header are read as they were written, whatever quotes,
\* backslashes and semicolons the last value holds.  A value before the last may
\* hold no semicolon and end in no backslash: behind a quoted semicolon
\* parseParam looks for the next quote and not for the next semicolon, and an
\* escaped backslash before the closing quote is taken for an escaped quote.
ParamsParsed ==
    LET params == input.of
        Plain(v) == \A j \in DOMAIN v : v[j] # ";" /\ (v[j] = "\\" => j < Len(v))
        Value(n) == (CHOOSE i \in DOMAIN params :
                         /\ params[i].name = n
                         /\ \A j \in DOMAIN params : j > i => params[j].name # n)
    IN  Read("header") /\ (\A i \in DOMAIN params : i < Len(params) => Plain(params[i].value)) =>
            output = [n \in {params[i].name : i \in DOMAIN params} |-> params[Value(n)].value]

\* A relative reference is resolved as RFC 3986 says: the names of the base but
\* the last, then those of the reference, where "." stays and ".." goes up.
\* References that leave the root keep their ".." in this code.
JoinResolves ==
    LET all == Front(input.of.base) \o input.of.path
        Up(s) == IF s = <<>> THEN s ELSE Front(s)
        Step(s, name) == CASE name = "." -> s [] name = ".." -> Up(s) [] OTHER -> Append(s, name)
        Names(n) == FoldLeft(Step, <<>>, SubSeq(all, 2, n))
        climbs == \E n \in 2..Len(all) : all[n] = ".." /\ Names(n - 1) = <<>>
        dir == Last(all) \in {".", ".."}
    IN  Read("path") /\ ~climbs =>
            output = <<"">> \o Names(Len(all)) \o IF dir THEN <<"">> ELSE <<>>

\* Frames are received as they were sent, at every length where their format
\* changes.  A masked frame without a payload is excepted: it lacks the key that
\* the reader waits for.
FramesUnderstood ==
    Read("frames") /\ (\A i \in DOMAIN input.of : ~(input.of[i].masked /\ input.of[i].length = 0)) =>
        output = [i \in DOMAIN input.of |->
                     [fin |-> input.of[i].fin, opcode |-> input.of[i].opcode,
                      data |-> Payload(input.of[i].length)]]
=============================================================================
