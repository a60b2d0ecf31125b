----------------------------- MODULE HttpParsing -----------------------------
(***************************************************************************)
(* The parsers of Simple-Web-Server (src/http/utility.hpp): percent        *)
(* coding, query strings, header fields, request and status lines, and the *)
(* attributes in a field's value; and the match condition with which the   *)
(* client looks for the end of a head (src/http/client_http.hpp).          *)
(*                                                                         *)
(* A text is a sequence of character codes.  Positions count from 0 as in  *)
(* the code; Npos stands for std::string::npos.  What is negative is a     *)
(* huge unsigned number in the code: a position beyond every text, and a   *)
(* length that reaches to the end.  The parsers are noexcept: a substr     *)
(* that begins beyond the end of its text would terminate the process; it  *)
(* gives Thrown here.                                                      *)
(*                                                                         *)
(* The states are the texts: each step appends one token.                  *)
(***************************************************************************)
EXTENDS Integers, Sequences, FiniteSets, SequencesExt

CONSTANTS
    Tokens,     \* Tokens[form]: what texts of that form are made of
    MaxTokens   \* bound: tokens in a text

Forms == {"percent", "query", "header", "request", "status", "attributes", "end"}

ASSUME TokensAssumption == Tokens \in [Forms -> SUBSET Seq(0..255)] /\ MaxTokens \in [Forms -> Nat]

VARIABLES form, text, tokens

textVars == <<form, text, tokens>>

LF == 10  CR == 13  SP == 32  Quote == 34  Percent == 37  Amp == 38  Plus == 43  Minus == 45
Slash == 47  Colon == 58  Semicolon == 59  Equal == 61  Question == 63

HTTP == <<72, 84, 84, 80>>

Npos == -1

Thrown == <<-1>>

At(s, i) == s[i + 1]

Find(s, ch, from) ==
    LET hits == {i \in from..(Len(s) - 1) : At(s, i) = ch}
    IN  IF hits = {} THEN Npos ELSE CHOOSE i \in hits : \A j \in hits : i <= j

Substr(s, pos, n) ==
    IF pos \notin 0..Len(s) THEN Thrown
    ELSE IF n < 0 \/ pos + n > Len(s) THEN SubSeq(s, pos + 1, Len(s))
    ELSE SubSeq(s, pos + 1, pos + n)

From(s, pos) == Substr(s, pos, Npos)

Field(name, value) == [name |-> name, value |-> value]

-----------------------------------------------------------------------------
(* Percent coding.                                                         *)

Unreserved(ch) == ch \in (48..57) \cup (65..90) \cup (97..122) \cup {45, 46, 95, 126}

HexChar(n) == IF n < 10 THEN 48 + n ELSE 55 + n

Encode(s) ==
    FlattenSeq([i \in 1..Len(s) |->
        IF Unreserved(s[i]) THEN <<s[i]>>
        ELSE <<Percent, HexChar(s[i] \div 16), HexChar(s[i] % 16)>>])

HexValue(ch) ==
    CASE ch \in 48..57 -> ch - 48
      [] ch \in 65..70 -> ch - 55
      [] ch \in 97..102 -> ch - 87
      [] OTHER -> -1

\* strtol of two characters in base 16, as a character: it skips blanks, takes
\* a sign, and stops at what is no digit.
Strtol(a, b) ==
    LET x == HexValue(a)  y == HexValue(b) IN
    CASE x >= 0 /\ y >= 0 -> 16 * x + y
      [] x >= 0 /\ y < 0 -> x
      [] a \in {SP, Plus} \cup (9..13) /\ y >= 0 -> y
      [] a = Minus /\ y >= 0 -> (256 - y) % 256
      [] OTHER -> 0

\* Character i, unless it belongs to a code that was decoded before.
DecodeStep(s, acc, i) ==
    CASE i <= acc.skip -> acc
      [] i > acc.skip /\ s[i] = Percent /\ i + 2 <= Len(s) ->
            [out |-> Append(acc.out, Strtol(s[i + 1], s[i + 2])), skip |-> i + 2]
      [] i > acc.skip /\ s[i] = Plus -> [acc EXCEPT !.out = Append(@, SP)]
      [] OTHER -> [acc EXCEPT !.out = Append(@, s[i])]

Decode(s) ==
    LET decoded[i \in 0..Len(s)] ==
            IF i = 0 THEN [out |-> <<>>, skip |-> 0] ELSE DecodeStep(s, decoded[i - 1], i)
    IN  decoded[Len(s)].out

-----------------------------------------------------------------------------
(* Query strings.  The fields are kept in the order of their insertion.    *)

QueryCreate(fields) ==
    FlattenSeq([i \in 1..Len(fields) |->
        (IF i = 1 THEN <<>> ELSE <<Amp>>)
            \o fields[i].name \o <<Equal>> \o Encode(fields[i].value)])

\* A field that ends before c, unless its name is empty.
QueryField(q, s, c) ==
    LET name == Substr(q, s.name, (IF s.nameEnd = Npos THEN c ELSE s.nameEnd) - s.name)
        value == IF s.value \notin 0..(Len(q) - 1) THEN <<>> ELSE Substr(q, s.value, c - s.value)
    IN  IF name = <<>> THEN <<>> ELSE <<Field(name, Decode(value))>>

\* slip: the position of the value is kept from one field to the next.
QueryStepStale(q, s, c) ==
    CASE At(q, c) = Amp ->
            [s EXCEPT !.fields = @ \o QueryField(q, s, c), !.name = c + 1, !.nameEnd = Npos]
      [] At(q, c) = Equal -> [s EXCEPT !.nameEnd = c, !.value = c + 1]
      [] OTHER -> s

\* What the loop does with character c.
QueryStep(q, s, c) ==
    CASE At(q, c) = Amp ->
            [fields |-> s.fields \o QueryField(q, s, c),
             name |-> c + 1, nameEnd |-> Npos, value |-> Npos]
      [] At(q, c) = Equal -> [s EXCEPT !.nameEnd = c, !.value = c + 1]
      [] OTHER -> s

QueryScan(q) ==
    LET scan[i \in 0..Len(q)] ==
            IF i = 0 THEN [fields |-> <<>>, name |-> 0, nameEnd |-> Npos, value |-> Npos]
            ELSE QueryStep(q, scan[i - 1], i - 1)
    IN  scan[Len(q)]

QueryParse(q) ==
    LET s == QueryScan(q)
    IN  IF s.name < Len(q) THEN s.fields \o QueryField(q, s, Len(q)) ELSE s.fields

-----------------------------------------------------------------------------
(* Header fields, request and status lines.                                *)

\* getline: the lines of a stream, without their line feeds.
Lines(s) ==
    FlattenSeq([i \in 1..Len(s) |->
        IF i = 1 \/ s[i - 1] = LF
        THEN <<Substr(s, i - 1, Find(s, LF, i - 1) - (i - 1))>>
        ELSE <<>>])

EndsInCR(line) == line # <<>> /\ Last(line) = CR

\* Blanks before the value are skipped, but not the last character of a line.
HeaderField(line) ==
    LET colon == Find(line, Colon, 0)
        starts == {i \in (colon + 1)..(Len(line) - 1) :
                      \A j \in (colon + 1)..(i - 1) : At(line, j) = SP}
        start == CHOOSE i \in starts : At(line, i) # SP \/ i = Len(line) - 1
    IN  IF colon = Npos \/ colon + 1 >= Len(line) THEN <<>>
        ELSE <<Field(Substr(line, 0, colon),
                     Substr(line, start, Len(line) - start - (IF EndsInCR(line) THEN 1 ELSE 0)))>>

\* The fields end at the first line without a colon.
HeaderParse(stream) ==
    LET lines == Lines(stream)
        ends == {i \in 1..Len(lines) : Find(lines[i], Colon, 0) = Npos}
        n == IF ends = {} THEN Len(lines) ELSE (CHOOSE i \in ends : \A j \in ends : i <= j) - 1
    IN  FlattenSeq([i \in 1..n |-> HeaderField(lines[i])])

\* Response::write_header of the server, but for the length.
HeaderWrite(fields) ==
    FlattenSeq([i \in 1..Len(fields) |->
        fields[i].name \o <<Colon, SP>> \o fields[i].value \o <<CR, LF>>]) \o <<CR, LF>>

Rejected == [ok |-> FALSE]

FirstLine(stream) == Substr(stream, 0, Find(stream, LF, 0))

Rest(stream) ==
    LET e == Find(stream, LF, 0) IN IF e = Npos THEN <<>> ELSE From(stream, e + 1)

\* RequestMessage::parse: the query begins after the last question mark, and
\* the version loses its last character, which should be a carriage return.
RequestParse(stream) ==
    LET line == FirstLine(stream)
        methodEnd == Find(line, SP, 0)
        uriEnd == IF methodEnd = Npos THEN Npos ELSE Find(line, SP, methodEnd + 1)
        marks == {i \in (methodEnd + 1)..(Len(line) - 2) : i < uriEnd /\ At(line, i) = Question}
        query == IF marks = {} THEN Npos ELSE 1 + CHOOSE i \in marks : \A j \in marks : j <= i
        slash == IF uriEnd = Npos THEN Npos ELSE Find(line, Slash, uriEnd + 1)
    IN  IF methodEnd = Npos \/ uriEnd = Npos \/ slash = Npos
           \/ Substr(line, uriEnd + 1, slash - uriEnd - 1) # HTTP
        THEN Rejected
        ELSE [ok |-> TRUE, method |-> Substr(line, 0, methodEnd),
              path |-> IF query = Npos THEN Substr(line, methodEnd + 1, uriEnd - methodEnd - 1)
                       ELSE Substr(line, methodEnd + 1, query - methodEnd - 2),
              query |-> IF query = Npos THEN <<>> ELSE Substr(line, query, uriEnd - query),
              version |-> Substr(line, slash + 1, Len(line) - slash - 2),
              header |-> HeaderParse(Rest(stream))]

\* slip: the length of the line is not looked at.
StatusParseUnchecked(stream) ==
    LET line == FirstLine(stream)
        versionEnd == Find(line, SP, 0)
    IN  IF versionEnd = Npos THEN Rejected
        ELSE [ok |-> TRUE, version |-> Substr(line, 5, versionEnd - 5),
              status |-> Substr(line, versionEnd + 1,
                                Len(line) - (versionEnd + 1) - (IF EndsInCR(line) THEN 1 ELSE 0)),
              header |-> HeaderParse(Rest(stream))]

\* ResponseMessage::parse: five characters are skipped for "HTTP/".
StatusParse(stream) ==
    LET line == FirstLine(stream)
        versionEnd == Find(line, SP, 0)
    IN  IF versionEnd = Npos \/ Len(line) <= 5 \/ versionEnd + 1 >= Len(line) THEN Rejected
        ELSE [ok |-> TRUE, version |-> Substr(line, 5, versionEnd - 5),
              status |-> Substr(line, versionEnd + 1,
                                Len(line) - (versionEnd + 1) - (IF EndsInCR(line) THEN 1 ELSE 0)),
              header |-> HeaderParse(Rest(stream))]

-----------------------------------------------------------------------------
(* SemicolonSeparatedAttributes, for Set-Cookie and Content-Disposition.   *)

\* The attributes so far, and no other begun.
Between(fields) == [fields |-> fields, name |-> Npos, nameEnd |-> Npos, value |-> Npos]

\* slip: a closing quote leaves the end of the name behind.
AttributeStepStale(v, s, c) ==
    CASE s.name = Npos /\ At(v, c) \notin {SP, Semicolon} -> [s EXCEPT !.name = c]
      [] s.name # Npos /\ s.nameEnd = Npos /\ At(v, c) = Semicolon ->
            [s EXCEPT !.name = Npos, !.fields = Append(@, Field(Substr(v, s.name, c - s.name), <<>>))]
      [] s.name # Npos /\ s.nameEnd = Npos /\ At(v, c) = Equal -> [s EXCEPT !.nameEnd = c]
      [] s.nameEnd # Npos /\ s.value = Npos ->
            [s EXCEPT !.value = IF At(v, c) = Quote /\ c + 1 < Len(v) THEN c + 1 ELSE c]
      [] s.value # Npos /\ At(v, c) \in {Quote, Semicolon} ->
            [s EXCEPT !.name = Npos, !.value = Npos,
                      !.fields = Append(@, Field(Substr(v, s.name, s.nameEnd - s.name),
                                                 Decode(Substr(v, s.value, c - s.value))))]
      [] OTHER -> s

\* What the loop does with character c.
AttributeStep(v, s, c) ==
    CASE s.name = Npos /\ At(v, c) \notin {SP, Semicolon} -> [s EXCEPT !.name = c]
      [] s.name # Npos /\ s.nameEnd = Npos /\ At(v, c) = Semicolon ->
            [s EXCEPT !.name = Npos, !.fields = Append(@, Field(Substr(v, s.name, c - s.name), <<>>))]
      [] s.name # Npos /\ s.nameEnd = Npos /\ At(v, c) = Equal -> [s EXCEPT !.nameEnd = c]
      [] s.nameEnd # Npos /\ s.value = Npos ->
            [s EXCEPT !.value = IF At(v, c) = Quote /\ c + 1 < Len(v) THEN c + 1 ELSE c]
      [] s.value # Npos /\ At(v, c) \in {Quote, Semicolon} ->
            Between(Append(s.fields, Field(Substr(v, s.name, s.nameEnd - s.name),
                                           Decode(Substr(v, s.value, c - s.value)))))
      [] OTHER -> s

\* After the loop: an attribute that the text's end cuts off.  A value that
\* ends in a quote, which can only be a quote by itself, keeps it.
AttributesParse(v) ==
    LET scan[i \in 0..Len(v)] ==
            IF i = 0 THEN Between(<<>>) ELSE AttributeStep(v, scan[i - 1], i - 1)
        s == scan[Len(v)]
        last == CASE s.name = Npos -> <<>>
                  [] s.name # Npos /\ s.nameEnd = Npos -> <<Field(From(v, s.name), <<>>)>>
                  [] s.nameEnd # Npos /\ s.value = Npos -> <<>>
                  [] s.value # Npos ->
                        <<Field(Substr(v, s.name, s.nameEnd - s.name),
                                Decode(Substr(v, s.value,
                                              IF Last(v) = Quote THEN Len(v) - 1 ELSE Npos)))>>
    IN  s.fields \o last

-----------------------------------------------------------------------------
(* HeaderEndMatch: two counters, kept from one portion to the next.        *)

\* slip: a carriage return within a line does not set the count back.
EndStepLenient(s, ch) ==
    CASE s.found -> s
      [] ~s.found /\ ch = LF ->
            [crlf |-> CASE s.crlf = 1 -> 2 [] s.crlf = 2 -> 0 [] OTHER -> s.crlf,
             lf |-> 1, found |-> s.crlf = 3 \/ s.lf = 1, at |-> s.at + 1]
      [] ~s.found /\ ch = CR ->
            [crlf |-> CASE s.crlf = 0 -> 1 [] s.crlf = 2 -> 3 [] OTHER -> s.crlf,
             lf |-> 0, found |-> FALSE, at |-> s.at + 1]
      [] OTHER -> [s EXCEPT !.lf = 0, !.at = @ + 1]

EndStep(s, ch) ==
    CASE s.found -> s
      [] ~s.found /\ ch = LF ->
            [crlf |-> CASE s.crlf = 1 -> 2 [] s.crlf = 2 -> 0 [] OTHER -> s.crlf,
             lf |-> 1, found |-> s.crlf = 3 \/ s.lf = 1, at |-> s.at + 1]
      [] ~s.found /\ ch = CR ->
            [crlf |-> CASE s.crlf = 0 -> 1 [] s.crlf = 2 -> 3 [] OTHER -> 0,
             lf |-> 0, found |-> FALSE, at |-> s.at + 1]
      [] OTHER -> [crlf |-> 0, lf |-> 0, found |-> FALSE, at |-> s.at + 1]

HeadEnd(s) ==
    LET match[i \in 0..Len(s)] ==
            IF i = 0 THEN [crlf |-> 0, lf |-> 0, found |-> FALSE, at |-> 0]
            ELSE EndStep(match[i - 1], s[i])
    IN  match[Len(s)]

-----------------------------------------------------------------------------

Empty == form \in Forms /\ text = <<>> /\ tokens = 0

Grow ==
    /\ tokens < MaxTokens[form]
    /\ \E t \in Tokens[form] : text' = text \o t
    /\ tokens' = tokens + 1
    /\ UNCHANGED form

Growth == Empty /\ [][Grow]_textVars

-----------------------------------------------------------------------------

\* Any text, as far as it has come, is parsed without an exception.
NeverThrows ==
    LET whole(fields) == \A i \in 1..Len(fields) : Thrown \notin {fields[i].name, fields[i].value}
    IN  /\ form = "query" => whole(QueryParse(text))
        /\ form = "header" => whole(HeaderParse(text))
        /\ form = "attributes" => whole(AttributesParse(text))
        /\ form = "request" => LET r == RequestParse(text) IN
              r.ok => Thrown \notin {r.method, r.path, r.query, r.version} /\ whole(r.header)
        /\ form = "status" => LET r == StatusParse(text) IN
              r.ok => Thrown \notin {r.version, r.status} /\ whole(r.header)

\* Decoding undoes encoding, for any bytes.
PercentInverse == form = "percent" => Decode(Encode(text)) = text

\* The field in a text without ampersands: before and after its last equals sign.
PieceField(p) ==
    LET equals == {i \in 1..Len(p) : p[i] = Equal}
        e == IF equals = {} THEN 0 ELSE CHOOSE i \in equals : \A j \in equals : j <= i
        name == IF e = 0 THEN p ELSE SubSeq(p, 1, e - 1)
    IN  IF name = <<>> THEN <<>>
        ELSE <<Field(name, IF e = 0 THEN <<>> ELSE Decode(SubSeq(p, e + 1, Len(p))))>>

\* The scan with its three positions finds what splitting the text finds.
QueryIsSplit ==
    form = "query" => QueryParse(text) =
        FlattenSeq([i \in 1..(Len(text) + 1) |->
            IF i = 1 \/ text[i - 1] = Amp
            THEN PieceField(Substr(text, i - 1, Find(text, Amp, i - 1) - (i - 1)))
            ELSE <<>>])

\* A query string created from parsed fields has the same fields.
QueryRoundTrip ==
    form = "query" => QueryParse(QueryCreate(QueryParse(text))) = QueryParse(text)

\* Fields that were read and are written again, as a response or a proxy would,
\* are read the same; but a value that is one blank, read so from a line that
\* ends in it, is read as none.
HeaderRoundTrip ==
    form = "header" =>
        LET fields == HeaderParse(text)
        IN  HeaderParse(HeaderWrite(fields))
                = [i \in 1..Len(fields) |->
                      IF fields[i].value = <<SP>> THEN Field(fields[i].name, <<>>) ELSE fields[i]]

\* The parts of an accepted request line make up the line, and a line that ends
\* as it should is accepted if it has a method, a target and "HTTP/".
RequestIsLine ==
    form = "request" =>
        LET r == RequestParse(text)  line == FirstLine(text)
            target(x) == x.path \o (IF x.query = <<>> THEN <<>> ELSE <<Question>> \o x.query)
        IN  /\ r.ok => \/ IsPrefix(r.method \o <<SP>> \o target(r) \o <<SP>> \o HTTP \o <<Slash>>
                                      \o r.version, line)
                       \/ r.query = <<>> /\ IsPrefix(r.method \o <<SP>> \o r.path \o <<Question>>, line)
            /\ r.ok <=> \E i \in 1..Len(line) : \E j \in (i + 1)..Len(line) :
                   /\ line[i] = SP /\ line[j] = SP
                   /\ \A k \in 1..(j - 1) : k # i => line[k] # SP
                   /\ IsPrefix(HTTP \o <<Slash>>, SubSeq(line, j + 1, Len(line)))

\* The parts of an accepted status line make up the line.
StatusIsLine ==
    form = "status" =>
        LET r == StatusParse(text)  line == FirstLine(text)
        IN  r.ok /\ IsPrefix(HTTP \o <<Slash>>, line) =>
                line = HTTP \o <<Slash>> \o r.version \o <<SP>> \o r.status
                          \o (IF EndsInCR(line) THEN <<CR>> ELSE <<>>)

\* What a parser takes apart makes up the text it was given.
TakenApart == QueryIsSplit /\ RequestIsLine /\ StatusIsLine

Quoted(fields) ==
    FlattenSeq([i \in 1..Len(fields) |->
        (IF i = 1 THEN <<>> ELSE <<Semicolon, SP>>)
            \o fields[i].name \o <<Equal, Quote>> \o fields[i].value \o <<Quote>>])

\* Attributes that were read and are written with quotes are read the same,
\* unless a name has an equals sign, or a value what ends it or is decoded again.
AttributesRoundTrip ==
    form = "attributes" =>
        LET fields == AttributesParse(text)
            plain(f) == Equal \notin ToSet(f.name) /\ ToSet(f.value) \cap {Quote, Semicolon, Percent, Plus} = {}
        IN  (\A i \in 1..Len(fields) : plain(fields[i])) =>
                AttributesParse(Quoted(fields)) = fields

\* What was read and is written again is read the same.
RoundTrip == PercentInverse /\ QueryRoundTrip /\ HeaderRoundTrip /\ AttributesRoundTrip

\* The first i characters of s end in t.
EndsIn(s, i, t) == i >= Len(t) /\ SubSeq(s, i - Len(t) + 1, i) = t

\* The end of a head is found where the first blank line ends; a line that ends
\* in two carriage returns may hide it, but never is an end found where there
\* is none.
HeadEndIsBlankLine ==
    form = "end" =>
        LET e == HeadEnd(text)
            blank(i) == EndsIn(text, i, <<CR, LF, CR, LF>>) \/ EndsIn(text, i, <<LF, LF>>)
        IN  /\ e.found => e.at <= Len(text) /\ blank(e.at)
            /\ (\A i \in 1..Len(text) : ~EndsIn(text, i, <<CR, CR>>)) =>
                  \A i \in 1..Len(text) : blank(i) => e.found /\ e.at <= i
==============================================================================
