----------------------------- MODULE HttpClient -----------------------------
(***************************************************************************)
(* http::HttpClient and its parser of responses.                           *)
(*                                                                         *)
(* get takes a URL apart: its host and port are where the client connects, *)
(* its path is what the request asks for.                                  *)
(*                                                                         *)
(* The bytes of a response arrive in pieces.  Each piece is appended to    *)
(* readBuffer_ and the whole buffer is parsed again from its first byte,   *)
(* until a parse ends well: then the callback is called and the response   *)
(* leaves the buffer.                                                      *)
(*                                                                         *)
(* A byte is a token: "CR", "LF", a name, a value, a digit or a byte of a  *)
(* body stand for one byte each, so that a piece may end between any two   *)
(* of them.  nullptr is what findCRLF returns when it finds nothing.       *)
(***************************************************************************)
EXTENDS URL

CONSTANTS
    Urls,       \* the parts of what the user may ask for
    Responses,  \* what the server may answer: [framing, chunks, trailers]
    nullptr

Digits == <<"0", "1", "2", "3">>

ASSUME HttpAssumption ==
    \A r \in Responses :
        /\ r.framing \in {"length", "chunked", "both", "none"}
        /\ Len(FlattenSeq(r.chunks)) < Len(Digits)
        /\ r.trailers \in Nat
        /\ \A i \in DOMAIN r.chunks : r.chunks[i] # <<>>

ASSUME UrlAssumption == \A u \in Urls : WellFormed(u)

VARIABLES
    state,       \* of the client: "New", "Connecting", "Requested"
    url,         \* the parts of the user's URL, nullptr once it was asked for
    address,     \* the host and the service client_ was made for
    writeBuffer, \* writeBuffer_: the request, until it is sent
    response,    \* the server's answer
    wire,        \* its bytes that have not arrived
    readBuffer,  \* readBuffer_
    delivered,   \* the bodies that requestCallback_ was called with
    failed,      \* "no", or what ended the program
    wholeHead    \* history: did the first piece hold the whole head?

httpVars == <<state, url, address, writeBuffer, response, wire, readBuffer, delivered, failed, wholeHead>>

-----------------------------------------------------------------------------
(* What a server sends (RFC 7230). *)

CRLF == <<"CR", "LF">>

Content(r) == FlattenSeq(r.chunks)

Digit(n) == Digits[n + 1]

HeadOf(r) ==
    <<"HTTP/1.1", "200">> \o CRLF
        \o (IF r.framing \in {"length", "both"}
            THEN <<"Content-Length", Digit(Len(Content(r)))>> \o CRLF ELSE <<>>)
        \o (IF r.framing \in {"chunked", "both"}
            THEN <<"Transfer-Encoding", "chunked">> \o CRLF ELSE <<>>)
        \o CRLF

Chunked(r) == r.framing \in {"chunked", "both"}

BodyOf(r) ==
    IF ~Chunked(r) THEN Content(r)
    ELSE FlattenSeq([i \in DOMAIN r.chunks |->
                        <<Digit(Len(r.chunks[i]))>> \o CRLF \o r.chunks[i] \o CRLF])
            \o <<"0">> \o CRLF
            \o FlattenSeq([i \in 1 .. r.trailers |-> <<"Trailer", "value">> \o CRLF])
            \o CRLF

Encoded(r) == HeadOf(r) \o BodyOf(r)

-----------------------------------------------------------------------------
(* The parser.  An offset is the position of a byte in the buffer, so that *)
(* readNumber is the offset less one; data is at readNumber throughout.    *)

\* The first CR LF at or after an offset.
findCRLF(buf, start) ==
    LET at == {i \in start .. Len(buf) - 1 : buf[i] = "CR" /\ buf[i + 1] = "LF"}
    IN IF at = {} THEN nullptr ELSE CHOOSE i \in at : \A j \in at : i <= j

Line(buf, data, crlf) == SubSeq(buf, data, crlf - 1)

\* How a parse ends: its ErrorCode, or what becomes of the program; the body,
\* and the bytes that leave the buffer.
Ends(code) == [code |-> code, body |-> <<>>, retrieved |-> 0]

Delivers(body, n) == [code |-> "NoError", body |-> body, retrieved |-> n]

\* The digits that std::stoul takes, and their value.
LeadingDigits(line) ==
    LET n == CHOOSE k \in 0 .. Len(line) :
                /\ \A i \in 1 .. k : line[i] \in ToSet(Digits)
                /\ k < Len(line) => line[k + 1] \notin ToSet(Digits)
    IN SubSeq(line, 1, n)

stoul(line, base) ==
    FoldLeft(LAMBDA n, d : base * n + (CHOOSE i \in DOMAIN Digits : Digits[i] = d) - 1,
             0, LeadingDigits(line))

\* messageLine from the line at data: the headers up to the empty line.
\* A string_view from data to nullptr is undefined behaviour.
MessageLines(buf) ==
    LET from[data \in 1 .. Len(buf) + 1] ==
            LET crlf == findCRLF(buf, data)
            IN CASE crlf = nullptr -> [blank |-> nullptr, headers |-> <<>>]
                 [] crlf = data -> [blank |-> data, headers |-> <<>>]
                 [] OTHER ->
                      LET rest == from[crlf + 2]
                      IN [rest EXCEPT !.headers = <<Line(buf, data, crlf)>> \o @]
    IN from

\* transferEncoding: data is at the first line of a chunk, crlf at its end.
\* The next line is looked for from the start of the chunk's data.
Chunks(buf) ==
    LET from[data \in 1 .. Len(buf) + 1] ==
            LET crlf == findCRLF(buf, data)
                start == crlf + 2
                next == findCRLF(buf, start)
                line == Line(buf, data, crlf)
                len == stoul(line, 16)
            IN CASE crlf = nullptr -> Ends("WaitForData")
                 [] crlf # nullptr /\ next = nullptr -> Ends("WaitForData")
                 [] OTHER ->
                      CASE LeadingDigits(line) = <<>> -> Ends("throws")
                        [] LeadingDigits(line) # <<>> /\ len = 0 ->
                             IF findCRLF(buf, next + 2) = nullptr
                             THEN Ends("WaitForData")
                             ELSE Delivers(<<>>, next + 1)
                        [] OTHER ->
                             IF Len(buf) < start - 1 + len + 2
                             THEN Ends("WaitForData")
                             ELSE LET rest == from[next + 2]
                                  IN IF rest.code # "NoError" THEN rest
                                     ELSE [rest EXCEPT !.body = SubSeq(buf, start, start + len - 1) \o @]
    IN from

\* Mutant: no wait for the whole body.
ContentLength_Eager(buf, data, len) ==
    LET end == IF Len(buf) < data + 1 + len THEN Len(buf) ELSE data + 1 + len
    IN Delivers(SubSeq(buf, data + 2, end), end)

\* Mutant: one byte more is waited for.
ContentLength_OneMore(buf, data, len) ==
    IF Len(buf) <= data - 1 + len + 2 THEN Ends("WaitForData")
    ELSE Delivers(SubSeq(buf, data + 2, data + 1 + len), data + 1 + len)

\* bodyLine for Content-Length: data is at the empty line.
ContentLength(buf, data, len) ==
    IF Len(buf) < data - 1 + len + 2 THEN Ends("WaitForData")
    ELSE Delivers(SubSeq(buf, data + 2, data + 1 + len), data + 1 + len)

\* A header's value; emplace keeps the first of a name.
HeaderValue(headers, name) ==
    LET named == SelectSeq(headers, LAMBDA h : h[1] = name)
    IN IF named = <<>> THEN <<>> ELSE Tail(named[1])

bodyLine(buf, data, headers) ==
    LET length == HeaderValue(headers, "Content-Length")
    IN CASE HeaderValue(headers, "Transfer-Encoding") = <<"chunked">> -> Chunks(buf)[data + 2]
         [] HeaderValue(headers, "Transfer-Encoding") # <<"chunked">> /\ length # <<>> ->
              ContentLength(buf, data, stoul(length, 10))
         [] OTHER -> Ends("Body")

\* Statuses are numbers in the second word of the first line; what is left of
\* a chunked response has no number there, and std::stoi throws.
Parse(buf) ==
    LET crlf == findCRLF(buf, 1)
        message == MessageLines(buf)[crlf + 2]
    IN CASE crlf = nullptr -> Ends("undefined")
         [] crlf # nullptr /\ ~IsPrefix(<<"HTTP/1.1", "200">>, Line(buf, 1, crlf)) -> Ends("throws")
         [] OTHER ->
              IF message.blank = nullptr THEN Ends("undefined")
              ELSE bodyLine(buf, message.blank, message.headers)

-----------------------------------------------------------------------------
(* The request *)

\* HttpRequest::operator<<: an empty path is "/".  Of the headers there is one
\* of each name, and their order is the map's.
RequestText(request) ==
    [request EXCEPT !.path = IF @ = <<>> THEN <<"/">> ELSE @]

\* HttpClient::get of a string: the query is no part of the request.
RequestFor(u) ==
    [method |-> "GET", path |-> u.path, version |-> "HTTP/1.1",
     headers |-> [Host |-> u.host, Accept |-> <<"text", "/", "html">>]]

\* InetAddress::fromHostnameAndService is asked for the port, else for the
\* protocol.
AddressOf(u) == [host |-> u.host, service |-> IF u.port # <<>> THEN u.port ELSE u.protocol]

-----------------------------------------------------------------------------
HttpInit ==
    /\ state = "New"
    /\ url \in Urls
    /\ address = nullptr
    /\ writeBuffer = nullptr
    /\ response \in Responses
    /\ wire = Encoded(response)
    /\ readBuffer = <<>>
    /\ delivered = <<>>
    /\ failed = "no"
    /\ wholeHead = FALSE

\* HttpClient::get: a client is used once, for one request.
Get ==
    /\ state = "New"
    /\ state' = "Connecting"
    /\ LET u == split(Rendered(url)) IN
           /\ address' = AddressOf(u)
           /\ writeBuffer' = RequestText(RequestFor(u))
    /\ UNCHANGED <<url, response, wire, readBuffer, delivered, failed, wholeHead>>

\* HttpClient::onConnection: the request is sent, and not looked at again.
OnConnection ==
    /\ state = "Connecting"
    /\ state' = "Requested"
    /\ readBuffer' = <<>>
    /\ url' = nullptr
    /\ address' = nullptr
    /\ writeBuffer' = nullptr
    /\ UNCHANGED <<response, wire, delivered, failed, wholeHead>>

\* HttpClient::onMessage with the next n bytes: only WaitForData is silent, but
\* no other error does more than write a line to the log.
OnMessage(n) ==
    LET buf == readBuffer \o SubSeq(wire, 1, n)
        result == Parse(buf)
    IN /\ wire' = SubSeq(wire, n + 1, Len(wire))
       /\ wholeHead' = IF wire = Encoded(response) THEN n >= Len(HeadOf(response)) ELSE wholeHead
       /\ CASE result.code \in {"undefined", "throws"} ->
                 /\ failed' = result.code
                 /\ readBuffer' = buf
                 /\ UNCHANGED delivered
            [] result.code = "NoError" ->
                 /\ delivered' = Append(delivered, result.body)
                 /\ readBuffer' = SubSeq(buf, result.retrieved + 1, Len(buf))
                 /\ UNCHANGED failed
            [] OTHER ->
                 /\ readBuffer' = buf
                 /\ UNCHANGED <<delivered, failed>>
       /\ UNCHANGED <<state, url, address, writeBuffer, response>>

Receive ==
    /\ state = "Requested"
    /\ failed = "no"
    /\ \E n \in 1 .. Len(wire) : OnMessage(n)

HttpNext == Get \/ OnConnection \/ Receive

HttpSpec == HttpInit /\ [][HttpNext]_httpVars

-----------------------------------------------------------------------------
(* Properties *)

HttpTypeOK ==
    /\ state \in {"New", "Connecting", "Requested"}
    /\ url \in Urls \cup {nullptr}
    /\ response \in Responses
    /\ IsSuffix(wire, Encoded(response))
    /\ failed \in {"no", "undefined", "throws"}
    /\ wholeHead \in BOOLEAN

\* A host that is an IPv6 address and has no port: the colon that is taken for
\* the port's is one of its own.
HidesPort(u) == u.port = <<>> /\ ":" \in ToSet(u.host)

\* What the user asked for is what the request asks the right host for: split
\* finds the parts that were put together, wherever else their delimiters occur.
RequestAsksForUrl ==
    state = "Connecting" /\ ~HidesPort(url) =>
        /\ address = AddressOf(url)
        /\ writeBuffer = RequestText(RequestFor(url))

\* A chunk whose bytes hold a CR LF: nextLine takes it for the chunk's end.
BreaksLines ==
    Chunked(response) /\ \E i \in DOMAIN response.chunks :
                            findCRLF(response.chunks[i], 1) # nullptr

\* However the bytes are cut into pieces and however often they are parsed, the
\* callback is called at most once, with the whole body and nothing else.
BodyIntact == delivered \in {<<>>, <<Content(response)>>}

\* A response that has arrived to its end and says where that is has been given
\* to the callback; a chunked one is only if a trailer line follows its last chunk.
ArrivedIsDelivered ==
    /\ wire = <<>> /\ failed = "no"
    /\ response.framing # "none"
    /\ Chunked(response) => response.trailers > 0
    => delivered # <<>>

\* What the code says of itself and does not keep.  "If the length is 0, no more
\* data follows" (HttpResponse.cpp:127): the last chunk is waited for all the same.
LastChunkEnds ==
    wire = <<>> /\ wholeHead /\ Chunked(response) /\ ~BreaksLines => delivered # <<>>

\* The request asks for the query too: HttpRequest has one, and nothing sets it.
QueryIsSent == state = "Connecting" => url.query = <<>>

\* The host is found, with a port or without.
HostIsFound == state = "Connecting" => address.host = url.host

\* The parser's errors are those of ErrorCode: it ends the program on no response.
ParserSurvives == failed = "no"

=============================================================================
