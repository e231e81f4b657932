----------------------------- MODULE HttpClient ------------------------------
(***************************************************************************)
(* CHTTPClient (httpclient.cpp): a request over a plain or a TLS socket    *)
(* and the parser for the response, which comes in pieces of any length.   *)
(*                                                                         *)
(* A character of the response is "cr", "lf", one of a body, a hex digit   *)
(* of a chunk header ("bad" is what is not one), or stands for all other   *)
(* characters of a line: a header ("chunked" or "other") or a first line:  *)
(* "s200" and "s404" are what the code expects, in "like200" the number    *)
(* that is read is 200 and yet it is not "HTTP/1.x 200", as in "200" or    *)
(* "HTTP/1.1 0200 OK", "nonumber" has none at its place ("HTTP/1.1"), and  *)
(* "nostatus" has something else there.                                    *)
(***************************************************************************)
EXTENDS TlsClientSocket

CONSTANTS
    Exchanges,    \* requests: [ssl, len : length of the request, size : *pLength, reply]
    LineMax,      \* HTTP_MAX_REQUEST_LINE
    MaxRequests,  \* bound: number of requests
    MaxCuts       \* bound: number of faults of the connection

ASSUME HttpAssumption == LineMax \in Nat \ {0} /\ MaxRequests \in Nat /\ MaxCuts \in Nat

VARIABLES
    hPc,       \* the section of Request() that runs next; "idle" outside of it
    exchange,  \* the request that runs or ran last
    parser,    \* the variables of the receive loop
    status,    \* what the last request returned
    requests,  \* number of requests
    cuts,      \* number of faults of the connection
    cut        \* the connection of this request had one

httpVars == <<hPc, exchange, parser, status, requests, cuts, cut>>

\* nState, nLine = 0, nChar, Line, bChunked, ulBytes and the content of pBuffer.
NewParser ==
    [state |-> 0, first |-> TRUE, char |-> 0, line |-> <<>>, chunked |-> FALSE,
     bytes |-> 0, out |-> <<>>, status |-> "none"]

NoExchange == [ssl |-> FALSE, len |-> 0, size |-> 0, reply |-> <<>>]

HttpInit ==
    /\ hPc = "idle" /\ exchange = NoExchange /\ parser = NewParser
    /\ status = "none" /\ requests = 0 /\ cuts = 0 /\ cut = FALSE
------------------------------------------------------------------------------
(* The receive loop: what a character does in each state.                  *)

\* Variant with a mistake: the line is not ended behind the new character.
AccumulateKeepsRest(p, c) ==
    IF p.char < LineMax - 1
    THEN [p EXCEPT !.line = SubSeq(p.line, 1, p.char) \o <<c>> \o SubSeq(p.line, p.char + 2, Len(p.line)),
                   !.char = @ + 1]
    ELSE p

\* Line keeps an earlier line until the first character of the new one.
Accumulate(p, c) ==
    IF p.char < LineMax - 1
    THEN [p EXCEPT !.line = Append(SubSeq(p.line, 1, p.char), c), !.char = @ + 1] ELSE p

Line(p) == IF Len(p.line) = 1 THEN p.line[1] ELSE "other"

\* The first line must be "HTTP/1.x 200".  For any other one the number at the
\* last place looked at is returned: 200 is HTTPOK, wherever it comes from, and
\* without anything at that place strtoul() reads from a null pointer.
StatusLine(p) ==
    CASE Line(p) = "s200" -> [p EXCEPT !.first = FALSE, !.char = 0]
      [] Line(p) = "s404" -> [p EXCEPT !.status = "HTTPNotFound"]
      [] Line(p) = "like200" -> [p EXCEPT !.status = "HTTPOK"]
      [] Line(p) = "nonumber" -> [p EXCEPT !.status = "undefined"]
      [] OTHER -> [p EXCEPT !.status = "HTTPInvalidResponseCode"]

\* What a result inside of the loop can be to the caller.
Results(result) ==
    IF result = "undefined" THEN {"HTTPOK", "HTTPNotFound", "HTTPInvalidResponseCode"}
    ELSE {result}

HeaderChar(p, c) ==
    CASE c = "cr" -> p
      [] c = "lf" ->
            IF p.char = 0 THEN [p EXCEPT !.state = IF p.chunked THEN 2 ELSE 1]
            ELSE IF p.first THEN StatusLine(p)
            ELSE [p EXCEPT !.chunked = @ \/ Line(p) = "chunked", !.char = 0]
      [] OTHER -> Accumulate(p, c)

CopyChar(p, c, size) ==
    IF Len(p.out) >= size THEN [p EXCEPT !.status = "HTTPContentBufferTooSmall"]
    ELSE [p EXCEPT !.out = Append(@, c)]

Hex == [n0 |-> 0, n1 |-> 1, n2 |-> 2, n3 |-> 3]

ChunkLength(line) == FoldLeft(LAMBDA n, d : 16 * n + Hex[d], 0, line)

\* Chunk length 0 is the end of the content.  An empty line leaves the one
\* before it in Line.
ChunkHeaderChar(p, c) ==
    CASE c = "cr" -> p
      [] c = "lf" ->
            IF ~(Range(p.line) \subseteq DOMAIN Hex)
            THEN [p EXCEPT !.status = "HTTPInvalidChunkHeader"]
            ELSE [p EXCEPT !.bytes = ChunkLength(p.line),
                           !.state = IF ChunkLength(p.line) # 0 THEN 3 ELSE 5]
      [] OTHER -> Accumulate(p, c)

ChunkChar(p, c, size) ==
    LET q == CopyChar(p, c, size)
    IN  IF q.status # "none" THEN q
        ELSE [q EXCEPT !.bytes = @ - 1, !.state = IF p.bytes = 1 THEN 4 ELSE 3]

TrailerChar(p, c) ==
    CASE c = "cr" -> p
      [] c = "lf" -> [p EXCEPT !.char = 0, !.state = 2]
      [] OTHER -> [p EXCEPT !.status = "HTTPInvalidChunkHeader"]

\* Behind the last chunk the rest of the piece is ignored.
ParseChar(p, c, size) ==
    IF p.status # "none" THEN p
    ELSE CASE p.state = 0 -> HeaderChar(p, c)
           [] p.state = 1 -> CopyChar(p, c, size)
           [] p.state = 2 -> ChunkHeaderChar(p, c)
           [] p.state = 3 -> ChunkChar(p, c, size)
           [] p.state = 4 -> TrailerChar(p, c)
           [] OTHER -> p
------------------------------------------------------------------------------
(* Request()                                                               *)

HGoto(from, to) ==
    /\ hPc = from /\ hPc' = to
    /\ UNCHANGED <<exchange, parser, status, requests, cuts, cut>>

\* Every return deletes the socket.
Return(from, result) ==
    /\ hPc = from /\ hPc' = "idle" /\ status' = result
    /\ Delete
    /\ UNCHANGED <<exchange, parser, requests, cuts, cut>>

\* Get() and Post() come here; a socket is created.
Request ==
    /\ hPc = "idle" /\ requests < MaxRequests
    /\ \E e \in Exchanges :
        /\ exchange' = e
        /\ sock' = NewSocket(IF e.ssl THEN "tls" ELSE "plain")
        /\ hPc' = IF e.ssl THEN "certificates" ELSE "connect"
    /\ requests' = requests + 1 /\ parser' = NewParser /\ status' = "none" /\ cut' = FALSE
    /\ UNCHANGED <<cuts, card, trusted, link, stream, taken>>

AddCertificates ==
    /\ hPc = "certificates"
    /\ \/ AddCertificatePath(card, "/") >= 0 /\ AddPath("/") /\ HGoto("certificates", "setup")
       \/ Return("certificates", "HTTPInternalClientError")

SetupSocket ==
    /\ hPc = "setup"
    /\ \/ Setup /\ HGoto("setup", "connect")
       \/ Return("setup", "HTTPInternalClientError")

ConnectServer ==
    /\ hPc = "connect"
    /\ \/ Connect /\ HGoto("connect", "send")
       \/ Return("connect", "HTTPRequestTimeout")

\* Send() may have taken a part of the request only, which is not an error.
SendRequest ==
    /\ hPc = "send"
    /\ \/ Send(exchange.len) /\ HGoto("send", "receive")
       \/ link = "closed" /\ Return("send", "HTTPConnectionReset")

\* One turn of the receive loop: a piece of the response, every character of it.
ReceivePiece ==
    /\ hPc = "receive" /\ parser.state < 5 /\ parser.status = "none"
    /\ \E n \in 1..FrameBuffer :
        /\ Receive(n)
        /\ parser' = FoldLeft(LAMBDA p, c : ParseChar(p, c, exchange.size),
                              parser, SubSeq(stream, 1, n))
    /\ UNCHANGED <<hPc, exchange, status, requests, cuts, cut>>

\* Variant with a mistake: a closed connection is taken for one without new data.
FinishIgnoresEnd ==
    /\ hPc = "receive"
    /\ \/ parser.status # "none" /\ Return("receive", parser.status)
       \/ parser.status = "none" /\ parser.state = 5 /\ Return("receive", "HTTPOK")
       \/ parser.state < 5 /\ AtEnd /\ UNCHANGED <<sockVars, httpVars>>

\* The result inside of the loop, or the one behind it: the end of the connection
\* is the end of content that is not chunked.
Finish ==
    /\ hPc = "receive"
    /\ \/ parser.status # "none" /\ \E r \in Results(parser.status) : Return("receive", r)
       \/ /\ parser.status = "none" /\ (parser.state = 5 \/ AtEnd)
          /\ Return("receive", IF parser.state \in {1, 5} THEN "HTTPOK" ELSE "HTTPConnectionReset")

HttpClientNext ==
    \/ Request \/ AddCertificates \/ SetupSocket \/ ConnectServer
    \/ SendRequest \/ ReceivePiece \/ Finish
------------------------------------------------------------------------------
(* The server: it answers a request that is complete and closes the        *)
(* connection, and gives up on one that is not.                            *)

Content(r) == FlattenSeq([i \in DOMAIN r.chunks |-> r.chunks[i].data])

\* Lines, and content in chunks with their lengths if it is chunked.
EncodeReply(r) ==
    LET Lf == <<"cr", "lf">>
        EncodeChunk(c) == c.length \o Lf \o c.data \o Lf
    IN  FlattenSeq([i \in DOMAIN r.header |-> <<r.header[i]>> \o Lf]) \o Lf
        \o IF r.chunked THEN FlattenSeq([i \in DOMAIN r.chunks |-> EncodeChunk(r.chunks[i])])
                              \o r.last \o Lf \o Lf
           ELSE Content(r)

Answer ==
    /\ hPc = "receive" /\ link = "open"
    /\ link' = "closed"
    /\ stream' = IF taken = exchange.len THEN EncodeReply(exchange.reply) ELSE <<>>
    /\ UNCHANGED <<card, sock, trusted, taken, httpVars>>

\* The connection breaks, and what is under way may be lost.
Cut ==
    /\ cuts < MaxCuts /\ link # "none"
    /\ link' = "closed" /\ \E n \in 0..Len(stream) : stream' = SubSeq(stream, 1, n)
    /\ cuts' = cuts + 1 /\ cut' = TRUE
    /\ UNCHANGED <<card, sock, trusted, taken, hPc, exchange, parser, status, requests>>
==============================================================================
