------------------------------ MODULE WebClient ------------------------------
(***************************************************************************)
(* Two sample programs on the application base classes: 06-webclient gets  *)
(* a document with CHTTPClient, 05-https-client3 with a TLS socket of its  *)
(* own.  Here the web client may send several requests with its client.    *)
(***************************************************************************)
EXTENDS HttpClient, StdlibApp

VARIABLES
    prog,  \* the program
    kPc    \* the section of CKernel::Run() that runs next

kernel == <<prog, kPc>>
vars == <<appVars, sockVars, httpVars, kernel>>

Init ==
    /\ AppInit /\ SockInit /\ HttpInit
    /\ prog \in {"webclient", "https-client3"} /\ kPc = "start"

KGoto(from, to) == appPc = "run" /\ kPc = from /\ kPc' = to /\ UNCHANGED <<appVars, prog>>

\* Run() of the web client: the server's name is resolved first.
WebStart ==
    /\ prog = "webclient"
    /\ KGoto("start", "get") \/ KGoto("start", "sleep")
    /\ UNCHANGED <<sockVars, httpVars>>

WebGet == prog = "webclient" /\ kPc = "get" /\ HttpClientNext /\ UNCHANGED <<appVars, kernel>>

\* The document is parsed if it has arrived.
WebGot ==
    /\ hPc = "idle" /\ status # "none"
    /\ KGoto("get", "sleep")
    /\ UNCHANGED <<sockVars, httpVars>>

\* GetDocument() of the other one: a certificate is required.
Get3Start ==
    /\ prog = "https-client3" /\ KGoto("start", "certificates3")
    /\ sock' = NewSocket("tls")
    /\ UNCHANGED <<card, trusted, link, stream, taken, httpVars>>

Get3(from, to, call) == call /\ KGoto(from, to) /\ UNCHANGED httpVars

\* GetDocument() returns, which destroys the socket.
Get3Return(from) == KGoto(from, "sleep") /\ Delete /\ UNCHANGED httpVars

Get3Certificates ==
    /\ kPc = "certificates3"
    /\ \/ AddCertificatePath(card, "/") > 0 /\ Get3("certificates3", "setup3", AddPath("/"))
       \/ Get3Return("certificates3")

Get3Setup == kPc = "setup3" /\ (Get3("setup3", "connect3", Setup) \/ Get3Return("setup3"))

Get3Connect == kPc = "connect3" /\ (Get3("connect3", "send3", Connect) \/ Get3Return("connect3"))

Get3Send ==
    /\ kPc = "send3"
    /\ \/ Get3("send3", "receive3", Send(1))
       \/ link = "closed" /\ Get3Return("send3")

Get3Receive ==
    /\ kPc = "receive3"
    /\ \/ \E n \in 1..FrameBuffer : Get3("receive3", "receive3", Receive(n))
       \/ AtEnd /\ Get3Return("receive3")

Get3Document ==
    Get3Start \/ Get3Certificates \/ Get3Setup \/ Get3Connect \/ Get3Send \/ Get3Receive

\* Run() waits for the network to close the connections and returns ShutdownHalt.
RunReturns ==
    /\ appPc = "run" /\ kPc = "sleep" /\ appPc' = "cleanup"
    /\ UNCHANGED <<appType, up, netUp, sockVars, httpVars, kernel>>

Boot == (Initialize \/ Cleanup) /\ UNCHANGED <<sockVars, httpVars, kernel>>

\* The server of the other program sends its page and closes the connection.
Answer3 ==
    /\ kPc = "receive3" /\ link = "open"
    /\ link' = "closed" /\ \E e \in Exchanges : stream' = EncodeReply(e.reply)
    /\ UNCHANGED <<card, sock, trusted, taken, appVars, httpVars, kernel>>

Halted == appPc = "halt" /\ UNCHANGED vars

Program == Boot \/ WebStart \/ WebGet \/ WebGot \/ Get3Document \/ RunReturns
Server == (Answer /\ UNCHANGED <<appVars, kernel>>) \/ Answer3
Fault == Cut /\ UNCHANGED <<appVars, kernel>>
Network == NetRuns /\ UNCHANGED <<sockVars, httpVars, kernel>>

Next == Program \/ Server \/ Fault \/ Network \/ Halted

Spec == Init /\ [][Next]_vars /\ WF_vars(Program) /\ WF_vars(Server) /\ WF_vars(Network)
------------------------------------------------------------------------------
(* ContentIntact: when a request whose reply is well-formed returns HTTPOK, *)
(* the buffer holds what the server sent and no more than fits: all of it  *)
(* if it is chunked, however the chunks, their lengths with any leading    *)
(* zeros and the pieces of the stream lie to each other and wherever the   *)
(* connection broke, and a prefix of it if it is not chunked, which is all *)
(* of it unless the connection broke (the length is not checked).  Such a  *)
(* reply is given up only if it does not fit, the connection broke, or the *)
(* request did not go out as a whole.  A reply with another status, or     *)
(* with a chunk length that is no number, is never HTTPOK.  Of any further *)
(* replies nothing is said, for the parser takes some of them for good: an *)
(* empty or a strange first line (StatusChecked below), and an empty line  *)
(* in front of a chunk length.                                             *)
ContentIntact ==
    LET r == exchange.reply
        whole == parser.out = Content(r)
    IN  hPc = "idle" /\ status # "none" =>
            /\ r.kind = "refusal" => status # "HTTPOK"
            /\ r.kind = "wellformed" =>
                   /\ status = "HTTPOK" =>
                          /\ Len(parser.out) <= exchange.size
                          /\ IF r.chunked \/ ~cut THEN whole ELSE IsPrefix(parser.out, Content(r))
                   /\ status = "HTTPContentBufferTooSmall" => Len(Content(r)) > exchange.size
                   /\ status = "HTTPConnectionReset" =>
                          cut \/ (exchange.ssl /\ exchange.len > MaxContent)
                   /\ status \notin {"HTTPInvalidChunkHeader", "HTTPInvalidResponseCode", "HTTPNotFound"}

(* ServerAuthenticated: nothing is sent over TLS to a server whose         *)
(* certificate does not verify, unless there is no certificate on the card *)
(* and the program is the one that goes on without.                        *)
ServerAuthenticated ==
    sock.kind = "tls" /\ taken > 0 =>
        trusted \/ (prog = "webclient" /\ AddCertificatePath(card, "/") = 0)

(* ProgramHalts: the machine comes to a halt whatever the server does,     *)
(* provided that the network comes up and that the server answers what it  *)
(* got or closes the connection.                                           *)
ProgramHalts == <>(appPc = "halt")

(* StatusChecked: HTTPOK only if the first line of the response says so    *)
(* ("HTTP/1.x 200 OK" expected, httpclient.cpp:206).                       *)
StatusChecked == status = "HTTPOK" => ~parser.first
==============================================================================
