--------------------------- MODULE WebClient_proofs ---------------------------
(***************************************************************************)
(* Proof about WebClient for every card, every request and every number of *)
(* requests and faults: over TLS nothing is sent to a server that had to   *)
(* be authenticated and was not.                                           *)
(***************************************************************************)
EXTENDS WebClient, TLAPS

SocketType ==
    [kind : {"plain", "tls"}, certAdded : BOOLEAN, auth : {"none", "required"},
     connected : BOOLEAN]

Certificates == AddCertificatePath(card, "/")

\* The program may talk to the server.
Permitted == trusted \/ (prog = "webclient" /\ Certificates = 0)

\* What Request() has done with its socket so far: the certificates that were
\* added decide about the authentication, which Connect() enforces.
RequestInv ==
    /\ kPc \in {"start", "get", "sleep"}
    /\ hPc \in {"idle", "certificates", "setup", "connect", "send", "receive"}
    /\ hPc = "idle" => sock = NoSocket
    /\ hPc # "idle" => sock \in SocketType
    /\ hPc \in {"idle", "certificates", "setup", "connect"} => link = "none"
    /\ hPc \in {"certificates", "setup"} => sock.kind = "tls"
    /\ hPc = "setup" => Certificates = 0 \/ sock.certAdded
    /\ hPc = "connect" /\ sock.kind = "tls" => Certificates = 0 \/ sock.auth = "required"

\* The same for GetDocument() of https-client3.
DocumentInv ==
    /\ hPc = "idle"
    /\ kPc \in {"start", "certificates3", "setup3", "connect3", "send3", "receive3", "sleep"}
    /\ kPc \in {"start", "sleep"} => sock = NoSocket
    /\ kPc \notin {"start", "sleep"} => sock \in SocketType /\ sock.kind = "tls"
    /\ kPc \notin {"send3", "receive3"} => link = "none"
    /\ kPc = "setup3" => sock.certAdded
    /\ kPc = "connect3" => sock.auth = "required"

\* ServerAuthenticated is not inductive: it must hold as soon as there is a
\* connection, before anything is sent.
AuthInv ==
    /\ card \in Cards
    /\ link = "none" => taken = 0
    /\ link # "none" /\ sock.kind = "tls" => Permitted
    /\ prog \in {"webclient", "https-client3"}
    /\ prog = "webclient" => RequestInv
    /\ prog = "https-client3" => DocumentInv

\* The initial state.
LEMMA InitAuth == Init => AuthInv
  BY DEF Init, SockInit, HttpInit, AuthInv, RequestInv, DocumentInv, NoSocket

\* Steps that leave the socket and the program counters alone.
LEMMA StutterAuth ==
    ASSUME AuthInv, UNCHANGED <<card, sock, trusted, link, taken, hPc, prog, kPc>>
    PROVE  AuthInv'
  BY DEF AuthInv, RequestInv, DocumentInv, Permitted, Certificates

\* A step of CHTTPClient::Request() keeps the invariant.
LEMMA HttpAuth ==
    ASSUME AuthInv, WebGet PROVE AuthInv'
  <1> USE DEF AuthInv, RequestInv, Permitted, Certificates
  <1>1. prog = "webclient" /\ UNCHANGED <<prog, kPc>>
    BY DEF WebGet, kernel
  <1>2. CASE Request
    BY <1>1, <1>2 DEF Request, NewSocket, SocketType
  <1>3. CASE AddCertificates
    <2>1. CASE Return("certificates", "HTTPInternalClientError")
      BY <1>1, <2>1 DEF Return, Delete, NoSocket
    <2>2. CASE /\ hPc = "certificates" /\ AddCertificatePath(card, "/") >= 0
               /\ AddPath("/") /\ HGoto("certificates", "setup")
      <3>1. AddCertificatePath(card, "/") \in Int
        BY ResultAssumption
      <3>2. CASE AddCertificatePath(card, "/") <= 0
        BY <1>1, <2>2, <3>1, <3>2 DEF AddPath, HGoto
      <3>3. CASE ~(AddCertificatePath(card, "/") <= 0)
        BY <1>1, <2>2, <3>1, <3>3 DEF AddPath, HGoto, SocketType
      <3> QED
        BY <3>2, <3>3
    <2> QED
      BY <1>3, <2>1, <2>2 DEF AddCertificates
  <1>4. CASE SetupSocket
    <2>1. CASE Return("setup", "HTTPInternalClientError")
      BY <1>1, <2>1 DEF Return, Delete, NoSocket
    <2>2. CASE Setup /\ HGoto("setup", "connect")
      BY <1>1, <2>2 DEF Setup, HGoto, SocketType
    <2> QED
      BY <1>4, <2>1, <2>2 DEF SetupSocket
  <1>5. CASE ConnectServer
    <2>1. CASE Return("connect", "HTTPRequestTimeout")
      BY <1>1, <2>1 DEF Return, Delete, NoSocket
    <2>2. CASE Connect /\ HGoto("connect", "send")
      BY <1>1, <2>2 DEF Connect, HGoto, SocketType
    <2> QED
      BY <1>5, <2>1, <2>2 DEF ConnectServer
  <1>6. CASE SendRequest
    <2>1. CASE Return("send", "HTTPConnectionReset")
      BY <1>1, <2>1 DEF Return, Delete, NoSocket
    <2>2. CASE Send(exchange.len) /\ HGoto("send", "receive")
      BY <1>1, <2>2 DEF Send, HGoto
    <2> QED
      BY <1>6, <2>1, <2>2 DEF SendRequest
  <1>7. CASE ReceivePiece
    BY <1>1, <1>7, StutterAuth DEF ReceivePiece, Receive
  <1>8. CASE Finish
    <2>1. PICK r : Return("receive", r)
      BY <1>8 DEF Finish
    <2> QED
      BY <1>1, <2>1 DEF Return, Delete, NoSocket
  <1> QED
    BY <1>2, <1>3, <1>4, <1>5, <1>6, <1>7, <1>8 DEF WebGet, HttpClientNext

\* A step of GetDocument() keeps the invariant.
LEMMA DocumentAuth ==
    ASSUME AuthInv, Get3Document PROVE AuthInv'
  <1> USE DEF AuthInv, DocumentInv, Permitted, Certificates
  <1>1. CASE Get3Start
    BY <1>1 DEF Get3Start, KGoto, NewSocket, SocketType, httpVars
  <1>2. prog = "webclient" => kPc \in {"start", "get", "sleep"}
    BY DEF RequestInv
  <1>3. ASSUME NEW from \in {"certificates3", "setup3", "connect3", "send3", "receive3"},
               Get3Return(from)
        PROVE  AuthInv'
    BY <1>2, <1>3 DEF Get3Return, KGoto, Delete, NoSocket, httpVars
  <1>4. CASE Get3Certificates
    <2>1. CASE /\ kPc = "certificates3" /\ AddCertificatePath(card, "/") > 0
               /\ Get3("certificates3", "setup3", AddPath("/"))
      <3>1. AddCertificatePath(card, "/") \in Int
        BY ResultAssumption
      <3>2. prog = "https-client3" /\ sock \in SocketType
        BY <1>2, <2>1
      <3>3. /\ sock' = [sock EXCEPT !.certAdded = TRUE] /\ kPc' = "setup3"
            /\ UNCHANGED <<card, trusted, link, taken, prog, hPc>>
        BY <2>1, <3>1 DEF Get3, AddPath, KGoto, httpVars
      <3>4. sock' \in SocketType /\ sock'.kind = sock.kind /\ sock'.certAdded
        BY <3>2, <3>3 DEF SocketType
      <3> QED
        BY <2>1, <3>2, <3>3, <3>4
    <2> QED
      BY <1>3, <1>4, <2>1 DEF Get3Certificates
  <1>5. CASE Get3Setup
    <2>1. CASE kPc = "setup3" /\ Get3("setup3", "connect3", Setup)
      BY <1>2, <2>1 DEF Get3, Setup, KGoto, SocketType, httpVars
    <2> QED
      BY <1>3, <1>5, <2>1 DEF Get3Setup
  <1>6. CASE Get3Connect
    <2>1. CASE kPc = "connect3" /\ Get3("connect3", "send3", Connect)
      BY <1>2, <2>1 DEF Get3, Connect, KGoto, SocketType, httpVars
    <2> QED
      BY <1>3, <1>6, <2>1 DEF Get3Connect
  <1>7. CASE Get3Send
    <2>1. CASE kPc = "send3" /\ Get3("send3", "receive3", Send(1))
      BY <1>2, <2>1 DEF Get3, Send, KGoto, httpVars
    <2> QED
      BY <1>3, <1>7, <2>1 DEF Get3Send
  <1>8. CASE Get3Receive
    <2>1. ASSUME kPc = "receive3", NEW n \in 1..FrameBuffer, Get3("receive3", "receive3", Receive(n))
          PROVE  AuthInv'
      BY <2>1, StutterAuth DEF Get3, Receive, KGoto, httpVars
    <2> QED
      BY <1>3, <1>8, <2>1 DEF Get3Receive
  <1> QED
    BY <1>1, <1>4, <1>5, <1>6, <1>7, <1>8 DEF Get3Document

\* Every step keeps the invariant.
LEMMA NextAuth == AuthInv /\ [Next]_vars => AuthInv'
  <1> SUFFICES ASSUME AuthInv, [Next]_vars PROVE AuthInv'
    OBVIOUS
  <1>1. CASE UNCHANGED vars
    BY <1>1, StutterAuth DEF vars, sockVars, httpVars, kernel
  <1>2. CASE Boot \/ Network
    BY <1>2, StutterAuth DEF Boot, Network, sockVars, httpVars, kernel
  <1>3. CASE WebStart \/ WebGot
    BY <1>3 DEF WebStart, WebGot, KGoto, sockVars, httpVars, AuthInv, RequestInv, DocumentInv,
                Permitted, Certificates
  <1>4. CASE RunReturns
    BY <1>4, StutterAuth DEF RunReturns, sockVars, httpVars, kernel
  <1>5. CASE (Answer /\ UNCHANGED <<appVars, kernel>>) \/ Answer3
    BY <1>5 DEF Answer, Answer3, httpVars, kernel, AuthInv, RequestInv, DocumentInv,
                Permitted, Certificates
  <1>6. CASE Fault
    BY <1>6 DEF Fault, Cut, kernel, AuthInv, RequestInv, DocumentInv, Permitted, Certificates
  <1>7. CASE Halted
    BY <1>1, <1>7 DEF Halted
  <1> QED
    BY <1>1, <1>2, <1>3, <1>4, <1>5, <1>6, <1>7, HttpAuth, DocumentAuth
    DEF Next, Program, Server

\* AuthenticationInvariant: the state of the TLS socket matches what the program
\* has done with it, in every reachable state.
THEOREM AuthenticationInvariant == Spec => []AuthInv
  BY InitAuth, NextAuth, PTL DEF Spec

\* NothingSentUnauthenticated: nothing is sent over TLS to a server whose
\* certificate does not verify, unless there is no certificate on the card and
\* CHTTPClient goes on without (httpclient.cpp:89-95), whatever is on the card,
\* whatever the requests are and wherever the connection breaks.
THEOREM NothingSentUnauthenticated == Spec => []ServerAuthenticated
  <1>1. AuthInv => ServerAuthenticated
    BY DEF AuthInv, Permitted, Certificates, ServerAuthenticated
  <1> QED
    BY <1>1, AuthenticationInvariant, PTL
==============================================================================
