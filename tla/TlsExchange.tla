----------------------------- MODULE TlsExchange -----------------------------
(***************************************************************************)
(* A client sample and a server sample of samples/mbedtls run on two       *)
(* machines and talk to each other.  A scenario says which programs run    *)
(* and with which argv (the READMEs of the samples ask the user to edit    *)
(* argv[] in kernel.cpp).                                                  *)
(***************************************************************************)
EXTENDS SslClient2, SslServer2

CONSTANT Scenarios    \* set of [client, server : program, cArgv, sArgv : arguments]

ASSUME ScenariosAssumption ==
    \A s \in Scenarios :
        s.client \in {"ssl_client1", "ssl_client2"} /\ s.server \in {"ssl_server", "ssl_server2"}

VARIABLES cProg, sProg    \* the programs that run

cAll == <<cVars1, cVars2>>
sAll == <<sVars1, sVars2>>
vars == <<cProg, sProg, cAll, sAll, wire>>

Init ==
    /\ \E s \in Scenarios : /\ cProg = s.client /\ cArgv = s.cArgv
                            /\ sProg = s.server /\ sArgv = s.sArgv
    /\ Init1 /\ Init2 /\ SInit1 /\ SInit2 /\ WireInit

Client == /\ \/ cProg = "ssl_client1" /\ Client1 /\ UNCHANGED cVars2
             \/ cProg = "ssl_client2" /\ Client2
          /\ UNCHANGED <<cProg, sProg, sAll>>

Server == /\ \/ sProg = "ssl_server" /\ Server1 /\ UNCHANGED sVars2
             \/ sProg = "ssl_server2" /\ Server2
          /\ UNCHANGED <<cProg, sProg, cAll>>

\* Somebody else connects to the server and says nothing,
Stray ==
    /\ breaks < MaxBreaks /\ listening /\ Len(links) < MaxLinks
    /\ links' = Append(links, NewLink)
    /\ backlog' = Append(backlog, Len(links) + 1)
    /\ breaks' = breaks + 1
    /\ UNCHANGED <<listening, ssl, hello, refused>>

\* until he leaves, now or later or never.
StrayLeaves ==
    /\ \E l \in DOMAIN links \ {cLink} :
        /\ links[l].up /\ "c" \in links[l].open
        /\ links' = [links EXCEPT ![l] = Shut(@, "c")]
    /\ UNCHANGED <<backlog, listening, ssl, hello, refused, breaks>>

Network == (Break \/ Stray \/ StrayLeaves) /\ UNCHANGED <<cProg, sProg, cAll, sAll>>

\* Programs that read with a timeout.
CTimes == cProg = "ssl_client2" /\ cOpt.nbio = 0 /\ cOpt.read_timeout # 0
STimes == sProg = "ssl_server2" /\ sOpt.nbio = 0 /\ sOpt.read_timeout # 0

\* Without a timeout, both sides wait for ever after a request of no bytes,
EmptyRequest ==
    /\ cProg = "ssl_client2" /\ RequestLen = 0 /\ ~CTimes /\ ~STimes
    /\ cPc = "read" /\ sPc = "read" /\ cLink = sLink /\ links[cLink] = NewLink

\* and the server for a stranger as long as he likes.
HeldUp ==
    /\ ~STimes /\ sPc = "handshake" /\ sLink # cLink
    /\ Arrived(sLink, "s") = <<>> /\ ~Gone(sLink, "s")

\* The client is done and the server waits for the next one, or it is done, too.
Quiet ==
    /\ \/ cPc = "done" /\ (sPc = "done" \/ (sPc = "accept" /\ backlog = <<>>))
       \/ EmptyRequest
    /\ UNCHANGED vars

Next == Client \/ Server \/ Network \/ Quiet

Spec == Init /\ [][Next]_vars /\ WF_vars(Client) /\ WF_vars(Server)
------------------------------------------------------------------------------
\* No record of a request ends with a newline but the last one.
RecordEnds == {k * cOpt.max_frag_len : k \in 1..RequestLen}
NoEarlyNewline == cProg = "ssl_client2" => RecordEnds \cap Newlines \subseteq {RequestLen}

UnderWay(l, x, t) == l # 0 /\ \E i \in DOMAIN Arrived(l, x) : Arrived(l, x)[i].t = t

(* LockStep: when ssl_client2 starts to write a request, nothing of an     *)
(* earlier response is still unread, and with ssl_server2 nothing of an    *)
(* earlier request either: request and response alternate although both    *)
(* are recognised by a newline at the end of a record only, requests are   *)
(* cut into records, and handshakes and renegotiations come in between.    *)
(* It takes a request_size with NoEarlyNewline.                            *)
LockStep ==
    NoEarlyNewline /\ cProg = "ssl_client2" /\ cPc = "send" /\ cWritten = 0 =>
        /\ ~UnderWay(cLink, "c", "data")
        /\ sProg = "ssl_server2" => ~UnderWay(cLink, "s", "data")

(* ServerAsksReader: the server requests a renegotiation "while client is  *)
(* waiting for input from us" (ssl_server2.c:2346): its HelloRequest meets *)
(* a client that reads (or gives up).  It does not hold when a record of   *)
(* the request ends with an early newline.                                 *)
ServerAsksReader == UnderWay(cLink, "c", "hreq") => cPc \in {"read", "close", "exit"}

(* RenegotiateWhilePeerWaits: a side asks for a renegotiation only while   *)
(* the other one waits for input, unless a record ends with an early       *)
(* newline: the HelloRequest meets a client that reads, the ClientHello of *)
(* a running session a server that reads or is on its way to.              *)
RenegotiateWhilePeerWaits ==
    NoEarlyNewline =>
        /\ ServerAsksReader
        /\ cLink = sLink /\ UnderWay(sLink, "s", "rehello") /\ cPc = "renegotiating" =>
                sPc \in {"handshake", "read", "close_notify", "reset"}

OneSideForces ==
    /\ cProg = "ssl_client2" /\ sProg = "ssl_server2"
    /\ (cOpt.force_ciphersuite = "") # (sOpt.force_ciphersuite = "")
    /\ sOpt.version_suites = <<>>

(* ForcedSuiteIsCommon: a ciphersuite that one side forces and that the    *)
(* other side could use in some version is never refused for want of a     *)
(* common ciphersuite: the forced side has narrowed its versions to those  *)
(* of the suite ("If we select a version that's not supported by this      *)
(* suite, then there will be no common ciphersuite", ssl_server2.c).       *)
ForcedSuiteIsCommon ==
    OneSideForces /\ refused = "suite" =>
        LET forced == IF cOpt.force_ciphersuite = "" THEN sOpt ELSE cOpt
            other == IF cOpt.force_ciphersuite = "" THEN CConf(cOpt) ELSE SConf(sOpt)
        IN  \/ other.max < Suites[forced.force_ciphersuite].min
            \/ Suites[forced.force_ciphersuite].rc4 /\ ~other.arc4

(* ClientEnds: the client program ends, however the handshake, the         *)
(* exchanges, the reconnects or the connections turn out.  There are two   *)
(* exceptions, both without a timeout: an empty request, and a stranger    *)
(* that holds up the server and never leaves.                              *)
ClientEnds == <>(cPc = "done") \/ <>[]EmptyRequest \/ <>[](HeldUp /\ ~CTimes)

(* ServerComesBack: whatever happens to a connection, the server waits for *)
(* the next client again (only ssl_server may end instead), but for the    *)
(* same two exceptions: nothing else stops it for ever.                    *)
ServerComesBack ==
    \/ (sPc = "handshake") ~> (sPc = "accept" \/ (sProg = "ssl_server" /\ sPc = "done"))
    \/ <>[]EmptyRequest \/ <>[]HeldUp

(* ServerKeepsServing: a server that waited for a client ends only when    *)
(* accept() fails; the branch "peer closed the connection" of ssl_server.c *)
(* goes on with the next client.                                           *)
ServerKeepsServing == [][sPc = "write" => sPc' # "exit"]_vars

(* FreesWhatItInitialised: exit frees only contexts that were initialised  *)
(* ("Make sure memory references are valid in case we exit early",         *)
(* ssl_server2.c:913; ssl_client2.c frees the same contexts).              *)
FreesWhatItInitialised == cFreed \subseteq cReady /\ sFreed \subseteq sReady
==============================================================================
