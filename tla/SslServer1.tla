----------------------------- MODULE SslServer1 ------------------------------
(***************************************************************************)
(* tlsmain() of samples/mbedtls/03-https-server1/ssl_server.c: it accepts  *)
(* a client, reads one piece of a request, writes the response, closes and *)
(* waits for the next client.  The variables are also those of the other   *)
(* server (SslServer2).                                                    *)
(***************************************************************************)
EXTENDS TlsWire, SequencesExt

CONSTANT ResponseLen    \* length of the response, at most a buffer of 200 bytes

ASSUME ResponseAssumption == ResponseLen \in Nat /\ ResponseLen <= MaxContent

VARIABLES
    sPc,     \* the section of tlsmain() that runs next
    sRet,    \* ret; -1 stands for every negative error code
    sReady,  \* contexts that are initialised
    sFreed,  \* contexts that were freed on exit
    sLink    \* client_fd: the connection, 0 if there is none

sRest == <<sReady, sFreed>>
sVars1 == <<sPc, sRet, sReady, sFreed, sLink>>
sIo == <<backlog, listening, ssl, hello, refused, breaks>>

SInit1 == sPc = "begin" /\ sRet = 0 /\ sReady = {} /\ sFreed = {} /\ sLink = 0

SGoto(from, to, ret) == sPc = from /\ sPc' = to /\ sRet' = ret

\* A call that goes on with the next section or fails and leaves for exit.
SCall(from, to) == SGoto(from, to, 0) \/ SGoto(from, "exit", -1)

SContexts1 == {"listen_fd", "client_fd", "ssl", "conf", "cache", "srvcert", "pkey", "entropy", "ctr_drbg"}

S1Begin ==
    /\ SGoto("begin", "cert", 0)
    /\ sReady' = SContexts1
    /\ UNCHANGED <<sFreed, sLink, wire>>

S1LoadCert == SCall("cert", "bind") /\ UNCHANGED <<sRest, sLink, wire>>

\* mbedtls_net_bind: from now on clients can connect.
SNetBind(from, to) ==
    /\ \/ SGoto(from, to, 0) /\ listening' = TRUE
       \/ SGoto(from, "exit", -1) /\ UNCHANGED listening
    /\ UNCHANGED <<links, backlog, ssl, hello, refused, breaks>>

S1Bind == SNetBind("bind", "seed") /\ UNCHANGED <<sRest, sLink>>

S1Seed == SCall("seed", "config") /\ UNCHANGED <<sRest, sLink, wire>>

S1Config == SCall("config", "reset") /\ UNCHANGED <<sRest, sLink, wire>>

SConf1 == [min |-> 1, max |-> 3, suites |-> [v \in 0..3 |-> DOMAIN Suites],
           arc4 |-> FALSE, verify |-> FALSE, renegotiation |-> FALSE]

\* reset: the connection is freed and the session is reset; ret keeps its value.
SReset ==
    /\ SGoto("reset", "accept", sRet)
    /\ links' = IF sLink = 0 THEN links ELSE [links EXCEPT ![sLink] = Shut(@, "s")]
    /\ sLink' = 0
    /\ ssl' = [ssl EXCEPT !["s"] = "start"]
    /\ UNCHANGED <<backlog, listening, hello, refused, breaks>>

S1Reset == SReset /\ UNCHANGED sRest

\* mbedtls_net_accept waits for a client; with a client that is gone it may fail.
SNetAccept(from, to) ==
    /\ backlog # <<>>
    /\ \/ SGoto(from, to, 0) /\ sLink' = Head(backlog)
       \/ Gone(Head(backlog), "s") /\ SGoto(from, "exit", -1) /\ UNCHANGED sLink
    /\ backlog' = Tail(backlog)
    /\ UNCHANGED <<links, listening, ssl, hello, refused, breaks>>

S1Accept == SNetAccept("accept", "handshake") /\ UNCHANGED sRest

\* A handshake that fails is the end of this client only.
S1Handshake == \E result \in {"more", "ok", "error"} :
    /\ sPc = "handshake"
    /\ SslHandshake(sLink, "s", SConf1, FALSE, result)
    /\ SGoto("handshake",
             CASE result = "more" -> "handshake" [] result = "ok" -> "read" [] OTHER -> "reset",
             IF result = "error" THEN -1 ELSE 0)
    /\ UNCHANGED <<sRest, sLink, backlog, listening, breaks>>

\* Whatever the read returns, the response is written next.
S1Read ==
    /\ sPc = "read"
    /\ \/ /\ \E r \in {Rec("eof", 0), Rec("error", 0), Rec("close", 0)} : SslRead(sLink, "s", r)
          /\ SGoto("read", "write", -1)
       \/ /\ Arrived(sLink, "s") # <<>> /\ SslRead(sLink, "s", Head(Arrived(sLink, "s")))
          /\ Head(Arrived(sLink, "s")).t = "data"
          /\ SGoto("read", "write", 0)
       \/ SslReadControl(sLink, "s", SConf1.renegotiation) /\ UNCHANGED <<sPc, sRet>>
    /\ UNCHANGED <<sRest, sLink, sIo>>

\* The socket layer reports a failed send as MBEDTLS_ERR_NET_SEND_FAILED, never as
\* MBEDTLS_ERR_NET_CONN_RESET, so the server leaves.
S1Write == \E result \in {"ok", "error"} :
    /\ sPc = "write"
    /\ SslWrite(sLink, "s", Data(ResponseLen, TRUE), result)
    /\ SGoto("write", IF result = "ok" THEN "close_notify" ELSE "exit", IF result = "ok" THEN 0 ELSE -1)
    /\ UNCHANGED <<sRest, sLink, sIo>>

S1Close == \E result \in {"ok", "error"} :
    /\ sPc = "close_notify"
    /\ SslWrite(sLink, "s", Rec("close", 0), result)
    /\ SGoto("close_notify", "reset", IF result = "ok" THEN 0 ELSE -1)
    /\ UNCHANGED <<sRest, sLink, sIo>>

\* exit frees both sockets: clients that wait to be accepted are dropped.
SNetFree ==
    /\ sLink' = 0 /\ listening' = FALSE /\ backlog' = <<>>
    /\ links' = [l \in DOMAIN links |->
                    IF l = sLink \/ l \in ToSet(backlog) THEN Shut(links[l], "s") ELSE links[l]]
    /\ UNCHANGED <<ssl, hello, refused, breaks>>

S1Exit ==
    /\ SGoto("exit", "done", sRet)
    /\ SNetFree /\ sFreed' = SContexts1
    /\ UNCHANGED sReady

Server1 == S1Begin \/ S1LoadCert \/ S1Bind \/ S1Seed \/ S1Config \/ S1Reset \/ S1Accept
           \/ S1Handshake \/ S1Read \/ S1Write \/ S1Close \/ S1Exit
==============================================================================
