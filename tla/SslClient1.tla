----------------------------- MODULE SslClient1 ------------------------------
(***************************************************************************)
(* tlsmain() of samples/mbedtls/01-https-client1/ssl_client1.c: one GET    *)
(* request, then reading until the connection ends.  The variables are     *)
(* also those of the other client (SslClient2).                            *)
(***************************************************************************)
EXTENDS TlsWire

CONSTANT GetLen    \* length of a plain GET request

ASSUME GetAssumption == GetLen \in Nat

VARIABLES
    cPc,     \* the section of tlsmain() that runs next
    cRet,    \* ret; -1 stands for every negative error code
    cReady,  \* contexts that are initialised
    cFreed,  \* contexts that were freed on exit
    cLink,   \* server_fd: the connection, 0 if there is none
    cSent,   \* requests that were written completely
    cGot     \* responses that were read

\* What an I/O call leaves alone.
wireRest == <<backlog, listening, ssl, hello, refused, breaks>>
cRest == <<cReady, cFreed, cLink, cSent, cGot>>

cVars1 == <<cPc, cRet, cReady, cFreed, cLink, cSent, cGot>>

Init1 ==
    /\ cPc = "begin" /\ cRet = 0 /\ cReady = {} /\ cFreed = {}
    /\ cLink = 0 /\ cSent = 0 /\ cGot = 0

CGoto(from, to, ret) == cPc = from /\ cPc' = to /\ cRet' = ret

\* A call that goes on with the next section or fails and leaves for exit.
CCall(from, to) == CGoto(from, to, 0) \/ CGoto(from, "exit", -1)

\* mbedtls_net_connect: DNS or connect fail, nobody listens, or the connection
\* waits to be accepted.
CNetConnect(from, to) ==
    \/ /\ CGoto(from, "exit", -1) /\ UNCHANGED <<cLink, wire>>
    \/ /\ listening /\ Len(links) < MaxLinks
       /\ CGoto(from, to, 0)
       /\ links' = Append(links, NewLink) /\ cLink' = Len(links) + 1
       /\ backlog' = Append(backlog, Len(links) + 1)
       /\ UNCHANGED <<listening, ssl, hello, refused, breaks>>

\* mbedtls_net_free of server_fd; a connection that waits is dropped with it.
CNetFree ==
    /\ cLink' = 0
    /\ links' = IF cLink = 0 THEN links ELSE [links EXCEPT ![cLink] = Shut(@, "c")]

\* The contexts that exit frees.
Contexts1 == {"server_fd", "ssl", "conf", "cacert", "ctr_drbg", "entropy"}

C1Begin ==
    /\ CGoto("begin", "ca", 0) \/ CGoto("begin", "exit", -1)
    /\ cReady' = Contexts1
    /\ UNCHANGED <<cFreed, cLink, cSent, cGot, wire>>

C1LoadCa == CCall("ca", "connect") /\ UNCHANGED <<cRest, wire>>

C1Connect == CNetConnect("connect", "config") /\ UNCHANGED <<cReady, cFreed, cSent, cGot>>

\* Configuration with the library's defaults; authmode OPTIONAL never ends a handshake.
C1Config == CCall("config", "handshake") /\ UNCHANGED <<cRest, wire>>

Conf1 == [min |-> 1, max |-> 3, suites |-> [v \in 0..3 |-> DOMAIN Suites],
          arc4 |-> FALSE, verify |-> FALSE, renegotiation |-> FALSE]

C1Handshake == \E result \in {"more", "ok", "error"} :
    /\ cPc = "handshake"
    /\ SslHandshake(cLink, "c", Conf1, FALSE, result)
    /\ cPc' = CASE result = "more" -> "handshake" [] result = "ok" -> "send" [] OTHER -> "exit"
    /\ cRet' = IF result = "error" THEN -1 ELSE 0
    /\ UNCHANGED <<cRest, backlog, listening, breaks>>

C1Write == \E result \in {"ok", "error"} :
    /\ cPc = "send"
    /\ SslWrite(cLink, "c", Data(GetLen, TRUE), result)
    /\ CGoto("send", IF result = "ok" THEN "read" ELSE "exit", IF result = "ok" THEN 0 ELSE -1)
    /\ cSent' = IF result = "ok" THEN cSent + 1 ELSE cSent
    /\ UNCHANGED <<cReady, cFreed, cLink, cGot, wireRest>>

\* Everything but data ends the loop; only end of file leaves ret = 0.
C1Read ==
    /\ cPc = "read"
    /\ \/ /\ \E r \in {Rec("eof", 0), Rec("error", 0), Rec("close", 0)} :
                SslRead(cLink, "c", r) /\ cRet' = IF r.t = "eof" THEN 0 ELSE -1
          /\ cPc' = "close" /\ UNCHANGED cGot
       \/ /\ Arrived(cLink, "c") # <<>> /\ SslRead(cLink, "c", Head(Arrived(cLink, "c")))
          /\ Head(Arrived(cLink, "c")).t = "data"
          /\ cGot' = IF Head(Arrived(cLink, "c")).nl THEN cGot + 1 ELSE cGot
          /\ UNCHANGED <<cPc, cRet>>
       \/ SslReadControl(cLink, "c", FALSE) /\ UNCHANGED <<cPc, cRet, cGot>>
    /\ UNCHANGED <<cReady, cFreed, cLink, cSent, wireRest>>

C1Close ==
    /\ CGoto("close", "exit", cRet)
    /\ \E result \in {"ok", "error"} : SslWrite(cLink, "c", Rec("close", 0), result)
    /\ UNCHANGED <<cRest, wireRest>>

C1Exit ==
    /\ CGoto("exit", "done", cRet)
    /\ CNetFree /\ cFreed' = Contexts1
    /\ UNCHANGED <<cReady, cSent, cGot, wireRest>>

Client1 == C1Begin \/ C1LoadCa \/ C1Connect \/ C1Config \/ C1Handshake \/ C1Write
           \/ C1Read \/ C1Close \/ C1Exit
==============================================================================
