----------------------------- MODULE SslClient2 ------------------------------
(***************************************************************************)
(* tlsmain() of samples/mbedtls/02-https-client2/ssl_client2.c: the client *)
(* with options.  Over UDP the socket layer of Circle refuses to connect,  *)
(* so the datagram branches behind the connect are never reached.          *)
(***************************************************************************)
EXTENDS SslClient1, TlsOptions

CONSTANTS MaxRequest,  \* MAX_REQUEST_SIZE
          LineLen      \* length of the request line in GET_REQUEST, with its newline

ASSUME LineAssumption == LineLen \in Nat

VARIABLES
    cArgv,     \* the arguments to parse, at first with the program's name; <<>> if argc = 0
    cOpt,      \* struct options
    cWritten,  \* bytes of the request that are written
    cSaved,    \* saved_session has a session
    cTry       \* first_try of my_recv() and my_send()

cVars2 == <<cArgv, cOpt, cWritten, cSaved, cTry>>
cRest2 == <<cRest, cArgv, cSaved>>

\* The options that control depends on, with their defaults.
CDefaults ==
    [nbio |-> 0, read_timeout |-> 0, request_size |-> -1, psk |-> [len |-> 0, hex |-> TRUE],
     force_ciphersuite |-> "", renegotiation |-> FALSE, renegotiate |-> 0, exchanges |-> 1,
     min_version |-> -1, max_version |-> -1, arc4 |-> -1, auth_mode |-> "",
     reconnect |-> 0, reconnect_hard |-> 0, curves |-> <<>>, transport |-> 0,
     max_frag_len |-> MaxContent]

\* Accepted values of the options, in the order of the source.
CConnectionOptions ==
    [server_name |-> STRING, server_addr |-> STRING, server_port |-> STRING, dtls |-> 0..1,
     debug_level |-> 0..65535, nbio |-> 0..2, read_timeout |-> Int, max_resend |-> Nat,
     request_page |-> STRING, request_size |-> 0..MaxRequest,
     ca_file |-> STRING, ca_path |-> STRING, crt_file |-> STRING, key_file |-> STRING,
     psk |-> [len : Nat, hex : BOOLEAN], psk_identity |-> STRING, ecjpake_pw |-> STRING]

CSessionOptions ==
    [force_ciphersuite |-> DOMAIN Suites, renegotiation |-> Int, allow_legacy |-> -1..1,
     renegotiate |-> 0..1, exchanges |-> Nat \ {0}, reconnect |-> 0..2, reco_delay |-> Nat,
     reconnect_hard |-> 0..1, tickets |-> 0..2, alpn |-> STRING, fallback |-> 0..1,
     extended_ms |-> 0..1, curves |-> Seq(STRING), etm |-> 0..1]

CVersionOptions ==
    [min_version |-> DOMAIN Minor, max_version |-> DOMAIN Minor, arc4 |-> 0..1,
     allow_sha1 |-> 0..1, force_version |-> DOMAIN Minor]

CRecordOptions ==
    [auth_mode |-> {"none", "optional", "required"}, max_frag_len |-> FragLens,
     trunc_hmac |-> 0..1, hs_timeout |-> {t \in Nat \X Nat : t[1] # 0 /\ t[2] >= t[1]},
     recsplit |-> 0..1, dhmlen |-> Nat]

CAccepts == AllOf(AllOf(CConnectionOptions, CSessionOptions), AllOf(CVersionOptions, CRecordOptions))

Init2 ==
    /\ cOpt = CDefaults /\ cWritten = 0 /\ cSaved = FALSE
    /\ cTry = [recv |-> TRUE, send |-> TRUE]

Contexts2 == {"server_fd", "ssl", "conf", "saved_session", "ctr_drbg", "cacert", "clicert", "pkey"}

\* The contexts are initialised, all but entropy.  Without argv there is only usage.
C2Begin ==
    /\ \/ cArgv = <<>> /\ CGoto("begin", "exit", 1) /\ UNCHANGED cArgv
       \/ cArgv # <<>> /\ CGoto("begin", "options", 0) /\ cArgv' = Tail(cArgv)
    /\ cReady' = Contexts2
    /\ UNCHANGED <<cFreed, cLink, cSent, cGot, cOpt, cWritten, cSaved, cTry, wire>>

\* The loop over argv, one argument at a time.
C2Options ==
    /\ \/ /\ cArgv = <<>> /\ CGoto("options", "suite", 0) /\ UNCHANGED <<cArgv, cOpt>>
       \/ LET ret == Usage(CAccepts, Head(cArgv))
          IN  /\ cArgv # <<>> /\ CGoto("options", IF ret = 0 THEN "options" ELSE "exit", ret)
              /\ cOpt' = ParseArg(CAccepts, cOpt, Head(cArgv)) /\ cArgv' = Tail(cArgv)
    /\ UNCHANGED <<cRest, cSaved, cWritten, cTry, wire>>

CForceSuite(o) == ForceSuite(o)

C2ForceSuite ==
    /\ cPc = "suite"
    /\ LET forced == CForceSuite(cOpt)
       IN  CGoto("suite", IF forced.ret = 0 THEN "psk" ELSE "exit", forced.ret) /\ cOpt' = forced.o
    /\ UNCHANGED <<cRest2, cWritten, cTry, wire>>

\* A key that is not hex leaves with ret as it is.
C2Psk ==
    /\ CGoto("psk", IF cOpt.psk.len % 2 = 0 /\ cOpt.psk.hex THEN "curves" ELSE "exit", cRet)
    /\ UNCHANGED <<cRest2, cOpt, cWritten, cTry, wire>>

\* A bad list of curves, too; the ALPN names are cut off at the size of their list.
C2Curves ==
    /\ CGoto("curves", IF CurvesOk(cOpt.curves) THEN "seed" ELSE "exit", cRet)
    /\ UNCHANGED <<cRest2, cOpt, cWritten, cTry, wire>>

C2Seed ==
    /\ CCall("seed", "ca")
    /\ cReady' = cReady \cup {"entropy"}
    /\ UNCHANGED <<cFreed, cLink, cSent, cGot, cVars2, wire>>

C2LoadCa == CCall("ca", "cert") /\ UNCHANGED <<cRest2, cOpt, cWritten, cTry, wire>>

C2LoadCert == CCall("cert", "connect") /\ UNCHANGED <<cRest2, cOpt, cWritten, cTry, wire>>

\* mbedtls_net_connect accepts TCP only; then the socket gets its blocking mode.
CConnectAt(from, to) ==
    IF cOpt.transport = 1
    THEN CGoto(from, "exit", -1) /\ UNCHANGED <<cLink, wire>>
    ELSE CNetConnect(from, to)

C2Connect ==
    /\ CConnectAt("connect", "config")
    /\ UNCHANGED <<cReady, cFreed, cSent, cGot, cVars2>>

CConf(o) == Configured(o, AllSuites(o), TRUE)

C2Config == CCall("config", "setup") /\ UNCHANGED <<cRest2, cOpt, cWritten, cTry, wire>>

\* mbedtls_ssl_setup, the host name and the I/O functions for the mode nbio.
C2Setup == CCall("setup", "handshake") /\ UNCHANGED <<cRest2, cOpt, cWritten, cTry, wire>>
------------------------------------------------------------------------------
(* With nbio=2 every receive and send is refused once before it is tried.  *)

CSends == \E p \in Script : p[1] = "c" /\ p[2] = ssl["c"] /\ p[3] = "!"
CHandshakes == {"handshake", "hard_handshake", "reconnect_handshake"}
CDirection == IF cPc \in {"read", "renegotiating"} \/ (cPc \in CHandshakes /\ ~CSends)
              THEN "recv" ELSE "send"

\* my_recv() and my_send() return WANT_READ or WANT_WRITE and the caller loops.
C2Want ==
    /\ cPc \in CHandshakes \cup {"read", "renegotiating", "renegotiate", "send", "close"}
    /\ cOpt.nbio = 2 /\ cTry[CDirection]
    /\ cTry' = [cTry EXCEPT ![CDirection] = FALSE]
    /\ UNCHANGED <<cVars1, cArgv, cOpt, cWritten, cSaved, wire>>

\* The call is really made, and the next one is a new operation.
CDoes(d) ==
    /\ cOpt.nbio = 2 => ~cTry[d]
    /\ cTry' = [cTry EXCEPT ![d] = TRUE]

\* Only the blocking functions have a timeout.
CTimedOut == cOpt.nbio = 0 /\ cOpt.read_timeout # 0 /\ SslTimeout(cLink, "c")
------------------------------------------------------------------------------
CHandshakeAt(from, to) ==
    /\ cPc = from
    /\ \/ \E result \in {"more", "ok", "error"} :
            /\ SslHandshake(cLink, "c", CConf(cOpt), cSaved, result)
            /\ CGoto(from, CASE result = "more" -> from [] result = "ok" -> to [] OTHER -> "exit",
                     IF result = "error" THEN -1 ELSE 0)
       \/ CTimedOut /\ ~CSends /\ CGoto(from, "exit", -1) /\ UNCHANGED <<ssl, hello, refused>>
    /\ CDoes(CDirection)
    /\ UNCHANGED <<cRest2, cOpt, cWritten, backlog, listening, breaks>>

C2Handshake == CHandshakeAt("handshake", "session")

\* The session is saved if there is a reconnect to come; the verify result is printed.
C2Session ==
    /\ \/ CGoto("session", "renegotiate", 0) /\ cSaved' = (cOpt.reconnect # 0)
       \/ cOpt.reconnect # 0 /\ CGoto("session", "exit", -1) /\ UNCHANGED cSaved
    /\ UNCHANGED <<cRest, cArgv, cOpt, cWritten, cTry, wire>>

\* mbedtls_ssl_renegotiate asks and waits for the answer.
C2Renegotiate ==
    /\ \/ /\ cPc = "renegotiate" /\ cOpt.renegotiate = 0
          /\ CGoto("renegotiate", "send", cRet) /\ UNCHANGED <<cTry, links>>
       \/ /\ cPc = "renegotiate" /\ cOpt.renegotiate # 0 /\ CDoes("send")
          /\ \E result \in {"ok", "error"} :
                /\ SslWrite(cLink, "c", Rec("rehello", 0), result)
                /\ CGoto("renegotiate", IF result = "ok" THEN "renegotiating" ELSE "exit",
                         IF result = "ok" THEN 0 ELSE -1)
       \/ /\ cPc = "renegotiating" /\ CDoes("recv")
          /\ \/ \E result \in {"ok", "error"} :
                    /\ SslRenegotiated(cLink, result)
                    /\ CGoto("renegotiating", IF result = "ok" THEN "send" ELSE "exit",
                             IF result = "ok" THEN 0 ELSE -1)
             \/ CTimedOut /\ CGoto("renegotiating", "exit", -1)
    /\ UNCHANGED <<cRest2, cOpt, cWritten, wireRest>>

\* The request is padded or truncated to request_size.
RequestLen == IF cOpt.request_size = -1 THEN GetLen ELSE cOpt.request_size

\* The lengths at which it ends with a newline: its own, that of the request line,
\* and that before the last two bytes of GET_REQUEST_END, which truncation removes.
Newlines ==
    {RequestLen} \cup ({LineLen, Max({RequestLen, GetLen}) - 2} \cap 1..(RequestLen - 2))

\* One mbedtls_ssl_write of the loop, which takes what fits into a record.
C2Send ==
    LET n == Min({RequestLen - cWritten, cOpt.max_frag_len})
        last == cWritten + n = RequestLen
        r == Data(n, cWritten + n \in Newlines)
    IN  /\ cPc = "send"
        /\ \/ /\ n = 0 /\ CGoto("send", "read", cRet) /\ cSent' = cSent + 1
              /\ UNCHANGED <<cWritten, cTry, links>>
           \/ /\ n > 0 /\ CDoes("send")
              /\ SslWrite(cLink, "c", r, "ok")
              /\ CGoto("send", IF last THEN "read" ELSE "send", 0)
              /\ cWritten' = IF last THEN 0 ELSE cWritten + n
              /\ cSent' = IF last THEN cSent + 1 ELSE cSent
           \/ /\ n > 0 /\ CDoes("send")
              /\ SslWrite(cLink, "c", r, "error")
              /\ CGoto("send", "exit", -1) /\ UNCHANGED <<cWritten, cSent>>
        /\ UNCHANGED <<cReady, cFreed, cLink, cGot, cArgv, cSaved, cOpt, wireRest>>

\* Where reading goes on after end of file, and after a message that is not data.
CReadAt(eofTo, controlTo) ==
    /\ cPc = "read" /\ CDoes("recv")
    /\ \/ /\ SslRead(cLink, "c", Rec("close", 0)) /\ CGoto("read", "close", 0) /\ UNCHANGED cGot
       \/ /\ SslRead(cLink, "c", Rec("eof", 0)) /\ CGoto("read", eofTo, 0) /\ UNCHANGED cGot
       \/ /\ SslRead(cLink, "c", Rec("error", 0)) \/ CTimedOut
          /\ CGoto("read", "exit", -1) /\ UNCHANGED cGot
       \/ /\ Arrived(cLink, "c") # <<>> /\ SslRead(cLink, "c", Head(Arrived(cLink, "c")))
          /\ Head(Arrived(cLink, "c")).t = "data"
          /\ CGoto("read", IF Head(Arrived(cLink, "c")).nl THEN "hard" ELSE "read", 0)
          /\ cGot' = IF Head(Arrived(cLink, "c")).nl THEN cGot + 1 ELSE cGot
       \/ /\ SslReadControl(cLink, "c", CConf(cOpt).renegotiation)
          /\ CGoto("read", controlTo, cRet) /\ UNCHANGED cGot
    /\ UNCHANGED <<cReady, cFreed, cLink, cSent, cArgv, cSaved, cOpt, cWritten, wireRest>>

\* Variants with a mistake: end of file is read again, WANT_READ ends the loop.
C2ReadPastEof == CReadAt("read", "read")
C2ReadOnce == CReadAt("reconnect", "hard")

\* The response is complete when a record ends with a newline.
C2Read == CReadAt("reconnect", "read")

\* reconnect_hard: a new handshake on the same connection, once.
C2Hard ==
    /\ cPc = "hard"
    /\ IF cOpt.reconnect_hard = 0
       THEN CGoto("hard", "again", cRet) /\ UNCHANGED <<cOpt, ssl>>
       ELSE /\ cOpt' = [cOpt EXCEPT !.reconnect_hard = 0]
            /\ CGoto("hard", "hard_handshake", 0) \/ CGoto("hard", "exit", -1)
            /\ ssl' = [ssl EXCEPT !["c"] = "start"]
    /\ UNCHANGED <<cRest2, cWritten, cTry, links, backlog, listening, hello, refused, breaks>>

C2HardHandshake == CHandshakeAt("hard_handshake", "send")

C2Again ==
    /\ cOpt' = [cOpt EXCEPT !.exchanges = @ - 1]
    /\ CGoto("again", IF cOpt'.exchanges > 0 THEN "send" ELSE "close", cRet)
    /\ UNCHANGED <<cRest2, cWritten, cTry, wire>>

C2Close ==
    /\ CGoto("close", "reconnect", 0) /\ CDoes("send")
    /\ \E result \in {"ok", "error"} : SslWrite(cLink, "c", Rec("close", 0), result)
    /\ UNCHANGED <<cRest2, cOpt, cWritten, wireRest>>

\* Free the connection, reset the session and set the saved one; these fail
\* only for lack of memory.
C2Reconnect ==
    /\ cPc = "reconnect"
    /\ IF cOpt.reconnect = 0
       THEN CGoto("reconnect", "exit", cRet) /\ UNCHANGED <<cLink, cOpt, links, ssl>>
       ELSE /\ cOpt' = [cOpt EXCEPT !.reconnect = @ - 1]
            /\ CNetFree /\ ssl' = [ssl EXCEPT !["c"] = "start"]
            /\ CGoto("reconnect", "reconnect_connect", 0) \/ CGoto("reconnect", "exit", -1)
    /\ UNCHANGED <<cReady, cFreed, cSent, cGot, cArgv, cSaved, cWritten, cTry,
                   backlog, listening, hello, refused, breaks>>

C2ReconnectConnect ==
    /\ CConnectAt("reconnect_connect", "reconnect_handshake")
    /\ UNCHANGED <<cReady, cFreed, cSent, cGot, cVars2>>

C2ReconnectHandshake == CHandshakeAt("reconnect_handshake", "send")

\* exit frees every context, entropy included; an error code becomes 1.
C2Exit ==
    /\ CGoto("exit", "done", IF cRet < 0 THEN 1 ELSE cRet)
    /\ CNetFree /\ cFreed' = Contexts2 \cup {"entropy"}
    /\ UNCHANGED <<cReady, cSent, cGot, cVars2, wireRest>>

Client2 ==
    \/ C2Begin \/ C2Options \/ C2ForceSuite \/ C2Psk \/ C2Curves \/ C2Seed \/ C2LoadCa \/ C2LoadCert
    \/ C2Connect \/ C2Config \/ C2Setup \/ C2Want \/ C2Handshake \/ C2Session \/ C2Renegotiate
    \/ C2Send \/ C2Read \/ C2Hard \/ C2HardHandshake \/ C2Again \/ C2Close
    \/ C2Reconnect \/ C2ReconnectConnect \/ C2ReconnectHandshake \/ C2Exit
==============================================================================
