----------------------------- MODULE SslServer2 ------------------------------
(***************************************************************************)
(* tlsmain() of samples/mbedtls/04-https-server2/ssl_server2.c: the server *)
(* with options.  Over UDP the socket layer of Circle refuses to bind, so  *)
(* the datagram branches behind the bind are never reached; there are no   *)
(* signals either, so received_sigterm stays 0.                            *)
(***************************************************************************)
EXTENDS SslServer1, TlsOptions

CONSTANTS PskMax,    \* MBEDTLS_PSK_MAX_LEN
          IoBufLen   \* IO_BUF_LEN

VARIABLES
    sArgv,     \* the arguments to parse, at first with the program's name; <<>> if argc = 0
    sOpt,      \* struct options
    sPsk,      \* psk_info: the entries of the list of pre-shared keys
    sLeft,     \* exchanges_left
    sWritten,  \* bytes of the response that are written
    sTry       \* first_try of my_recv() and my_send()

sVars2 == <<sArgv, sOpt, sPsk, sLeft, sWritten, sTry>>
sRest2 == <<sRest, sLink, sArgv, sPsk>>
sIdle == <<sLeft, sWritten, sTry>>

\* The options that control depends on, with their defaults.
SDefaults ==
    [nbio |-> 0, read_timeout |-> 0, psk |-> [len |-> 0, hex |-> TRUE], psk_list |-> <<>>,
     server_addr |-> "", crt_file |-> "", key_file |-> "", crt_file2 |-> "", key_file2 |-> "",
     force_ciphersuite |-> "", version_suites |-> <<>>, renegotiation |-> FALSE,
     renegotiate |-> 0, exchanges |-> 1, min_version |-> -1, max_version |-> -1,
     arc4 |-> -1, auth_mode |-> "", curves |-> <<>>, transport |-> 0]

\* Accepted values of the options, in the order of the source.
SConnectionOptions ==
    [server_port |-> STRING, server_addr |-> STRING, dtls |-> 0..1, debug_level |-> 0..65535,
     nbio |-> 0..2, read_timeout |-> Int, ca_file |-> STRING, ca_path |-> STRING,
     crt_file |-> STRING, key_file |-> STRING, crt_file2 |-> STRING, key_file2 |-> STRING,
     dhm_file |-> STRING, psk |-> [len : Nat, hex : BOOLEAN], psk_identity |-> STRING,
     psk_list |-> Seq([len : Nat, hex : BOOLEAN]), ecjpake_pw |-> STRING]

SSessionOptions ==
    [force_ciphersuite |-> DOMAIN Suites, curves |-> Seq(STRING), version_suites |-> Seq(STRING),
     renegotiation |-> Int, allow_legacy |-> -1..1, renegotiate |-> 0..1, renego_delay |-> Int,
     renego_period |-> Nat \ {0, 1}, exchanges |-> Nat]

SVersionOptions ==
    [min_version |-> DOMAIN Minor, max_version |-> DOMAIN Minor, arc4 |-> 0..1,
     allow_sha1 |-> 0..1, force_version |-> DOMAIN Minor]

\* get_auth_mode().
AuthModes == {"none", "optional", "required"}

SRecordOptions ==
    [auth_mode |-> AuthModes, cert_req_ca_list |-> 0..1, max_frag_len |-> FragLens,
     alpn |-> STRING, trunc_hmac |-> 0..1, extended_ms |-> 0..1, etm |-> 0..1, tickets |-> 0..1,
     ticket_timeout |-> Nat, cache_max |-> Nat, cache_timeout |-> Nat, cookies |-> -1..1,
     anti_replay |-> 0..1, badmac_limit |-> Nat,
     hs_timeout |-> {t \in Nat \X Nat : t[1] # 0 /\ t[2] >= t[1]}, sni |-> STRING]

SAccepts == AllOf(AllOf(SConnectionOptions, SSessionOptions), AllOf(SVersionOptions, SRecordOptions))

SInit2 ==
    /\ sOpt = SDefaults /\ sPsk = {} /\ sLeft = 0 /\ sWritten = 0
    /\ sTry = [recv |-> TRUE, send |-> TRUE]
------------------------------------------------------------------------------
(* Pre-shared keys: an item of a list is [len : characters, hex : all of    *)
(* them hex digits].                                                       *)

Unhexify(key) == key.len % 2 = 0 /\ key.len \div 2 <= PskMax /\ key.hex

\* psk_parse() of name1,key1[,name2,key2...]: an entry for every pair, and an
\* empty list (all entries freed) if a name has no key or a key is bad.
PskParse(items) ==
    IF Len(items) % 2 = 0 /\ \A i \in 1..(Len(items) \div 2) : Unhexify(items[2 * i])
    THEN 1..(Len(items) \div 2) ELSE {}

\* The contexts that exit frees, entropy is the only one that is not yet initialised.
SContexts2 == {"client_fd", "listen_fd", "ssl", "conf", "ctr_drbg", "cacert", "srvcert", "pkey",
               "srvcert2", "pkey2", "cache", "ticket_ctx", "cookie_ctx"}

S2Begin ==
    /\ \/ sArgv = <<>> /\ SGoto("begin", "exit", 1) /\ UNCHANGED sArgv
       \/ sArgv # <<>> /\ SGoto("begin", "options", 0) /\ sArgv' = Tail(sArgv)
    /\ sReady' = SContexts2
    /\ UNCHANGED <<sFreed, sLink, sOpt, sPsk, sIdle, wire>>

\* The loop over argv, one argument at a time.
S2Options ==
    /\ \/ /\ sArgv = <<>> /\ SGoto("options", "suite", 0) /\ UNCHANGED <<sArgv, sOpt>>
       \/ LET ret == Usage(SAccepts, Head(sArgv))
          IN  /\ sArgv # <<>> /\ SGoto("options", IF ret = 0 THEN "options" ELSE "exit", ret)
              /\ sOpt' = ParseArg(SAccepts, sOpt, Head(sArgv)) /\ sArgv' = Tail(sArgv)
    /\ UNCHANGED <<sRest, sLink, sPsk, sIdle, wire>>

SForceSuite(o) == ForceSuite(o)

S2ForceSuite ==
    /\ sPc = "suite"
    /\ LET forced == SForceSuite(sOpt)
       IN  SGoto("suite", IF forced.ret = 0 THEN "version_suites" ELSE "exit", forced.ret) /\ sOpt' = forced.o
    /\ UNCHANGED <<sRest2, sIdle, wire>>

\* Four names, one for every version; a fifth one would be part of no name.
S2VersionSuites ==
    LET names == sOpt.version_suites
        ret == IF names = <<>> THEN 0
               ELSE IF Len(names) < 4 THEN 1
               ELSE IF \E i \in 1..4 : names[i] \notin DOMAIN Suites THEN 2 ELSE 0
    IN  /\ SGoto("version_suites", IF ret = 0 THEN "psk" ELSE "exit", ret)
        /\ UNCHANGED <<sRest2, sOpt, sIdle, wire>>

\* A bad key leaves with ret as it is.
S2Psk ==
    /\ LET parsed == PskParse(sOpt.psk_list)
           ok == Unhexify(sOpt.psk) /\ (sOpt.psk_list = <<>> \/ parsed # {})
       IN  /\ SGoto("psk", IF ok THEN "curves" ELSE "exit", sRet)
           /\ sPsk' = IF Unhexify(sOpt.psk) THEN parsed ELSE {}
    /\ UNCHANGED <<sRest, sLink, sArgv, sOpt, sIdle, wire>>

\* A bad list of curves, too; the ALPN names are cut off at the size of their list.
S2Curves ==
    /\ SGoto("curves", IF CurvesOk(sOpt.curves) THEN "seed" ELSE "exit", sRet)
    /\ UNCHANGED <<sRest2, sOpt, sIdle, wire>>

S2Seed ==
    /\ SCall("seed", "ca")
    /\ sReady' = sReady \cup {"entropy"}
    /\ UNCHANGED <<sFreed, sLink, sVars2, wire>>

S2LoadCa == SCall("ca", "cert") /\ UNCHANGED <<sRest2, sOpt, sIdle, wire>>

\* The built-in certificates are loaded unless one of the files is "none".
S2LoadCert ==
    /\ IF \E f \in {"crt_file", "key_file", "crt_file2", "key_file2"} : sOpt[f] = "none"
       THEN SGoto("cert", "bind", sRet) ELSE SCall("cert", "bind")
    /\ UNCHANGED <<sRest2, sOpt, sIdle, wire>>

\* mbedtls_net_bind accepts TCP without an address only.
S2Bind ==
    /\ IF sOpt.transport = 1 \/ sOpt.server_addr # ""
       THEN SGoto("bind", "exit", -1) /\ UNCHANGED wire
       ELSE SNetBind("bind", "config")
    /\ UNCHANGED <<sRest2, sOpt, sIdle>>

SConf(o) ==
    Configured(o, IF o.version_suites = <<>> THEN AllSuites(o)
                  ELSE [v \in 0..3 |-> {o.version_suites[v + 1]}], FALSE)

S2Config == SCall("config", "setup") /\ UNCHANGED <<sRest2, sOpt, sIdle, wire>>

\* mbedtls_ssl_setup and the I/O functions for the mode nbio.
S2Setup == SCall("setup", "reset") /\ UNCHANGED <<sRest2, sOpt, sIdle, wire>>

S2Reset == SReset /\ UNCHANGED <<sRest, sVars2>>

\* The set_block or set_nonblock that follows fails only for a context without a
\* socket (net_sockets.cpp:100-126), and accept has just put one there.
S2Accept == SNetAccept("accept", "handshake") /\ UNCHANGED <<sRest, sVars2>>
------------------------------------------------------------------------------
(* With nbio=2 every receive and send is refused once before it is tried.  *)

SSends == \E p \in Script : p[1] = "s" /\ p[2] = ssl["s"] /\ p[3] = "!"
SDirection == IF sPc = "read" \/ (sPc = "handshake" /\ ~SSends) THEN "recv" ELSE "send"

\* my_recv() and my_send() return WANT_READ or WANT_WRITE and the caller loops.
S2Want ==
    /\ sPc \in {"handshake", "read", "renegotiate", "write", "close_notify"}
    /\ sOpt.nbio = 2 /\ sTry[SDirection]
    /\ sTry' = [sTry EXCEPT ![SDirection] = FALSE]
    /\ UNCHANGED <<sVars1, sArgv, sOpt, sPsk, sLeft, sWritten, wire>>

\* The call is really made, and the next one is a new operation.
SDoes(d) ==
    /\ sOpt.nbio = 2 => ~sTry[d]
    /\ sTry' = [sTry EXCEPT ![d] = TRUE]

\* Only the blocking functions have a timeout.
STimedOut == sOpt.nbio = 0 /\ sOpt.read_timeout # 0 /\ SslTimeout(sLink, "s")
------------------------------------------------------------------------------
\* A handshake that fails is the end of this client only.  Without exchanges the
\* connection is closed right after it.
S2Handshake ==
    /\ sPc = "handshake"
    /\ \/ \E result \in {"more", "ok", "error"} :
            /\ SslHandshake(sLink, "s", SConf(sOpt), FALSE, result)
            /\ SGoto("handshake", CASE result = "more" -> "handshake"
                                    [] result = "error" -> "reset"
                                    [] OTHER -> IF sOpt.exchanges = 0 THEN "close_notify" ELSE "read",
                     IF result = "error" THEN -1 ELSE 0)
            /\ sLeft' = IF result = "ok" THEN sOpt.exchanges ELSE sLeft
       \/ /\ STimedOut /\ ~SSends
          /\ SGoto("handshake", "reset", -1) /\ UNCHANGED <<sLeft, ssl, hello, refused>>
    /\ SDoes(SDirection)
    /\ UNCHANGED <<sRest2, sOpt, sWritten, backlog, listening, breaks>>

\* Where the server goes on after an error, and after a record that does not end
\* the request.  A record longer than the buffer needs a larger buffer, without
\* memory for it the client is dropped.
SReadAt(errorTo, unfinishedTo) ==
    /\ sPc = "read" /\ SDoes("recv")
    /\ \/ SslRead(sLink, "s", Rec("close", 0)) /\ SGoto("read", "close_notify", -1)
       \/ /\ SslRead(sLink, "s", Rec("eof", 0)) \/ SslRead(sLink, "s", Rec("error", 0)) \/ STimedOut
          /\ SGoto("read", errorTo, -1)
       \/ /\ Arrived(sLink, "s") # <<>> /\ SslRead(sLink, "s", Head(Arrived(sLink, "s")))
          /\ Head(Arrived(sLink, "s")).t = "data"
          /\ \/ SGoto("read", IF Head(Arrived(sLink, "s")).nl THEN "renegotiate" ELSE unfinishedTo, 0)
             \/ Head(Arrived(sLink, "s")).n > IoBufLen - 1 /\ SGoto("read", "reset", 1)
       \/ SslReadControl(sLink, "s", SConf(sOpt).renegotiation) /\ UNCHANGED <<sPc, sRet>>
    /\ UNCHANGED <<sRest2, sOpt, sLeft, sWritten, sIo>>

\* Variants with a mistake: an error ends the server, every record is a request.
S2ReadGivesUp == SReadAt("exit", "read")
S2ReadEarly == SReadAt("reset", "renegotiate")

\* The request is complete when a record ends with a newline.
S2Read == SReadAt("reset", "read")

\* On the first exchange the server asks the client to renegotiate, while the
\* client waits for the response.
S2Renegotiate ==
    /\ sPc = "renegotiate"
    /\ IF sOpt.renegotiate = 1 /\ sLeft = sOpt.exchanges
       THEN /\ SDoes("send")
            /\ \E result \in {"ok", "error"} :
                /\ SslWrite(sLink, "s", Rec("hreq", 0), result)
                /\ SGoto("renegotiate", IF result = "ok" THEN "write" ELSE "reset",
                         IF result = "ok" THEN 0 ELSE -1)
       ELSE SGoto("renegotiate", "write", sRet) /\ UNCHANGED <<sTry, links>>
    /\ UNCHANGED <<sRest2, sOpt, sLeft, sWritten, sIo>>

\* One mbedtls_ssl_write of the loop, which takes what fits into a record.
S2Write ==
    LET n == Min({ResponseLen - sWritten, MaxContent})
        last == sWritten + n = ResponseLen
    IN  /\ sPc = "write" /\ SDoes("send")
        /\ \/ /\ SslWrite(sLink, "s", Data(n, last), "ok")
              /\ sWritten' = IF last THEN 0 ELSE sWritten + n
              /\ sLeft' = IF last THEN sLeft - 1 ELSE sLeft
              /\ SGoto("write", IF ~last THEN "write" ELSE IF sLeft' > 0 THEN "read" ELSE "close_notify", 0)
           \/ /\ SslWrite(sLink, "s", Data(n, last), "error")
              /\ SGoto("write", "reset", -1) /\ sWritten' = 0 /\ UNCHANGED sLeft
        /\ UNCHANGED <<sRest2, sOpt, sIo>>

S2Close ==
    /\ SGoto("close_notify", "reset", 0) /\ SDoes("send")
    /\ \E result \in {"ok", "error"} : SslWrite(sLink, "s", Rec("close", 0), result)
    /\ UNCHANGED <<sRest2, sOpt, sLeft, sWritten, sIo>>

\* exit frees every context, entropy included; an error code becomes 1.
S2Exit ==
    /\ SGoto("exit", "done", IF sRet < 0 THEN 1 ELSE sRet)
    /\ SNetFree /\ sFreed' = SContexts2 \cup {"entropy"} /\ sPsk' = {}
    /\ UNCHANGED <<sReady, sArgv, sOpt, sIdle>>

Server2 ==
    \/ S2Begin \/ S2Options \/ S2ForceSuite \/ S2VersionSuites \/ S2Psk \/ S2Curves \/ S2Seed
    \/ S2LoadCa \/ S2LoadCert \/ S2Bind \/ S2Config \/ S2Setup \/ S2Reset \/ S2Accept \/ S2Want
    \/ S2Handshake \/ S2Read \/ S2Renegotiate \/ S2Write \/ S2Close \/ S2Exit
==============================================================================
