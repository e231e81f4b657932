--------------------------- MODULE MCTlsExchange -----------------------------
(***************************************************************************)
(* TLC instance of TlsExchange.  Lengths are scaled: a record takes 8      *)
(* bytes, or 4 with max_frag_len, the server's buffer 7.  A plain request  *)
(* has 7 bytes with newlines at 2, 5 and 7, and a response 3.              *)
(***************************************************************************)
EXTENDS TlsExchange, TLC

MCSuites ==
    [modern |-> [min |-> 3, max |-> 3, rc4 |-> FALSE],
     legacy |-> [min |-> 0, max |-> 2, rc4 |-> FALSE],
     anyver |-> [min |-> 0, max |-> 3, rc4 |-> FALSE],
     stream |-> [min |-> 0, max |-> 3, rc4 |-> TRUE]]

CArgs(a) == [client |-> "ssl_client2", cArgv |-> a]
SArgs(a) == [server |-> "ssl_server2", sArgv |-> a]
Pair(c, s) == c @@ s

Name == <<"program">>
Plain == <<Name>>
Client1Run == [client |-> "ssl_client1", cArgv |-> <<Name>>]
Server1Run == [server |-> "ssl_server", sArgv |-> <<Name>>]

\* Both programs talk.
Talking == {
    Pair(Client1Run, Server1Run),
    Pair(Client1Run, SArgs(Plain)),
    Pair(Client1Run, SArgs(<<Name, <<"exchanges", 0>>>>)),
    Pair(Client1Run, SArgs(<<Name, <<"renegotiate", 1>>>>)),
    Pair(CArgs(<<Name, <<"reconnect", 1>>, <<"read_timeout", 5>>>>), Server1Run),
    Pair(CArgs(<<Name, <<"exchanges", 2>>>>), SArgs(Plain)),
    Pair(CArgs(<<Name, <<"renegotiation", 1>>, <<"renegotiate", 1>>, <<"read_timeout", 5>>>>), Server1Run),
    Pair(CArgs(<<Name, <<"exchanges", 2>>, <<"request_size", 11>>>>),
         SArgs(<<Name, <<"exchanges", 2>>, <<"renegotiate", 1>>>>)),
    Pair(CArgs(<<Name, <<"exchanges", 2>>, <<"request_size", 6>>, <<"max_frag_len", 4>>>>), SArgs(Plain)),
    Pair(CArgs(<<Name, <<"exchanges", 2>>, <<"request_size", 10>>>>),
         SArgs(<<Name, <<"exchanges", 2>>, <<"renegotiate", 1>>>>)),
    Pair(CArgs(<<Name, <<"request_size", 0>>>>), SArgs(Plain)),
    Pair(CArgs(<<Name, <<"request_size", 0>>, <<"read_timeout", 5>>>>), SArgs(<<Name, <<"nbio", 1>>>>)),
    Pair(CArgs(<<Name, <<"nbio", 2>>, <<"reconnect", 1>>, <<"auth_mode", "none">>>>),
         SArgs(<<Name, <<"nbio", 2>>, <<"auth_mode", "required">>>>)),
    Pair(CArgs(<<Name, <<"renegotiation", 1>>, <<"renegotiate", 1>>, <<"exchanges", 2>>>>),
         SArgs(<<Name, <<"renegotiation", 1>>, <<"renegotiate", 1>>, <<"exchanges", 2>>>>)),
    Pair(CArgs(<<Name, <<"reconnect_hard", 1>>, <<"exchanges", 2>>, <<"read_timeout", 5>>>>),
         SArgs(<<Name, <<"exchanges", 3>>, <<"read_timeout", 5>>, <<"crt_file", "none">>>>))}

\* One side or both restrict versions or ciphersuites.
Negotiating == {
    Pair(CArgs(<<Name, <<"force_ciphersuite", "legacy">>>>), SArgs(Plain)),
    Pair(CArgs(<<Name, <<"force_ciphersuite", "stream">>>>), SArgs(<<Name, <<"arc4", 1>>>>)),
    Pair(CArgs(<<Name, <<"force_ciphersuite", "modern">>>>), SArgs(<<Name, <<"max_version", "tls1_1">>>>)),
    Pair(CArgs(<<Name, <<"min_version", "tls1_1">>>>), SArgs(<<Name, <<"force_ciphersuite", "legacy">>>>)),
    Pair(CArgs(Plain), SArgs(<<Name, <<"force_version", "tls1_2">>, <<"force_ciphersuite", "legacy">>>>)),
    Pair(CArgs(<<Name, <<"max_version", "tls1">>>>), SArgs(<<Name, <<"min_version", "tls1_2">>>>)),
    Pair(CArgs(Plain), SArgs(<<Name, <<"version_suites", <<"legacy", "legacy", "legacy", "modern">>>>>>))}

\* Arguments that end one of the programs early.
Refused == {
    Pair(CArgs(<<>>), SArgs(<<>>)),
    Pair(CArgs(<<Name, <<"help">>>>), SArgs(<<Name, <<"tickets", 2>>>>)),
    Pair(CArgs(<<Name, <<"force_ciphersuite", "unknown">>>>), SArgs(<<Name, <<"version_suites", <<"modern">>>>>>)),
    Pair(CArgs(<<Name, <<"psk", [len |-> 3, hex |-> TRUE]>>>>),
         SArgs(<<Name, <<"psk", [len |-> 6, hex |-> TRUE]>>>>)),
    Pair(CArgs(<<Name, <<"curves", <<"p256", "p384", "p256">>>>>>),
         SArgs(<<Name, <<"curves", <<"p999">>>>>>)),
    Pair(CArgs(<<Name, <<"dtls", 1>>>>), SArgs(<<Name, <<"dtls", 1>>>>)),
    Pair(CArgs(Plain), SArgs(<<Name, <<"server_addr", "localhost">>>>)),
    Pair(CArgs(Plain),
         SArgs(<<Name, <<"psk_list", <<[len |-> 1, hex |-> FALSE], [len |-> 2, hex |-> TRUE]>>>>>>)),
    Pair(CArgs(Plain), SArgs(<<Name, <<"psk_list", <<[len |-> 1, hex |-> FALSE]>>>>>>)),
    Pair(CArgs(Plain),
         SArgs(<<Name, <<"version_suites", <<"modern", "modern", "modern", "unknown">>>>>>))}

MCScenarios == Talking \cup Negotiating \cup Refused
MCCurves == {"p256", "p384"}
==============================================================================
