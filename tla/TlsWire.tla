------------------------------- MODULE TlsWire -------------------------------
(***************************************************************************)
(* What is between the TLS sample programs (samples/mbedtls): the TCP      *)
(* connections and the calls of mbed TLS.  The library is a submodule that *)
(* is not part of the repository, it is modelled from how the programs use *)
(* the results of its calls.  A connection has an end on side "c" (client) *)
(* and "s" (server) and carries records in both directions.  It can break  *)
(* at any time, which loses what is under way.                             *)
(***************************************************************************)
EXTENDS Integers, Sequences, FiniteSetsExt

CONSTANTS
    Suites,      \* ciphersuites: [name -> [min, max : minor versions, rc4 : BOOLEAN]]
    MaxContent,  \* MBEDTLS_SSL_MAX_CONTENT_LEN
    MaxLinks,    \* bound: number of connections
    MaxBreaks    \* bound: number of connections that break

ASSUME WireAssumption ==
    /\ MaxContent \in Nat \ {0} /\ MaxLinks \in Nat /\ MaxBreaks \in Nat
    /\ \A s \in DOMAIN Suites :
        Suites[s].min \in 0..3 /\ Suites[s].max \in 0..3 /\ Suites[s].min <= Suites[s].max

VARIABLES
    links,      \* the connections in the order of their connect()
    backlog,    \* connections the server has not accepted yet
    listening,  \* the server's listening socket is open
    ssl,        \* state of the ssl context of each side
    hello,      \* what the last ClientHello offers
    refused,    \* why the server refused the last ClientHello
    breaks      \* number of connections that broke

wire == <<links, backlog, listening, ssl, hello, refused, breaks>>

Peer(x) == IF x = "c" THEN "s" ELSE "c"

\* A record: its kind, the number of bytes (or the version) it carries, and
\* whether its last byte is a newline.
Rec(t, n) == [t |-> t, n |-> n, nl |-> FALSE]
Data(n, nl) == [t |-> "data", n |-> n, nl |-> nl]

NoQueues == [c |-> <<>>, s |-> <<>>]
NewLink == [sent |-> NoQueues, open |-> {"c", "s"}, up |-> TRUE]
DeadLink == [sent |-> NoQueues, open |-> {}, up |-> FALSE]

WireInit ==
    /\ links = <<>> /\ backlog = <<>> /\ listening = FALSE
    /\ ssl = [c |-> "start", s |-> "start"]
    /\ hello = [min |-> 0, max |-> 0, suites |-> <<>>, resume |-> FALSE]
    /\ refused = "no" /\ breaks = 0

Arrived(l, x) == links[l].sent[Peer(x)]
Gone(l, x) == ~links[l].up \/ Peer(x) \notin links[l].open

\* A record for an end that is gone is lost.
Put(k, x, r) == IF k.up /\ Peer(x) \in k.open THEN [k EXCEPT !.sent[x] = Append(@, r)] ELSE k
Pop(k, x) == [k EXCEPT !.sent[Peer(x)] = Tail(@)]
Shut(k, x) == IF k.open \subseteq {x} THEN DeadLink
              ELSE [k EXCEPT !.open = @ \ {x}, !.sent[Peer(x)] = <<>>]

\* The network drops the connection: both ends see end of file and fail to send.
Break ==
    /\ breaks < MaxBreaks
    /\ \E l \in DOMAIN links :
        /\ links[l].up
        /\ links' = [links EXCEPT ![l].up = FALSE, ![l].sent = NoQueues]
    /\ breaks' = breaks + 1
    /\ UNCHANGED <<backlog, listening, ssl, hello, refused>>
------------------------------------------------------------------------------
(* mbedtls_ssl_write, _read and _close_notify on connection l.             *)

\* Sending to an end that is gone may fail or not be noticed.
SslWrite(l, x, r, result) ==
    \/ result = "ok" /\ links[l].up /\ links' = [links EXCEPT ![l] = Put(@, x, r)]
    \/ result = "error" /\ Gone(l, x) /\ UNCHANGED links

\* The record that is read, or "eof" (the call returns 0), or "error".
SslRead(l, x, result) ==
    \/ /\ Arrived(l, x) # <<>> /\ Head(Arrived(l, x)).t \notin {"hreq", "rehello", "redone", "norenego"}
       /\ result = IF Head(Arrived(l, x)).t \in {"data", "close"}
                   THEN Head(Arrived(l, x)) ELSE Rec("error", 0)
       /\ links' = [links EXCEPT ![l] = Pop(@, x)]
    \/ /\ Arrived(l, x) = <<>> /\ Gone(l, x)
       /\ result = Rec("eof", 0) /\ UNCHANGED links

\* Nothing arrives before the read timeout (only the blocking functions have one).
SslTimeout(l, x) == Arrived(l, x) = <<>> /\ ~Gone(l, x) /\ UNCHANGED links

\* What mbedtls_ssl_read answers by itself: the other side's wish to renegotiate.
SslReadControl(l, x, renegotiation) ==
    LET q == Arrived(l, x)
        answer == CASE Head(q).t = "rehello" -> IF renegotiation THEN <<"redone">> ELSE <<"norenego">>
                    [] Head(q).t = "hreq" -> IF renegotiation THEN <<"rehello">> ELSE <<"norenego">>
                    [] OTHER -> <<>>
    IN  /\ q # <<>> /\ Head(q).t \in {"hreq", "rehello", "redone", "norenego"}
        /\ links' = [links EXCEPT ![l] =
                        IF answer = <<>> THEN Pop(@, x) ELSE Put(Pop(@, x), x, Rec(answer[1], 0))]

\* mbedtls_ssl_renegotiate of a client waits for the answer.
SslRenegotiated(l, result) ==
    \/ /\ Arrived(l, "c") # <<>>
       /\ result = IF Head(Arrived(l, "c")).t = "redone" THEN "ok" ELSE "error"
       /\ links' = [links EXCEPT ![l] = Pop(@, "c")]
    \/ Arrived(l, "c") = <<>> /\ Gone(l, "c") /\ result = "error" /\ UNCHANGED links
------------------------------------------------------------------------------
(* mbedtls_ssl_handshake: every side sends (!) and receives (?) its        *)
(* records in turn; a resumed session takes one record less.               *)

Script == {
    <<"c", "start",  "!", "hello",    "sent">>,   <<"s", "start", "?", "hello",    "reply">>,
    <<"c", "sent",   "?", "flight",   "finish">>, <<"s", "start", "?", "hello",    "resume">>,
    <<"c", "finish", "!", "finish",   "wait">>,   <<"s", "reply", "!", "flight",   "wait">>,
    <<"c", "wait",   "?", "finished", "over">>,   <<"s", "wait",  "?", "finish",   "last">>,
    <<"c", "sent",   "?", "short",    "agree">>,  <<"s", "last",  "!", "finished", "over">>,
    <<"c", "agree",  "!", "finish",   "over">>,   <<"s", "resume", "!", "short",   "settle">>,
    <<"s", "settle", "?", "finish",   "over">>}

\* What a side can use with minor version v: conf.suites gives the list for each version.
Usable(conf, v) ==
    {s \in conf.suites[v] : v \in Suites[s].min..Suites[s].max /\ (Suites[s].rc4 => conf.arc4)}

Version(conf) == Min({hello.max, conf.max})

\* Why a server with this configuration refuses the ClientHello.
Refusal(conf) ==
    IF Version(conf) < conf.min THEN "version"
    ELSE IF hello.suites[Version(conf)] \cap Usable(conf, Version(conf)) = {} THEN "suite"
    ELSE "no"

Offer(conf, resume) ==
    [min |-> conf.min, max |-> conf.max, suites |-> [v \in 0..3 |-> Usable(conf, v)], resume |-> resume]

\* The record p of the script is acceptable to side x.
Acceptable(x, p, conf, n) ==
    IF x = "s" /\ p[4] = "hello" THEN Refusal(conf) = "no" /\ (p[5] = "resume" => hello.resume)
    ELSE p[4] \in {"flight", "short"} => n >= conf.min

\* Where a side sees the certificate of the other one, which it may reject.
CertSeen == {<<"c", "sent">>, <<"s", "wait">>}

\* One record of the handshake; result "more" while it is not over.  A peer whose
\* record is not accepted gets a fatal alert.
SslHandshake(l, x, conf, resume, result) ==
    LET q == Arrived(l, x)
        mine == {p \in Script : p[1] = x /\ p[2] = ssl[x]}
        good == {p \in mine : q # <<>> /\ p[3] = "?" /\ p[4] = Head(q).t /\ Acceptable(x, p, conf, Head(q).n)}
        Done(p) == /\ ssl' = [ssl EXCEPT ![x] = p[5]]
                   /\ result = IF p[5] = "over" THEN "ok" ELSE "more"
        Receives == \A p \in mine : p[3] = "?"
        Refuses == /\ refused' = IF x = "s" /\ ssl[x] = "start" /\ q # <<>> /\ Head(q).t = "hello"
                                 THEN Refusal(conf) ELSE refused
                   /\ result = "error" /\ UNCHANGED <<ssl, hello>>
    IN  \/ \E p \in mine :
            /\ p[3] = "!" /\ links[l].up
            /\ links' = [links EXCEPT ![l] = Put(@, x, Rec(p[4], IF x = "s" THEN Version(conf) ELSE 0))]
            /\ hello' = IF p[4] = "hello" THEN Offer(conf, resume) ELSE hello
            /\ Done(p) /\ UNCHANGED refused
        \/ \E p \in good :
            links' = [links EXCEPT ![l] = Pop(@, x)] /\ Done(p) /\ UNCHANGED <<hello, refused>>
        \/ /\ Receives /\ q # <<>> /\ (good = {} \/ (conf.verify /\ <<x, ssl[x]>> \in CertSeen))
           /\ links' = [links EXCEPT ![l] = Put(Pop(@, x), x, Rec("fatal", 0))]
           /\ Refuses
        \/ /\ IF Receives THEN q = <<>> /\ Gone(l, x) ELSE Gone(l, x)
           /\ UNCHANGED links /\ Refuses
==============================================================================
