-------------------------- MODULE TlsExchange_proofs ---------------------------
(***************************************************************************)
(* Proofs about TlsExchange for every set of scenarios, that is for every  *)
(* pair of sample programs with any arguments, every number of connections *)
(* and breaks and all lengths of requests, responses and records: requests *)
(* and responses alternate and a renegotiation meets a peer that reads if  *)
(* no record before the last one of a request ends with a newline, and a   *)
(* forced ciphersuite is common.                                           *)
(***************************************************************************)
EXTENDS TlsExchange, SequenceTheorems, TLAPS

\* Records and connections.
Side == {"c", "s"}
Kinds == {"hello", "flight", "short", "finish", "finished", "fatal", "data", "close",
          "hreq", "rehello", "redone", "norenego"}
Record == [t : Kinds, n : Int, nl : BOOLEAN]
Link == [sent : [c : Seq(Record), s : Seq(Record)], open : SUBSET Side, up : BOOLEAN]

\* What the proofs ask of the records under way.
Has(q, T) == \E i \in DOMAIN q : q[i].t \in T
Ends(q) == \E i \in DOMAIN q : q[i].t = "data" /\ q[i].nl
EndLast(q) ==
    \A i, j \in DOMAIN q : i < j /\ q[i].t = "data" /\ q[i].nl => q[j].t \notin {"data", "hreq"}
CloseLast(q) == \A i, j \in DOMAIN q : i < j => q[i].t # "close"
Only(q, t) == Len(q) = 1 /\ q[1].t = t

Waiting(l) == \E i \in DOMAIN backlog : backlog[i] = l
Held(l) == l = sLink \/ Waiting(l)
------------------------------------------------------------------------------
(* The connections and their ends.                                         *)

WireOK ==
    /\ links \in Seq(Link)
    /\ cLink \in 0..Len(links) /\ sLink \in 0..Len(links)
    /\ backlog \in Seq(1..Len(links))
    /\ \A i, j \in DOMAIN backlog : i < j => backlog[i] < backlog[j]
    /\ DOMAIN ssl = Side

EndsOK ==
    /\ \A l \in DOMAIN links :
        ~links[l].up => links[l].sent["c"] = <<>> /\ links[l].sent["s"] = <<>>
    /\ cLink # 0 => "c" \in links[cLink].open
    /\ \A l \in DOMAIN links : Held(l) => "s" \in links[l].open
    /\ ~Waiting(sLink)

CUnlinked == {"begin", "options", "suite", "psk", "curves", "seed", "ca", "cert", "connect",
              "reconnect_connect"}
SUnlinked == {"begin", "options", "suite", "version_suites", "psk", "curves", "seed", "ca", "cert",
              "bind", "config", "setup", "accept", "done"}
SLinked == {"handshake", "read", "renegotiate", "write", "close_notify"}

CPcOK ==
    /\ cPc \notin CUnlinked \cup {"exit", "done"} => cLink # 0
    /\ cPc \in CUnlinked \cup {"config", "setup"} => ssl["c"] = "start"

SPcOK ==
    /\ sPc \in SUnlinked => sLink = 0
    /\ sPc \in SLinked => sLink # 0
    /\ sPc = "accept" => ssl["s"] = "start"
    /\ sProg = "ssl_server2" /\ sPc = "exit" => sLink = 0
    /\ sProg = "ssl_server" => sPc # "renegotiate"
    /\ sPc \in {"read", "renegotiate", "write"} => ssl["s"] = "over"

WireInv == WireOK /\ EndsOK /\ CPcOK /\ SPcOK
------------------------------------------------------------------------------
(* Requests and responses.                                                 *)

In == links[cLink].sent["s"]
Out == links[cLink].sent["c"]

\* The server works on a request of the client.
Busy == sLink = cLink /\ sPc \in {"renegotiate", "write"}

\* The server is through with the client's connection, up to the sections in P.
Served(P) == ~Waiting(cLink) /\ (sLink = cLink => sPc \in P)
Parting == {"close_notify", "reset"}
Closing == {"close_notify", "reset", "exit"}

CloseInv == Has(In, {"close"}) => CloseLast(In) /\ Served({"reset", "exit"})

\* The sections of ssl_client2 in which no request is under way.
Idle == {"config", "setup", "handshake", "session", "renegotiate", "renegotiating", "send",
         "hard", "again", "hard_handshake", "reconnect_handshake"}

WrittenInv ==
    \/ cWritten = 0
    \/ /\ cProg = "ssl_client2" /\ cPc \in {"send", "exit", "done"}
       /\ cWritten \in 1..(RequestLen - 1) /\ cWritten \in RecordEnds

\* ssl_client2 with ssl_server2.
Lock22 ==
    /\ cPc \in Idle /\ cWritten = 0 => ~Has(In, {"data", "hreq"}) /\ ~Has(Out, {"data"}) /\ ~Busy
    /\ cPc = "send" /\ cWritten # 0 => ~Has(In, {"data", "hreq"}) /\ ~Ends(Out) /\ ~Busy
    /\ cPc = "read" =>
        /\ Ends(Out) => ~Has(In, {"data", "hreq"}) /\ ~Busy /\ EndLast(Out)
        /\ Busy => ~Has(Out, {"data"}) /\ ~Ends(In)
        /\ Ends(In) => ~Has(Out, {"data"}) /\ ~Busy /\ EndLast(In)
    /\ cPc \in {"close", "reconnect"} =>
        /\ ~Has(In, {"hreq"})
        /\ ~links[cLink].up \/ Served(Closing) \/ (~Has(Out, {"data"}) /\ ~Busy)

\* ssl_client1 with ssl_server2.
Lock12 == Has(Out, {"data"}) \/ Busy \/ Has(In, {"hreq"}) => cPc \in {"read", "close", "exit"}

\* Every server that is ssl_server.
Lock1 ==
    /\ ~Has(In, {"hreq"})
    /\ Has(In, {"data"}) => Served(Parting) /\ EndLast(In)

\* The handshake of the client with ssl_server, record by record.
Greeting ==
    /\ Waiting(cLink) \/ (sLink = cLink /\ sPc = "handshake" /\ ssl["s"] = "start")
    /\ In = <<>>
    /\ \/ ssl["c"] = "start" /\ Out = <<>>
       \/ ssl["c"] = "sent" /\ Only(Out, "hello")

Shaking ==
    /\ sLink = cLink /\ sPc = "handshake"
    /\ \/ ssl["s"] \in {"reply", "resume"} /\ ssl["c"] = "sent" /\ In = <<>> /\ Out = <<>>
       \/ ssl["s"] = "wait" /\ ssl["c"] = "sent" /\ Only(In, "flight") /\ Out = <<>>
       \/ ssl["s"] = "wait" /\ ssl["c"] = "finish" /\ In = <<>> /\ Out = <<>>
       \/ ssl["s"] = "wait" /\ ssl["c"] = "wait" /\ In = <<>> /\ Only(Out, "finish")
       \/ ssl["s"] = "last" /\ ssl["c"] = "wait" /\ In = <<>> /\ Out = <<>>
       \/ ssl["s"] = "settle" /\ ssl["c"] = "sent" /\ Only(In, "short") /\ Out = <<>>
       \/ ssl["s"] = "settle" /\ ssl["c"] = "agree" /\ In = <<>> /\ Out = <<>>
       \/ /\ ssl["s"] = "settle" /\ ssl["c"] = "over" /\ Out # <<>> /\ ~Has(In, {"data"})
          /\ \A i \in DOMAIN Out : Out[i].t = IF i = 1 THEN "finish" ELSE "rehello"

Shaken ==
    /\ sLink = cLink /\ sPc = "read"
    /\ \/ ssl["c"] = "wait" /\ Only(In, "finished") /\ Out = <<>>
       \/ /\ ssl["c"] = "over" /\ ~Has(In, {"data"})
          /\ \A i \in DOMAIN Out : Out[i].t = "rehello"

Aligned ==
    /\ cPc \notin {"hard", "again", "hard_handshake"}
    /\ cPc \in {"session", "renegotiate", "renegotiating", "send"} => ssl["c"] = "over"
    /\ Greeting \/ Shaking \/ Shaken

\* ssl_client2 with ssl_server.
Lock21 ==
    cPc \in Idle /\ cWritten = 0 =>
        ~links[cLink].up \/ (Served(Parting) /\ ~Has(In, {"data"})) \/ Aligned

\* What the pair of programs keeps to on the client's connection.
Locked ==
    /\ CloseInv
    /\ sProg = "ssl_server" => Lock1
    /\ sProg = "ssl_server" /\ cProg = "ssl_client2" => Lock21
    /\ sProg = "ssl_server2" /\ cProg = "ssl_client1" => Lock12
    /\ sProg = "ssl_server2" /\ cProg = "ssl_client2" => Lock22

LockInv == cLink # 0 => Locked
------------------------------------------------------------------------------
(* Versions and ciphersuites.                                              *)

Versions == -1..3
SuiteNames == DOMAIN Suites \cup {""}

OptionsOK(o, defaults) ==
    /\ DOMAIN o = DOMAIN defaults
    /\ o["min_version"] \in Versions /\ o["max_version"] \in Versions
    /\ o["force_ciphersuite"] \in SuiteNames

OptInv ==
    /\ OptionsOK(cOpt, CDefaults)
    /\ cOpt.request_size \in Int /\ cOpt.max_frag_len \in 1..MaxContent
    /\ OptionsOK(sOpt, SDefaults) /\ sWritten \in Int
    /\ hello.max \in 0..3

\* The range of versions is within that of the forced ciphersuite.
Narrowed(o) ==
    o.force_ciphersuite # "" =>
        /\ Suites[o.force_ciphersuite].min <= o.max_version
        /\ o.max_version <= Suites[o.force_ciphersuite].max
        /\ Suites[o.force_ciphersuite].rc4 => o.arc4 = 1

Starting == {"begin", "options", "suite"}
Offered ==
    /\ cPc \notin Starting /\ Narrowed(cOpt)
    /\ hello.max = CConf(cOpt).max
    /\ hello.suites = [v \in 0..3 |-> Usable(CConf(cOpt), v)]

NothingCommon ==
    LET v == Min({CConf(cOpt).max, SConf(sOpt).max})
    IN  Usable(CConf(cOpt), v) \cap Usable(SConf(sOpt), v) = {}

SuiteInv ==
    /\ cProg = "ssl_client2" =>
        /\ cPc \notin Starting \cup {"exit", "done"} => Narrowed(cOpt)
        /\ (\E l \in DOMAIN links : Has(links[l].sent["c"], {"hello"})) => Offered
    /\ sProg = "ssl_server2" /\ sPc \notin Starting \cup {"exit", "done"} => Narrowed(sOpt)
    /\ cProg = "ssl_client2" /\ sProg = "ssl_server2" /\ refused = "suite" =>
        /\ cPc \notin Starting /\ sPc \notin Starting
        /\ Narrowed(cOpt) /\ Narrowed(sOpt) /\ NothingCommon

------------------------------------------------------------------------------
(* The programs and where they are while they have a connection.           *)

PlaceInv ==
    /\ cProg \in {"ssl_client1", "ssl_client2"} /\ sProg \in {"ssl_server", "ssl_server2"}
    /\ cProg = "ssl_client2" /\ cLink # 0 => cPc \in Idle \cup {"read", "close", "reconnect", "exit"}
    /\ cProg = "ssl_client1" => cPc # "renegotiating"
    /\ sLink # 0 => sPc \in SLinked \cup {"reset", "exit"}

\* Requests and responses are in step unless a record ends with an early newline.
InStep == NoEarlyNewline => LockInv

IInv == WireInv /\ OptInv /\ WrittenInv /\ InStep /\ SuiteInv /\ PlaceInv
------------------------------------------------------------------------------
(* Queues of records.                                                      *)

\* The smaller one of two numbers.
LEMMA MinOfTwo ==
    ASSUME NEW a \in Int, NEW b \in Int
    PROVE  Min({a, b}) = IF a <= b THEN a ELSE b
  <1>1. \E x \in {a, b} : \A y \in {a, b} : x <= y
    OBVIOUS
  <1>2. Min({a, b}) \in {a, b} /\ \A y \in {a, b} : Min({a, b}) <= y
    BY <1>1, Zenon DEF Min
  <1> QED
    BY <1>2

\* What an appended record changes.
LEMMA AppendQueue ==
    ASSUME NEW q \in Seq(Record), NEW r \in Record
    PROVE  /\ Append(q, r) \in Seq(Record) /\ Append(q, r) # <<>>
           /\ \A T : Has(Append(q, r), T) <=> Has(q, T) \/ r.t \in T
           /\ Ends(Append(q, r)) <=> Ends(q) \/ (r.t = "data" /\ r.nl)
           /\ EndLast(q) /\ (~Ends(q) \/ r.t \notin {"data", "hreq"}) => EndLast(Append(q, r))
           /\ ~Has(q, {"close"}) => CloseLast(Append(q, r))
  <1> DEFINE a == Append(q, r)
  <1>1. /\ a \in Seq(Record) /\ a # <<>> /\ Len(a) = Len(q) + 1
        /\ DOMAIN q = 1..Len(q) /\ DOMAIN a = 1..(Len(q) + 1)
        /\ \A i \in 1..Len(q) : a[i] = q[i]
        /\ a[Len(q) + 1] = r /\ Len(q) \in Nat
    OBVIOUS
  <1> HIDE DEF a
  <1>2. \A T : Has(a, T) <=> Has(q, T) \/ r.t \in T
    BY <1>1 DEF Has
  <1>3. Ends(a) <=> Ends(q) \/ (r.t = "data" /\ r.nl)
    BY <1>1 DEF Ends
  <1>4. EndLast(q) /\ (~Ends(q) \/ r.t \notin {"data", "hreq"}) => EndLast(a)
    BY <1>1 DEF Ends, EndLast
  <1>5. ~Has(q, {"close"}) => CloseLast(a)
    BY <1>1 DEF Has, CloseLast
  <1> QED
    BY <1>1, <1>2, <1>3, <1>4, <1>5 DEF a

\* What is left when the first record is taken.
LEMMA TailQueue ==
    ASSUME NEW q \in Seq(Record), q # <<>>
    PROVE  /\ Tail(q) \in Seq(Record) /\ Head(q) \in Record
           /\ \A T : Has(Tail(q), T) => Has(q, T)
           /\ \A T : Head(q).t \in T => Has(q, T)
           /\ Ends(Tail(q)) => Ends(q)
           /\ Head(q).t = "data" /\ Head(q).nl => Ends(q)
           /\ EndLast(q) => EndLast(Tail(q))
           /\ EndLast(q) /\ Head(q).t = "data" /\ Head(q).nl => ~Has(Tail(q), {"data", "hreq"})
           /\ CloseLast(q) => CloseLast(Tail(q))
           /\ CloseLast(q) /\ Head(q).t = "close" => Tail(q) = <<>>
           /\ \A k : Only(q, k) => Tail(q) = <<>> /\ Head(q).t = k
  <1> DEFINE a == Tail(q)
  <1>1. /\ a \in Seq(Record) /\ Head(q) \in Record /\ Head(q) = q[1] /\ Len(q) \in Nat /\ Len(q) > 0
        /\ DOMAIN q = 1..Len(q) /\ DOMAIN a = 1..(Len(q) - 1) /\ Len(a) = Len(q) - 1
        /\ \A i \in DOMAIN a : i + 1 \in DOMAIN q /\ a[i] = q[i + 1]
        /\ Len(a) = 0 => a = <<>>
    <2>1. Len(q) \in Nat /\ DOMAIN q = 1..Len(q) /\ Len(q) # 0 /\ Head(q) = q[1]
      OBVIOUS
    <2>2. /\ Head(q) \in Record /\ a \in Seq(Record) /\ Len(a) = Len(q) - 1
          /\ \A i \in 1..Len(a) : a[i] = q[i + 1]
      BY HeadTailProperties
    <2>3. DOMAIN a = 1..Len(a) /\ (Len(a) = 0 => a = <<>>)
      BY <2>2
    <2> HIDE DEF a
    <2>4. \A i \in DOMAIN a : i + 1 \in DOMAIN q /\ a[i] = q[i + 1]
      BY <2>1, <2>2, <2>3
    <2> QED
      BY <2>1, <2>2, <2>3, <2>4
  <1> HIDE DEF a
  <1>2. \A T : Has(a, T) => Has(q, T)
    BY <1>1 DEF Has
  <1>3. \A T : Head(q).t \in T => Has(q, T)
    BY <1>1 DEF Has
  <1>4. /\ Ends(a) => Ends(q)
        /\ Head(q).t = "data" /\ Head(q).nl => Ends(q)
    BY <1>1 DEF Ends
  <1>5. EndLast(q) => EndLast(a)
    BY <1>1 DEF EndLast
  <1>6. EndLast(q) /\ Head(q).t = "data" /\ Head(q).nl => ~Has(a, {"data", "hreq"})
    BY <1>1 DEF EndLast, Has
  <1>7. /\ CloseLast(q) => CloseLast(a)
        /\ CloseLast(q) /\ Head(q).t = "close" => a = <<>>
    BY <1>1, SMTT(30) DEF CloseLast
  <1>8. \A k : Only(q, k) => a = <<>> /\ Head(q).t = k
    BY <1>1 DEF Only
  <1> QED
    BY <1>1, <1>2, <1>3, <1>4, <1>5, <1>6, <1>7, <1>8 DEF a

\* Nothing is under way in an empty queue.
LEMMA EmptyQueue ==
    /\ <<>> \in Seq(Record) /\ (\A T : ~Has(<<>>, T)) /\ ~Ends(<<>>)
    /\ EndLast(<<>>) /\ CloseLast(<<>>)
  <1>1. <<>> \in Seq(Record) /\ DOMAIN <<>> = {}
    OBVIOUS
  <1> QED
    BY <1>1 DEF Has, Ends, EndLast, CloseLast

\* A record that ends a request is data.
LEMMA EndsHasData ==
    ASSUME NEW q
    PROVE  /\ Ends(q) => Has(q, {"data"})
           /\ ~Ends(q) => EndLast(q)
           /\ Has(q, {"data"}) => Has(q, {"data", "hreq"})
           /\ Has(q, {"hreq"}) => Has(q, {"data", "hreq"})
           /\ ~Has(q, {"data"}) => EndLast(q)
  BY DEF Ends, Has, EndLast

\* Records have the type of records.
LEMMA RecordTypes ==
    /\ \A t \in Kinds, n \in Int : Rec(t, n) \in Record /\ Rec(t, n).t = t
    /\ \A n \in Int, nl \in BOOLEAN :
        Data(n, nl) \in Record /\ Data(n, nl).t = "data" /\ Data(n, nl).nl = nl
  BY DEF Rec, Data, Record, Kinds

\* The records without contents.
LEMMA PlainRecords ==
    \A t \in {"fatal", "close", "eof", "error", "hreq", "rehello", "redone", "norenego"} :
        Rec(t, 0).t = t /\ (t \notin {"eof", "error"} => Rec(t, 0) \in Record)
  BY DEF Rec, Record, Kinds
------------------------------------------------------------------------------
(* What a step does to the connections.                                    *)

\* Connection l changes and no other one, and what its ends are stays.
Moves(l) ==
    /\ links' \in Seq(Link) /\ Len(links') = Len(links)
    /\ \A m \in 1..Len(links) : m # l => links'[m] = links[m]
    /\ links'[l].open = links[l].open /\ links'[l].up = links[l].up

Fits(l, x) == links[l].up /\ Peer(x) \in links[l].open

\* Side x sends a record, takes the first one, or does both.
Sends(l, x, r) ==
    /\ Moves(l) /\ links'[l].sent[Peer(x)] = links[l].sent[Peer(x)]
    /\ links'[l].sent[x] = IF Fits(l, x) THEN Append(links[l].sent[x], r) ELSE links[l].sent[x]

Takes(l, x) ==
    /\ Moves(l) /\ links'[l].sent[x] = links[l].sent[x]
    /\ Arrived(l, x) # <<>> /\ links'[l].sent[Peer(x)] = Tail(Arrived(l, x))

Swaps(l, x, r) ==
    /\ Moves(l) /\ Arrived(l, x) # <<>> /\ links'[l].sent[Peer(x)] = Tail(Arrived(l, x))
    /\ links'[l].sent[x] = IF Fits(l, x) THEN Append(links[l].sent[x], r) ELSE links[l].sent[x]

\* Side x closes its end, while the other one is open.
Closes(l, x) ==
    /\ links' \in Seq(Link) /\ Len(links') = Len(links)
    /\ \A m \in 1..Len(links) : m # l => links'[m] = links[m]
    /\ links'[l].open = links[l].open \ {x}
    /\ links'[l].sent[Peer(x)] = <<>>
    /\ links'[l].open # {} => links'[l].up = links[l].up /\ links'[l].sent[x] = links[l].sent[x]
    /\ links'[l].open = {} => ~links'[l].up /\ links'[l].sent[x] = <<>>

\* A record that is put into a connection.
LEMMA PutLink ==
    ASSUME NEW k \in Link, NEW x \in Side, NEW r \in Record
    PROVE  LET p == Put(k, x, r)
           IN  /\ p \in Link /\ p.open = k.open /\ p.up = k.up
               /\ p.sent[Peer(x)] = k.sent[Peer(x)]
               /\ p.sent[x] = IF k.up /\ Peer(x) \in k.open THEN Append(k.sent[x], r) ELSE k.sent[x]
  <1>1. k.sent["c"] \in Seq(Record) /\ k.sent["s"] \in Seq(Record)
    BY DEF Link
  <1>2. Append(k.sent["c"], r) \in Seq(Record) /\ Append(k.sent["s"], r) \in Seq(Record)
    BY <1>1, AppendQueue, Zenon
  <1>3. CASE x = "c"
    BY <1>1, <1>2, <1>3 DEF Put, Peer, Link
  <1>4. CASE x = "s"
    BY <1>1, <1>2, <1>4 DEF Put, Peer, Link
  <1> QED
    BY <1>3, <1>4 DEF Side

\* The first record that is taken from a connection.
LEMMA PopLink ==
    ASSUME NEW k \in Link, NEW x \in Side, k.sent[Peer(x)] # <<>>
    PROVE  LET p == Pop(k, x)
           IN  /\ p \in Link /\ p.open = k.open /\ p.up = k.up
               /\ p.sent[x] = k.sent[x] /\ p.sent[Peer(x)] = Tail(k.sent[Peer(x)])
  <1>1. k.sent["c"] \in Seq(Record) /\ k.sent["s"] \in Seq(Record)
    BY DEF Link
  <1>2. CASE x = "c"
    <2>1. Tail(k.sent["s"]) \in Seq(Record)
      BY <1>1, <1>2, TailQueue, Zenon DEF Peer
    <2> QED
      BY <1>1, <1>2, <2>1 DEF Pop, Peer, Link
  <1>3. CASE x = "s"
    <2>1. Tail(k.sent["c"]) \in Seq(Record)
      BY <1>1, <1>3, TailQueue DEF Peer
    <2> QED
      BY <1>1, <1>3, <2>1 DEF Pop, Peer, Link
  <1> QED
    BY <1>2, <1>3 DEF Side

\* An end of a connection that is closed.
LEMMA ShutLink ==
    ASSUME NEW k \in Link, NEW x \in Side
    PROVE  LET p == Shut(k, x)
           IN  /\ p \in Link /\ p.open = k.open \ {x} /\ p.sent[Peer(x)] = <<>>
               /\ p.open # {} => p.up = k.up /\ p.sent[x] = k.sent[x]
               /\ p.open = {} => ~p.up /\ p.sent[x] = <<>>
  <1>1. k.sent["c"] \in Seq(Record) /\ k.sent["s"] \in Seq(Record) /\ <<>> \in Seq(Record)
    BY DEF Link
  <1>2. CASE x = "c"
    BY <1>1, <1>2 DEF Shut, DeadLink, NoQueues, Peer, Link, Side
  <1>3. CASE x = "s"
    BY <1>1, <1>3 DEF Shut, DeadLink, NoQueues, Peer, Link, Side
  <1> QED
    BY <1>2, <1>3 DEF Side

\* The three calls change one connection.
LEMMA LinkSteps ==
    ASSUME links \in Seq(Link), NEW l \in 1..Len(links), NEW x \in Side
    PROVE  /\ \A r \in Record : links' = [links EXCEPT ![l] = Put(@, x, r)] => Sends(l, x, r)
           /\ Arrived(l, x) # <<>> =>
                /\ links' = [links EXCEPT ![l] = Pop(@, x)] => Takes(l, x)
                /\ \A r \in Record :
                    links' = [links EXCEPT ![l] = Put(Pop(@, x), x, r)] => Swaps(l, x, r)
           /\ links' = [links EXCEPT ![l] = Shut(@, x)] => Closes(l, x)
  <1>0. links[l] \in Link /\ DOMAIN links = 1..Len(links) /\ Len(links) \in Nat
    OBVIOUS
  <1>1. ASSUME NEW k \in Link, links' = [links EXCEPT ![l] = k]
        PROVE  /\ links' \in Seq(Link) /\ Len(links') = Len(links) /\ links'[l] = k
               /\ \A m \in 1..Len(links) : m # l => links'[m] = links[m]
    BY <1>0, <1>1, ExceptSeq
  <1>2. ASSUME NEW r \in Record, links' = [links EXCEPT ![l] = Put(@, x, r)] PROVE Sends(l, x, r)
    <2>1. Put(links[l], x, r) \in Link
      BY <1>0, PutLink
    <2>2. links' = [links EXCEPT ![l] = Put(links[l], x, r)]
      BY <1>0, <1>2, Zenon
    <2> QED
      BY <1>0, <1>1, <2>1, <2>2, PutLink DEF Sends, Moves, Fits
  <1>3. ASSUME Arrived(l, x) # <<>>, links' = [links EXCEPT ![l] = Pop(@, x)] PROVE Takes(l, x)
    <2>1. links[l].sent[Peer(x)] # <<>>
      BY <1>3 DEF Arrived
    <2>2. Pop(links[l], x) \in Link
      BY <1>0, <2>1, PopLink
    <2>3. links' = [links EXCEPT ![l] = Pop(links[l], x)]
      BY <1>0, <1>3, Zenon
    <2> QED
      BY <1>0, <1>1, <2>1, <2>2, <2>3, PopLink DEF Takes, Moves, Arrived
  <1>4. ASSUME Arrived(l, x) # <<>>, NEW r \in Record,
               links' = [links EXCEPT ![l] = Put(Pop(@, x), x, r)]
        PROVE  Swaps(l, x, r)
    <2>1. links[l].sent[Peer(x)] # <<>>
      BY <1>4 DEF Arrived
    <2> DEFINE k == Pop(links[l], x)
    <2>2. /\ k \in Link /\ k.open = links[l].open /\ k.up = links[l].up
          /\ k.sent[x] = links[l].sent[x] /\ k.sent[Peer(x)] = Tail(links[l].sent[Peer(x)])
      BY <1>0, <2>1, PopLink
    <2>3. links' = [links EXCEPT ![l] = Put(k, x, r)]
      BY <1>0, <1>4, Zenon
    <2> HIDE DEF k
    <2>4. Put(k, x, r) \in Link
      BY <2>2, PutLink
    <2> QED
      BY <1>0, <1>1, <2>1, <2>2, <2>3, <2>4, PutLink DEF Swaps, Moves, Arrived, Fits
  <1>5. ASSUME links' = [links EXCEPT ![l] = Shut(@, x)] PROVE Closes(l, x)
    <2>1. Shut(links[l], x) \in Link
      BY <1>0, ShutLink
    <2>2. links' = [links EXCEPT ![l] = Shut(links[l], x)]
      BY <1>0, <1>5, Zenon
    <2> QED
      BY <1>0, <1>1, <2>1, <2>2, ShutLink DEF Closes
  <1> QED
    BY <1>2, <1>3, <1>4, <1>5
------------------------------------------------------------------------------
(* The calls of the library.                                               *)

\* A record of the script is sent or taken.
Follows(p, l, x, conf, resume, result) ==
    /\ p[1] = x /\ p[2] = ssl[x] /\ ssl'[x] = p[5] /\ refused' = refused
    /\ result = IF p[5] = "over" THEN "ok" ELSE "more"
    /\ \/ /\ p[3] = "!" /\ links[l].up /\ \E n \in Int : Sends(l, x, Rec(p[4], n))
          /\ hello' = IF p[4] = "hello" THEN Offer(conf, resume) ELSE hello
       \/ /\ p[3] = "?" /\ Takes(l, x) /\ Head(Arrived(l, x)).t = p[4]
          /\ hello' = hello

\* The handshake fails.
Fails(l, x, conf, result) ==
    /\ result = "error" /\ ssl' = ssl /\ hello' = hello
    /\ UNCHANGED links \/ Swaps(l, x, Rec("fatal", 0))
    /\ refused' = IF /\ x = "s" /\ ssl[x] = "start" /\ Arrived(l, x) # <<>>
                     /\ Head(Arrived(l, x)).t = "hello"
                  THEN Refusal(conf) ELSE refused

\* mbedtls_ssl_write sends its record or fails.
LEMMA WriteStep ==
    ASSUME links \in Seq(Link), NEW l \in 1..Len(links), NEW x \in Side, NEW r \in Record,
           NEW result, SslWrite(l, x, r, result)
    PROVE  \/ result = "ok" /\ links[l].up /\ Sends(l, x, r)
           \/ result = "error" /\ UNCHANGED links
  BY LinkSteps DEF SslWrite

\* mbedtls_ssl_read takes a record, or there is none and the other side is gone.
LEMMA ReadStep ==
    ASSUME links \in Seq(Link), NEW l \in 1..Len(links), NEW x \in Side, NEW result,
           SslRead(l, x, result)
    PROVE  \/ /\ Takes(l, x)
              /\ result = IF Head(Arrived(l, x)).t \in {"data", "close"}
                          THEN Head(Arrived(l, x)) ELSE Rec("error", 0)
           \/ /\ Arrived(l, x) = <<>> /\ Gone(l, x) /\ UNCHANGED links
              /\ result = Rec("eof", 0)
  BY LinkSteps DEF SslRead

\* What mbedtls_ssl_read answers by itself.
LEMMA ControlStep ==
    ASSUME links \in Seq(Link), NEW l \in 1..Len(links), NEW x \in Side, NEW b,
           SslReadControl(l, x, b)
    PROVE  \/ Takes(l, x)
           \/ \E t \in {"rehello", "redone", "norenego"} : Swaps(l, x, Rec(t, 0))
  <1>1. /\ Arrived(l, x) # <<>>
        /\ \/ links' = [links EXCEPT ![l] = Pop(@, x)]
           \/ \E t \in {"rehello", "redone", "norenego"} :
                links' = [links EXCEPT ![l] = Put(Pop(@, x), x, Rec(t, 0))]
    BY DEF SslReadControl
  <1>2. \A t \in {"rehello", "redone", "norenego"} : Rec(t, 0) \in Record
    BY RecordTypes DEF Kinds
  <1> QED
    BY <1>1, <1>2, LinkSteps

\* mbedtls_ssl_renegotiate of a client takes the answer.
LEMMA RenegotiatedStep ==
    ASSUME links \in Seq(Link), NEW l \in 1..Len(links), NEW result, SslRenegotiated(l, result)
    PROVE  Takes(l, "c") \/ UNCHANGED links
  BY LinkSteps DEF SslRenegotiated, Side

\* mbedtls_ssl_handshake follows the script or fails.
LEMMA HandshakeStep ==
    ASSUME links \in Seq(Link), DOMAIN ssl = Side, NEW l \in 1..Len(links), NEW x \in Side,
           NEW conf, NEW resume, NEW result, x = "s" => Version(conf) \in Int,
           SslHandshake(l, x, conf, resume, result)
    PROVE  /\ DOMAIN ssl' = Side /\ ssl'[Peer(x)] = ssl[Peer(x)]
           /\ \/ \E p \in Script : Follows(p, l, x, conf, resume, result)
              \/ Fails(l, x, conf, result)
  <1> DEFINE q == Arrived(l, x)
             mine == {p \in Script : p[1] = x /\ p[2] = ssl[x]}
             good == {p \in mine : q # <<>> /\ p[3] = "?" /\ p[4] = Head(q).t /\ Acceptable(x, p, conf, Head(q).n)}
             Done(p) == /\ ssl' = [ssl EXCEPT ![x] = p[5]]
                        /\ result = IF p[5] = "over" THEN "ok" ELSE "more"
             Refuses == /\ refused' = IF x = "s" /\ ssl[x] = "start" /\ q # <<>> /\ Head(q).t = "hello"
                                      THEN Refusal(conf) ELSE refused
                        /\ result = "error" /\ UNCHANGED <<ssl, hello>>
  <1>1. \A p \in Script : p[4] \in Kinds
    BY DEF Script, Kinds
  <1>2. Rec("fatal", 0) \in Record
    BY RecordTypes DEF Kinds
  <1>3. \A p \in Script : Done(p) => DOMAIN ssl' = Side /\ ssl'[Peer(x)] = ssl[Peer(x)] /\ ssl'[x] = p[5]
    BY DEF Side, Peer
  <1>4. \/ \E p \in mine :
            /\ p[3] = "!" /\ links[l].up
            /\ links' = [links EXCEPT ![l] = Put(@, x, Rec(p[4], IF x = "s" THEN Version(conf) ELSE 0))]
            /\ hello' = IF p[4] = "hello" THEN Offer(conf, resume) ELSE hello
            /\ Done(p) /\ UNCHANGED refused
        \/ \E p \in good :
            links' = [links EXCEPT ![l] = Pop(@, x)] /\ Done(p) /\ UNCHANGED <<hello, refused>>
        \/ /\ q # <<>> /\ links' = [links EXCEPT ![l] = Put(Pop(@, x), x, Rec("fatal", 0))]
           /\ Refuses
        \/ UNCHANGED links /\ Refuses
    BY Zenon DEF SslHandshake
  <1>5. CASE \E p \in mine :
            /\ p[3] = "!" /\ links[l].up
            /\ links' = [links EXCEPT ![l] = Put(@, x, Rec(p[4], IF x = "s" THEN Version(conf) ELSE 0))]
            /\ hello' = IF p[4] = "hello" THEN Offer(conf, resume) ELSE hello
            /\ Done(p) /\ UNCHANGED refused
    <2>1. PICK p \in mine :
            /\ p[3] = "!" /\ links[l].up
            /\ links' = [links EXCEPT ![l] = Put(@, x, Rec(p[4], IF x = "s" THEN Version(conf) ELSE 0))]
            /\ hello' = IF p[4] = "hello" THEN Offer(conf, resume) ELSE hello
            /\ Done(p) /\ UNCHANGED refused
      BY <1>5
    <2>2. PICK n \in Int : n = IF x = "s" THEN Version(conf) ELSE 0
      OBVIOUS
    <2>3. p \in Script /\ Rec(p[4], n) \in Record
      BY <1>1, RecordTypes
    <2>4. Sends(l, x, Rec(p[4], n))
      BY <2>1, <2>2, <2>3, LinkSteps
    <2> HIDE DEF Done
    <2> QED
      BY <1>3, <2>1, <2>3, <2>4 DEF Done, Follows
  <1>6. CASE \E p \in good :
            links' = [links EXCEPT ![l] = Pop(@, x)] /\ Done(p) /\ UNCHANGED <<hello, refused>>
    <2>1. PICK p \in good :
            links' = [links EXCEPT ![l] = Pop(@, x)] /\ Done(p) /\ UNCHANGED <<hello, refused>>
      BY <1>6
    <2>2. p \in Script /\ Takes(l, x)
      BY <2>1, LinkSteps
    <2> QED
      BY <1>3, <2>1, <2>2 DEF Follows
  <1>7. CASE /\ q # <<>> /\ links' = [links EXCEPT ![l] = Put(Pop(@, x), x, Rec("fatal", 0))]
             /\ Refuses
    BY <1>2, <1>7, LinkSteps DEF Fails
  <1>8. CASE UNCHANGED links /\ Refuses
    BY <1>8 DEF Fails
  <1> QED
    BY <1>4, <1>5, <1>6, <1>7, <1>8
------------------------------------------------------------------------------
(* Steps keep the connections and their ends in order.                     *)

\* Connections that wait.
LEMMA WaitingSteps ==
    ASSUME WireOK
    PROVE  /\ \A l : Waiting(l) => l \in 1..Len(links)
           /\ backlog' = Append(backlog, Len(links) + 1) =>
                \A l : Waiting(l)' <=> Waiting(l) \/ l = Len(links) + 1
           /\ backlog # <<>> /\ backlog' = Tail(backlog) =>
                /\ Head(backlog) \in 1..Len(links) /\ Waiting(Head(backlog))
                /\ \A l : Waiting(l)' <=> Waiting(l) /\ l # Head(backlog)
  <1>0. backlog \in Seq(1..Len(links))
    BY DEF WireOK
  <1>1. /\ Len(links) \in Nat /\ Len(backlog) \in Nat /\ DOMAIN backlog = 1..Len(backlog)
        /\ \A i \in DOMAIN backlog : backlog[i] \in 1..Len(links)
    BY DEF WireOK
  <1>2. ASSUME backlog' = Append(backlog, Len(links) + 1)
        PROVE  \A l : Waiting(l)' <=> Waiting(l) \/ l = Len(links) + 1
    <2>1. /\ \A i \in DOMAIN backlog : i \in DOMAIN backlog' /\ backlog'[i] = backlog[i]
          /\ Len(backlog) + 1 \in DOMAIN backlog' /\ backlog'[Len(backlog) + 1] = Len(links) + 1
          /\ \A i \in DOMAIN backlog' : i \in DOMAIN backlog \/ i = Len(backlog) + 1
      BY <1>0, <1>1, <1>2
    <2> QED
      BY <2>1, Zenon DEF Waiting
  <1>3. ASSUME backlog # <<>>, backlog' = Tail(backlog)
        PROVE  /\ Head(backlog) \in 1..Len(links) /\ Waiting(Head(backlog))
               /\ \A l : Waiting(l)' <=> Waiting(l) /\ l # Head(backlog)
    <2>1. Head(backlog) = backlog[1] /\ 1 \in DOMAIN backlog /\ Len(backlog) # 0
      BY <1>0, <1>1, <1>3
    <2>2. Len(backlog') = Len(backlog) - 1
      BY <1>0, <1>3, HeadTailProperties
    <2>3. \A i \in 1..Len(backlog') : backlog'[i] = backlog[i + 1]
      BY <1>0, <1>3, HeadTailProperties
    <2>4. DOMAIN backlog' = 1..(Len(backlog) - 1)
      <3>1. backlog' \in Seq(1..Len(links))
        BY <1>0, <1>3, HeadTailProperties
      <3> QED
        BY <2>2, <3>1
    <2>5. \A i \in DOMAIN backlog : i # 1 => i - 1 \in DOMAIN backlog' /\ backlog'[i - 1] = backlog[i]
      <3> SUFFICES ASSUME NEW i \in DOMAIN backlog, i # 1
                   PROVE  i - 1 \in DOMAIN backlog' /\ backlog'[i - 1] = backlog[i]
        OBVIOUS
      <3>1. i \in Nat /\ i - 1 \in 1..Len(backlog') /\ (i - 1) + 1 = i
        BY <1>1, <2>2
      <3> QED
        BY <2>2, <2>3, <2>4, <3>1, Zenon
    <2>6. \A i \in DOMAIN backlog : i # 1 => backlog[i] # backlog[1]
      <3> SUFFICES ASSUME NEW i \in DOMAIN backlog, i # 1 PROVE backlog[i] # backlog[1]
        OBVIOUS
      <3>1. i \in Nat /\ 1 < i
        BY <1>1
      <3>2. backlog[1] < backlog[i]
        BY <2>1, <3>1, Zenon DEF WireOK
      <3>3. backlog[1] \in 1..Len(links) /\ backlog[i] \in 1..Len(links)
        BY <1>1, <2>1, Zenon
      <3> QED
        BY <1>1, <3>2, <3>3
    <2>7. \A i \in DOMAIN backlog' :
            i + 1 \in DOMAIN backlog /\ backlog'[i] = backlog[i + 1] /\ backlog'[i] # backlog[1]
      <3> SUFFICES ASSUME NEW i \in DOMAIN backlog'
                   PROVE  /\ i + 1 \in DOMAIN backlog /\ backlog'[i] = backlog[i + 1]
                          /\ backlog'[i] # backlog[1]
        OBVIOUS
      <3>1. i \in 1..Len(backlog') /\ i + 1 \in 1..Len(backlog) /\ i + 1 # 1
        BY <1>1, <2>2, <2>4
      <3> QED
        BY <1>1, <2>3, <2>6, <3>1, Zenon
    <2>8. \A l : Waiting(l) /\ l # Head(backlog) => Waiting(l)'
      BY <2>1, <2>5, Zenon DEF Waiting
    <2>9. \A l : Waiting(l)' => Waiting(l) /\ l # Head(backlog)
      BY <2>1, <2>7, Zenon DEF Waiting
    <2>10. Waiting(Head(backlog))
      BY <2>1, Zenon DEF Waiting
    <2> QED
      BY <1>1, <2>1, <2>8, <2>9, <2>10, Zenon
  <1>4. \A l : Waiting(l) => l \in 1..Len(links)
    BY <1>1, Zenon DEF Waiting
  <1> QED
    BY <1>2, <1>3, <1>4, Zenon

\* Records are sent and taken.
LEMMA WireIo ==
    ASSUME WireOK, EndsOK, NEW l \in 1..Len(links), NEW x \in Side, NEW r \in Record,
           UNCHANGED links \/ Sends(l, x, r) \/ Takes(l, x) \/ Swaps(l, x, r),
           UNCHANGED <<cLink, sLink, backlog>>, DOMAIN ssl' = Side
    PROVE  WireOK' /\ EndsOK'
  <1>1. CASE UNCHANGED links
    BY <1>1 DEF WireOK, EndsOK, Held, Waiting
  <1>2. CASE Sends(l, x, r) \/ Takes(l, x) \/ Swaps(l, x, r)
    <2>1. Moves(l) /\ DOMAIN links = 1..Len(links) /\ DOMAIN links' = 1..Len(links')
      BY <1>2 DEF Sends, Takes, Swaps, Moves, WireOK
    <2>2. WireOK'
      BY <2>1 DEF WireOK, Moves
    <2>3. ASSUME NEW m \in DOMAIN links', ~links'[m].up
          PROVE  links'[m].sent["c"] = <<>> /\ links'[m].sent["s"] = <<>>
      <3>1. CASE m # l
        BY <2>1, <2>3, <3>1 DEF Moves, EndsOK
      <3>2. CASE m = l
        <4>1. links[l].sent["c"] = <<>> /\ links[l].sent["s"] = <<>> /\ ~links[l].up
          BY <2>1, <2>3, <3>2 DEF Moves, EndsOK
        <4> QED
          BY <1>2, <2>1, <3>2, <4>1 DEF Sends, Takes, Swaps, Fits, Arrived, Peer, Side
      <3> QED
        BY <3>1, <3>2
    <2>4. \A m \in 1..Len(links) : links'[m].open = links[m].open
      BY <2>1 DEF Moves
    <2>5. EndsOK'
      BY <2>1, <2>3, <2>4, SMTT(30) DEF EndsOK, Held, Waiting, Moves, WireOK
    <2> QED
      BY <2>2, <2>5
  <1> QED
    BY <1>1, <1>2

\* Somebody connects.
LEMMA WireConnect ==
    ASSUME WireOK, EndsOK, NEW k \in Link, k.up, "s" \in k.open,
           links' = Append(links, k), backlog' = Append(backlog, Len(links) + 1),
           UNCHANGED <<sLink, ssl>>,
           cLink' = cLink \/ (cLink' = Len(links) + 1 /\ "c" \in k.open)
    PROVE  /\ WireOK' /\ EndsOK'
           /\ Len(links') = Len(links) + 1 /\ links'[Len(links) + 1] = k
           /\ \A l \in 1..Len(links) : links'[l] = links[l]
  <1>1. /\ links' \in Seq(Link) /\ Len(links') = Len(links) + 1 /\ links'[Len(links) + 1] = k
        /\ DOMAIN links = 1..Len(links) /\ DOMAIN links' = 1..(Len(links) + 1) /\ Len(links) \in Nat
        /\ \A l \in 1..Len(links) : links'[l] = links[l]
    BY DEF WireOK
  <1>2. /\ backlog \in Seq(1..Len(links)) /\ Len(backlog) \in Nat /\ DOMAIN backlog = 1..Len(backlog)
        /\ \A i \in DOMAIN backlog : backlog[i] \in 1..Len(links)
    BY DEF WireOK
  <1>3. /\ DOMAIN backlog' = 1..(Len(backlog) + 1)
        /\ \A i \in 1..Len(backlog) : backlog'[i] = backlog[i]
        /\ backlog'[Len(backlog) + 1] = Len(links) + 1
        /\ Len(backlog') = Len(backlog) + 1
    BY <1>2
  <1>4. backlog' \in Seq(1..Len(links'))
    <2>1. backlog \in Seq(1..Len(links'))
      BY <1>1, <1>2
    <2>2. Len(links) + 1 \in 1..Len(links')
      BY <1>1
    <2> QED
      BY <2>1, <2>2
  <1>5. \A i, j \in DOMAIN backlog' : i < j => backlog'[i] < backlog'[j]
    BY <1>1, <1>2, <1>3 DEF WireOK
  <1>6. WireOK'
    BY <1>1, <1>4, <1>5 DEF WireOK
  <1>7. \A l : Waiting(l)' <=> Waiting(l) \/ l = Len(links) + 1
    BY WaitingSteps
  <1>8. EndsOK'
    BY <1>1, <1>7 DEF EndsOK, Held, WireOK
  <1> QED
    BY <1>1, <1>6, <1>8

\* The server accepts a connection, or drops one that is gone.
LEMMA WireAccept ==
    ASSUME WireOK, EndsOK, sLink = 0, backlog # <<>>, backlog' = Tail(backlog),
           sLink' = Head(backlog) \/ sLink' = sLink, UNCHANGED <<links, cLink, ssl>>
    PROVE  WireOK' /\ EndsOK' /\ Head(backlog) \in 1..Len(links)
  <1>1. /\ backlog \in Seq(1..Len(links)) /\ Len(links) \in Nat /\ Len(backlog) \in Nat
        /\ DOMAIN backlog = 1..Len(backlog) /\ Len(backlog) # 0
    BY DEF WireOK
  <1>2. /\ backlog' \in Seq(1..Len(links)) /\ Len(backlog') = Len(backlog) - 1
        /\ \A i \in 1..Len(backlog') : backlog'[i] = backlog[i + 1]
    BY <1>1, HeadTailProperties
  <1>3. \A i, j \in DOMAIN backlog' : i < j => backlog'[i] < backlog'[j]
    BY <1>1, <1>2, SMTT(30) DEF WireOK
  <1>4. /\ Head(backlog) \in 1..Len(links) /\ Waiting(Head(backlog))
        /\ \A l : Waiting(l)' <=> Waiting(l) /\ l # Head(backlog)
        /\ \A l : Waiting(l) => l \in 1..Len(links)
    BY WaitingSteps
  <1>5. WireOK'
    BY <1>1, <1>2, <1>3, <1>4 DEF WireOK
  <1>6. EndsOK'
    BY <1>4 DEF EndsOK, Held
  <1> QED
    BY <1>4, <1>5, <1>6

\* The client frees its connection.
LEMMA WireFree ==
    ASSUME WireOK, EndsOK, CNetFree, UNCHANGED <<sLink, backlog>>, DOMAIN ssl' = Side
    PROVE  /\ WireOK' /\ EndsOK' /\ cLink' = 0
           /\ Len(links') = Len(links)
           /\ \A l \in 1..Len(links) : l # cLink => links'[l] = links[l]
           /\ cLink # 0 => Closes(cLink, "c")
  <1>1. CASE cLink = 0
    BY <1>1 DEF CNetFree, WireOK, EndsOK, Held, Waiting
  <1>2. CASE cLink # 0
    <2>0. /\ cLink \in 1..Len(links) /\ links \in Seq(Link) /\ cLink' = 0
          /\ links' = [links EXCEPT ![cLink] = Shut(@, "c")]
      BY <1>2 DEF CNetFree, WireOK
    <2>1. Closes(cLink, "c") /\ cLink' = 0
      BY <2>0, LinkSteps, Zenon DEF Side
    <2>2. DOMAIN links = 1..Len(links) /\ DOMAIN links' = 1..Len(links')
      BY <2>1 DEF Closes, WireOK
    <2>3. WireOK'
      BY <2>1 DEF WireOK, Closes
    <2>4. ASSUME NEW m \in DOMAIN links', ~links'[m].up
          PROVE  links'[m].sent["c"] = <<>> /\ links'[m].sent["s"] = <<>>
      BY <2>1, <2>2, <2>4 DEF EndsOK, Closes, Peer
    <2>5. EndsOK'
      BY <2>1, <2>2, <2>4 DEF EndsOK, Closes, Held, Waiting
    <2> QED
      BY <2>1, <2>3, <2>5 DEF Closes
  <1> QED
    BY <1>1, <1>2

\* The server frees its connection.
LEMMA WireReset ==
    ASSUME WireOK, EndsOK, SReset, UNCHANGED cLink
    PROVE  /\ WireOK' /\ EndsOK' /\ sLink' = 0
           /\ Len(links') = Len(links)
           /\ \A l \in 1..Len(links) : l # sLink => links'[l] = links[l]
           /\ sLink # 0 => Closes(sLink, "s")
  <1>0. DOMAIN ssl' = Side
    BY DEF SReset, WireOK
  <1>1. CASE sLink = 0
    BY <1>0, <1>1 DEF SReset, WireOK, EndsOK, Held, Waiting
  <1>2. CASE sLink # 0
    <2>0. /\ sLink \in 1..Len(links) /\ links \in Seq(Link) /\ sLink' = 0 /\ backlog' = backlog
          /\ links' = [links EXCEPT ![sLink] = Shut(@, "s")]
      BY <1>2 DEF SReset, WireOK
    <2>1. Closes(sLink, "s") /\ sLink' = 0 /\ backlog' = backlog
      BY <2>0, LinkSteps, Zenon DEF Side
    <2>2. DOMAIN links = 1..Len(links) /\ DOMAIN links' = 1..Len(links')
      BY <2>1 DEF Closes, WireOK
    <2>3. WireOK'
      BY <1>0, <2>1 DEF WireOK, Closes
    <2>4. ASSUME NEW m \in DOMAIN links', ~links'[m].up
          PROVE  links'[m].sent["c"] = <<>> /\ links'[m].sent["s"] = <<>>
      BY <2>1, <2>2, <2>4 DEF EndsOK, Closes, Peer
    <2>5. \A m : Waiting(m)' <=> Waiting(m)
      BY <2>1 DEF Waiting
    <2>6. \A m : Waiting(m) => m \in 1..Len(links)
      BY WaitingSteps
    <2>7. ~Waiting(sLink)' /\ cLink' = cLink
      BY <2>1, <2>5, <2>6
    <2>8. cLink # 0 => "c" \in links'[cLink].open
      BY <2>1, <2>2 DEF EndsOK, Closes, WireOK
    <2>9. ASSUME NEW m \in DOMAIN links', Held(m)' PROVE "s" \in links'[m].open
      <3>1. m # sLink /\ m \in 1..Len(links) /\ Held(m)
        BY <2>0, <2>1, <2>2, <2>5, <2>9 DEF EndsOK, Held, Closes
      <3> QED
        BY <2>1, <2>2, <3>1 DEF EndsOK, Closes
    <2>10. EndsOK'
      BY <2>4, <2>7, <2>8, <2>9 DEF EndsOK
    <2> QED
      BY <2>1, <2>3, <2>10 DEF Closes
  <1> QED
    BY <1>1, <1>2

\* The server frees all its sockets.
LEMMA WireExit ==
    ASSUME WireOK, EndsOK, SNetFree, UNCHANGED cLink
    PROVE  /\ WireOK' /\ EndsOK' /\ sLink' = 0 /\ backlog' = <<>>
           /\ Len(links') = Len(links)
           /\ \A l \in 1..Len(links) : links'[l] = links[l] \/ links'[l] = Shut(links[l], "s")
  <1>1. /\ DOMAIN links = 1..Len(links) /\ Len(links) \in Nat
        /\ \A l \in 1..Len(links) : links[l] \in Link
    BY DEF WireOK
  <1>2. \A l \in 1..Len(links) : Shut(links[l], "s") \in Link
    BY <1>1, ShutLink DEF Side
  <1>3. /\ links' \in [1..Len(links) -> Link]
        /\ \A l \in 1..Len(links) : links'[l] = links[l] \/ links'[l] = Shut(links[l], "s")
    BY <1>1, <1>2 DEF SNetFree
  <1>4. links' \in Seq(Link) /\ Len(links') = Len(links) /\ DOMAIN links' = 1..Len(links)
    BY <1>1, <1>3
  <1>5. sLink' = 0 /\ backlog' = <<>> /\ backlog' \in Seq(1..Len(links)) /\ ssl' = ssl
        /\ \A l : ~Waiting(l)'
    BY DEF SNetFree, Waiting
  <1>6. WireOK'
    BY <1>4, <1>5 DEF WireOK
  <1>7. ASSUME NEW m \in 1..Len(links)
        PROVE  /\ ~links'[m].up => links'[m].sent["c"] = <<>> /\ links'[m].sent["s"] = <<>>
               /\ "c" \in links[m].open => "c" \in links'[m].open
    BY <1>1, <1>3, ShutLink DEF EndsOK, Side, Peer
  <1>8. EndsOK'
    BY <1>4, <1>5, <1>7 DEF EndsOK, Held, WireOK
  <1> QED
    BY <1>3, <1>4, <1>5, <1>6, <1>8

\* The network drops a connection.
LEMMA WireBreak ==
    ASSUME WireOK, EndsOK, Break, UNCHANGED <<cLink, sLink>>
    PROVE  /\ WireOK' /\ EndsOK' /\ Len(links') = Len(links)
           /\ \A l \in 1..Len(links) :
                \/ links'[l] = links[l]
                \/ ~links'[l].up /\ links'[l].sent["c"] = <<>> /\ links'[l].sent["s"] = <<>>
  <1>1. PICK b \in DOMAIN links : links' = [links EXCEPT ![b].up = FALSE, ![b].sent = NoQueues]
    BY Zenon DEF Break
  <1>2. /\ DOMAIN links = 1..Len(links) /\ Len(links) \in Nat /\ links[b] \in Link
        /\ b \in 1..Len(links)
    BY DEF WireOK
  <1> DEFINE k == [links[b] EXCEPT !.up = FALSE, !.sent = NoQueues]
  <1>3. /\ k \in Link /\ ~k.up /\ k.sent["c"] = <<>> /\ k.sent["s"] = <<>> /\ k.open = links[b].open
    <2>1. NoQueues \in [c : Seq(Record), s : Seq(Record)] /\ NoQueues["c"] = <<>> /\ NoQueues["s"] = <<>>
      BY DEF NoQueues
    <2> QED
      BY <1>2, <2>1 DEF Link
  <1>4. links' = [links EXCEPT ![b] = k]
    BY <1>1, <1>2
  <1> HIDE DEF k
  <1>5. /\ links' \in Seq(Link) /\ Len(links') = Len(links) /\ DOMAIN links' = 1..Len(links)
        /\ \A l \in 1..Len(links) : links'[l] = IF l = b THEN k ELSE links[l]
    BY <1>2, <1>3, <1>4, ExceptSeq DEF WireOK
  <1>6. backlog' = backlog /\ ssl' = ssl
    BY DEF Break
  <1>7. WireOK'
    BY <1>5, <1>6 DEF WireOK
  <1>8. \A l : Held(l)' <=> Held(l)
    BY <1>6 DEF Held, Waiting
  <1>9. \A l \in 1..Len(links) : links'[l].open = links[l].open
    BY <1>3, <1>5
  <1>10. ASSUME NEW m \in DOMAIN links', ~links'[m].up
         PROVE  links'[m].sent["c"] = <<>> /\ links'[m].sent["s"] = <<>>
    BY <1>2, <1>3, <1>5, <1>10 DEF EndsOK
  <1>11. ~Waiting(sLink)'
    BY <1>6 DEF Waiting, EndsOK
  <1>12. EndsOK'
    BY <1>2, <1>5, <1>8, <1>9, <1>10, <1>11, SMTT(30) DEF EndsOK, WireOK
  <1> QED
    BY <1>3, <1>5, <1>7, <1>12
------------------------------------------------------------------------------
(* The programs keep the connections in order.                             *)

\* Nothing happens to the connections.
LEMMA WireSame ==
    ASSUME WireOK, EndsOK, UNCHANGED <<links, backlog, cLink, sLink>>, DOMAIN ssl' = Side
    PROVE  WireOK' /\ EndsOK'
  BY DEF WireOK, EndsOK, Held, Waiting

\* A call of the library other than the handshake.
LEMMA CallWire ==
    ASSUME WireOK, EndsOK, NEW l \in 1..Len(links), NEW x \in Side,
           \/ \E r \in Record, result \in {"ok", "error"} : SslWrite(l, x, r, result)
           \/ \E result : SslRead(l, x, result)
           \/ \E b : SslReadControl(l, x, b)
           \/ x = "c" /\ \E result \in {"ok", "error"} : SslRenegotiated(l, result)
           \/ UNCHANGED links,
           UNCHANGED <<cLink, sLink, backlog, ssl>>
    PROVE  WireOK' /\ EndsOK'
  <1>0. links \in Seq(Link) /\ DOMAIN ssl' = Side
    BY DEF WireOK
  <1>1. CASE \E r \in Record, result \in {"ok", "error"} : SslWrite(l, x, r, result)
    BY <1>0, <1>1, WriteStep, WireIo, WireSame
  <1>2. PICK r0 \in Record : r0 = Rec("fatal", 0)
    BY RecordTypes DEF Kinds
  <1>3. CASE \E result : SslRead(l, x, result)
    BY <1>0, <1>2, <1>3, ReadStep, WireIo, WireSame
  <1>4. CASE \E b : SslReadControl(l, x, b)
    <2>1. \A t \in {"rehello", "redone", "norenego"} : Rec(t, 0) \in Record
      BY RecordTypes DEF Kinds
    <2>2. \/ Takes(l, x)
          \/ \E t \in {"rehello", "redone", "norenego"} : Swaps(l, x, Rec(t, 0))
      BY <1>0, <1>4, ControlStep
    <2> QED
      BY <1>0, <1>2, <2>1, <2>2, WireIo
  <1>5. CASE x = "c" /\ \E result \in {"ok", "error"} : SslRenegotiated(l, result)
    BY <1>0, <1>2, <1>5, RenegotiatedStep, WireIo, WireSame
  <1>6. CASE UNCHANGED links
    BY <1>0, <1>6, WireSame
  <1> QED
    BY <1>1, <1>3, <1>4, <1>5, <1>6

\* A step of the handshake.
LEMMA HandshakeWire ==
    ASSUME WireOK, EndsOK, NEW l \in 1..Len(links), NEW x \in Side,
           NEW conf, NEW resume, NEW result, x = "s" => Version(conf) \in Int,
           SslHandshake(l, x, conf, resume, result),
           UNCHANGED <<cLink, sLink, backlog>>
    PROVE  /\ WireOK' /\ EndsOK' /\ ssl'[Peer(x)] = ssl[Peer(x)]
           /\ result = "ok" => ssl'[x] = "over"
  <1>0. links \in Seq(Link) /\ DOMAIN ssl = Side /\ Rec("fatal", 0) \in Record
    BY RecordTypes DEF WireOK, Kinds
  <1>1. /\ DOMAIN ssl' = Side /\ ssl'[Peer(x)] = ssl[Peer(x)]
        /\ result = "ok" => ssl'[x] = "over"
        /\ \/ \E p \in Script, n \in Int : Sends(l, x, Rec(p[4], n))
           \/ Takes(l, x) \/ UNCHANGED links \/ Swaps(l, x, Rec("fatal", 0))
    <2>1. /\ DOMAIN ssl' = Side /\ ssl'[Peer(x)] = ssl[Peer(x)]
          /\ \/ \E p \in Script : Follows(p, l, x, conf, resume, result)
             \/ Fails(l, x, conf, result)
      BY <1>0, HandshakeStep, Zenon
    <2> QED
      BY <2>1 DEF Follows, Fails
  <1>2. \A p \in Script, n \in Int : Rec(p[4], n) \in Record
    <2>1. \A p \in Script : p[4] \in Kinds
      BY DEF Script, Kinds
    <2> QED
      BY <2>1, RecordTypes
  <1> QED
    BY <1>0, <1>1, <1>2, WireIo, WireSame

\* ssl_client1.
LEMMA Client1Wire ==
    ASSUME WireInv, Client1, UNCHANGED <<sProg, sPc, sLink>>
    PROVE  WireInv'
  <1> USE DEF WireInv
  <1>0. ssl'["s"] = ssl["s"] => SPcOK'
    BY DEF SPcOK
  <1>1. DOMAIN ssl = Side /\ links \in Seq(Link) /\ cLink \in 0..Len(links) /\ Len(links) \in Nat
    BY DEF WireOK
  <1>2. CASE C1Begin \/ C1LoadCa \/ C1Config
    <2>1. UNCHANGED <<links, backlog, cLink, sLink, ssl>>
      BY <1>2 DEF C1Begin, C1LoadCa, C1Config, cRest, wire
    <2>2. WireOK' /\ EndsOK'
      BY <1>1, <2>1, WireSame
    <2>3. CPcOK'
      BY <1>2, <2>1 DEF CPcOK, CUnlinked, C1Begin, C1LoadCa, C1Config, CGoto, CCall
    <2> QED
      BY <1>0, <2>1, <2>2, <2>3
  <1>3. CASE C1Connect
    <2>1. CASE UNCHANGED wire /\ UNCHANGED cLink /\ cPc' = "exit"
      BY <1>0, <1>1, <2>1, WireSame DEF CPcOK, CUnlinked, wire
    <2>2. CASE /\ links' = Append(links, NewLink) /\ cLink' = Len(links) + 1
               /\ backlog' = Append(backlog, Len(links) + 1) /\ ssl' = ssl
               /\ cPc = "connect" /\ cPc' = "config"
      <3>1. NewLink \in Link /\ NewLink.up /\ NewLink.open = {"c", "s"}
        BY EmptyQueue DEF NewLink, NoQueues, Link, Side
      <3>2. WireOK' /\ EndsOK'
        BY <2>2, <3>1, WireConnect
      <3> QED
        BY <1>0, <1>1, <2>2, <3>2 DEF CPcOK, CUnlinked
    <2> QED
      BY <1>3, <2>1, <2>2 DEF C1Connect, CNetConnect, CGoto
  <1>4. CASE C1Handshake
    <2>1. PICK result \in {"more", "ok", "error"} :
            /\ cPc = "handshake" /\ SslHandshake(cLink, "c", Conf1, FALSE, result)
            /\ cPc' \in {"handshake", "send", "exit"}
            /\ UNCHANGED <<cLink, backlog>>
      BY <1>4 DEF C1Handshake, cRest
    <2>2. cLink \in 1..Len(links)
      BY <1>1, <2>1 DEF CPcOK, CUnlinked
    <2>3. WireOK' /\ EndsOK' /\ ssl'["s"] = ssl["s"]
      BY <2>1, <2>2, HandshakeWire DEF Side, Peer
    <2> QED
      BY <1>0, <2>1, <2>2, <2>3 DEF CPcOK, CUnlinked
  <1>5. CASE C1Write \/ C1Read \/ C1Close
    <2>1. /\ cPc \in {"send", "read", "close"} /\ cPc' \in {"read", "close", "exit"}
          /\ UNCHANGED <<cLink, backlog, ssl>>
      BY <1>5 DEF C1Write, C1Read, C1Close, CGoto, wireRest, cRest
    <2>2. cLink \in 1..Len(links)
      BY <1>1, <2>1 DEF CPcOK, CUnlinked
    <2>3. Data(GetLen, TRUE) \in Record /\ Rec("close", 0) \in Record
      <3>1. GetLen \in Int
        BY GetAssumption
      <3>2. Data(GetLen, TRUE) \in Record
        BY <3>1, RecordTypes, Zenon
      <3> QED
        BY <3>2, PlainRecords
    <2>4. \/ \E r \in Record, result \in {"ok", "error"} : SslWrite(cLink, "c", r, result)
          \/ \E result : SslRead(cLink, "c", result)
          \/ \E b : SslReadControl(cLink, "c", b)
      BY <1>5, <2>3, Zenon DEF C1Write, C1Read, C1Close
    <2>5. WireOK' /\ EndsOK'
      BY <2>1, <2>2, <2>4, CallWire, Zenon DEF Side
    <2> QED
      BY <1>0, <2>1, <2>2, <2>5 DEF CPcOK, CUnlinked
  <1>6. CASE C1Exit
    <2>1. CNetFree /\ UNCHANGED <<backlog, ssl>> /\ cPc' = "done"
      BY <1>6 DEF C1Exit, CGoto, wireRest
    <2>2. WireOK' /\ EndsOK'
      BY <1>1, <2>1, WireFree
    <2> QED
      BY <1>0, <2>1, <2>2 DEF CPcOK, CUnlinked
  <1> QED
    BY <1>2, <1>3, <1>4, <1>5, <1>6 DEF Client1
------------------------------------------------------------------------------
(* The options keep their types.                                           *)

\* The accepted values of the options that the proofs are about.
LEMMA CAcceptedValues ==
    /\ CAccepts["min_version"] = DOMAIN Minor /\ CAccepts["max_version"] = DOMAIN Minor
    /\ CAccepts["force_version"] = DOMAIN Minor /\ CAccepts["force_ciphersuite"] = DOMAIN Suites
    /\ CAccepts["request_size"] = 0..MaxRequest /\ CAccepts["max_frag_len"] = FragLens
  <1>1. /\ "request_size" \in DOMAIN CConnectionOptions
        /\ CConnectionOptions["request_size"] = 0..MaxRequest
        /\ \A k \in {"min_version", "max_version", "force_version", "force_ciphersuite", "max_frag_len"} :
            k \notin DOMAIN CConnectionOptions
    BY DEF CConnectionOptions
  <1>2. /\ "force_ciphersuite" \in DOMAIN CSessionOptions
        /\ CSessionOptions["force_ciphersuite"] = DOMAIN Suites
        /\ \A k \in {"min_version", "max_version", "force_version", "max_frag_len"} :
            k \notin DOMAIN CSessionOptions
    BY DEF CSessionOptions
  <1>3. \A k \in {"min_version", "max_version", "force_version"} :
            k \in DOMAIN CVersionOptions /\ CVersionOptions[k] = DOMAIN Minor
    BY DEF CVersionOptions
  <1>4. /\ "max_frag_len" \in DOMAIN CRecordOptions /\ CRecordOptions["max_frag_len"] = FragLens
        /\ "max_frag_len" \notin DOMAIN CVersionOptions
    BY DEF CRecordOptions, CVersionOptions
  <1> QED
    BY <1>1, <1>2, <1>3, <1>4 DEF CAccepts, AllOf

\* The same for the server.
LEMMA SAcceptedValues ==
    /\ SAccepts["min_version"] = DOMAIN Minor /\ SAccepts["max_version"] = DOMAIN Minor
    /\ SAccepts["force_version"] = DOMAIN Minor /\ SAccepts["force_ciphersuite"] = DOMAIN Suites
  <1>1. \A k \in {"min_version", "max_version", "force_version", "force_ciphersuite"} :
            k \notin DOMAIN SConnectionOptions
    BY DEF SConnectionOptions
  <1>2. /\ "force_ciphersuite" \in DOMAIN SSessionOptions
        /\ SSessionOptions["force_ciphersuite"] = DOMAIN Suites
        /\ \A k \in {"min_version", "max_version", "force_version"} : k \notin DOMAIN SSessionOptions
    BY DEF SSessionOptions
  <1>3. \A k \in {"min_version", "max_version", "force_version"} :
            k \in DOMAIN SVersionOptions /\ SVersionOptions[k] = DOMAIN Minor
    BY DEF SVersionOptions
  <1> QED
    BY <1>1, <1>2, <1>3 DEF SAccepts, AllOf

\* p is o with v for option k.
Assigned(p, o, k, v) ==
    DOMAIN p = DOMAIN o /\ \A j \in DOMAIN o : p[j] = IF j = k THEN v ELSE o[j]

\* EXCEPT assigns an option.
LEMMA ExceptAssigns ==
    ASSUME NEW o, NEW k, NEW v
    PROVE  /\ Assigned([o EXCEPT ![k] = v], o, k, v)
           /\ Assigned([o EXCEPT !.min_version = v], o, "min_version", v)
           /\ Assigned([o EXCEPT !.max_version = v], o, "max_version", v)
           /\ Assigned([o EXCEPT !.transport = v], o, "transport", v)
           /\ Assigned([o EXCEPT !.renegotiation = v], o, "renegotiation", v)
  BY DEF Assigned

\* Minor version numbers.
LEMMA MinorVersions ==
    (\A v \in DOMAIN Minor : Minor[v] \in Versions) /\ DOMAIN Suites \subseteq SuiteNames
  <1>1. /\ DOMAIN Minor = {"ssl3", "tls1", "tls1_1", "dtls1", "tls1_2", "dtls1_2"}
        /\ Minor["ssl3"] = 0 /\ Minor["tls1"] = 1 /\ Minor["tls1_1"] = 2
        /\ Minor["dtls1"] = 2 /\ Minor["tls1_2"] = 3 /\ Minor["dtls1_2"] = 3
    BY DEF Minor
  <1>2. 0 \in Versions /\ 1 \in Versions /\ 2 \in Versions /\ 3 \in Versions
    BY DEF Versions
  <1>3. \A v \in DOMAIN Minor : Minor[v] \in Versions
    BY <1>1, <1>2
  <1>4. DOMAIN Suites \subseteq SuiteNames
    BY Zenon DEF SuiteNames
  <1> QED
    BY <1>3, <1>4, Zenon

\* The options that say how a request is cut into records.
Sizes(defaults) == {"request_size", "max_frag_len"} \cap DOMAIN defaults

\* One assignment keeps the options in order.
LEMMA OptionSet ==
    ASSUME NEW o, NEW defaults, NEW k, NEW v, NEW p, Assigned(p, o, k, v), OptionsOK(o, defaults),
           {"min_version", "max_version", "force_ciphersuite"} \subseteq DOMAIN defaults,
           k \in {"min_version", "max_version"} => v \in Versions,
           k = "force_ciphersuite" => v \in SuiteNames
    PROVE  /\ OptionsOK(p, defaults)
           /\ \A f \in Sizes(defaults) : p[f] = IF k = f THEN v ELSE o[f]
  <1>1. /\ DOMAIN p = DOMAIN defaults
        /\ \A j \in DOMAIN defaults : p[j] = IF j = k THEN v ELSE o[j]
    BY DEF Assigned, OptionsOK
  <1>2. p["min_version"] \in Versions /\ p["max_version"] \in Versions
    BY <1>1 DEF OptionsOK
  <1>3. p["force_ciphersuite"] \in SuiteNames
    BY <1>1 DEF OptionsOK
  <1>4. OptionsOK(p, defaults)
    BY <1>1, <1>2, <1>3 DEF OptionsOK
  <1> QED
    BY <1>1, <1>4 DEF Sizes

\* An argument that is parsed keeps the options in order.
LEMMA ParseArgOK ==
    ASSUME NEW o, NEW defaults, NEW accepts, NEW a, OptionsOK(o, defaults),
           {"min_version", "max_version", "force_ciphersuite"} \subseteq DOMAIN defaults,
           accepts["min_version"] = DOMAIN Minor, accepts["max_version"] = DOMAIN Minor,
           accepts["force_version"] = DOMAIN Minor, accepts["force_ciphersuite"] = DOMAIN Suites
    PROVE  LET p == ParseArg(accepts, o, a)
           IN  /\ OptionsOK(p, defaults)
               /\ \A f \in Sizes(defaults) : p[f] = o[f] \/ p[f] \in accepts[f]
  <1>0. (\A v \in DOMAIN Minor : Minor[v] \in Versions) /\ DOMAIN Suites \subseteq SuiteNames
    BY MinorVersions
  <1>1. CASE Usage(accepts, a) # 0
    BY <1>1 DEF ParseArg
  <1>2. CASE Usage(accepts, a) = 0
    <2>1. a[1] \in DOMAIN accepts /\ a[2] \in accepts[a[1]]
      BY <1>2 DEF Usage
    <2>2. PICK k, v : k = a[1] /\ v = a[2]
      OBVIOUS
    <2>3. ParseArg(accepts, o, a) = SetOption(o, k, v) /\ v \in accepts[k]
      BY <1>2, <2>1, <2>2 DEF ParseArg
    <2>4. CASE k = "force_version"
      <3>1. PICK b : SetOption(o, k, v) =
                [o EXCEPT !.min_version = Minor[v], !.max_version = Minor[v], !.transport = b]
        BY <2>4, Zenon DEF SetOption
      <3>2. PICK m : m = Minor[v] /\ m \in Versions
        BY <1>0, <2>3, <2>4
      <3>3. PICK o1 : o1 = [o EXCEPT !.min_version = m]
        OBVIOUS
      <3>4. PICK o2 : o2 = [o1 EXCEPT !.max_version = m]
        OBVIOUS
      <3>5. /\ Assigned(o1, o, "min_version", m) /\ Assigned(o2, o1, "max_version", m)
            /\ Assigned(SetOption(o, k, v), o2, "transport", b)
        BY <3>1, <3>2, <3>3, <3>4 DEF Assigned
      <3>6. OptionsOK(o1, defaults)
            /\ \A f \in Sizes(defaults) : o1[f] = o[f]
        BY <3>2, <3>5, OptionSet DEF Sizes
      <3>7. OptionsOK(o2, defaults)
            /\ \A f \in Sizes(defaults) : o2[f] = o[f]
        BY <3>2, <3>5, <3>6, OptionSet DEF Sizes
      <3> QED
        BY <2>3, <3>5, <3>7, OptionSet DEF Sizes
    <2>5. CASE k \in {"min_version", "max_version"}
      <3>1. Assigned(SetOption(o, k, v), o, k, Minor[v])
        BY <2>5, ExceptAssigns, Zenon DEF SetOption
      <3>2. Minor[v] \in Versions
        BY <1>0, <2>3, <2>5
      <3> QED
        BY <2>3, <2>5, <3>1, <3>2, OptionSet DEF Sizes
    <2>6. CASE k \in {"dtls", "renegotiation"}
      <3>1. \E b : \/ SetOption(o, k, v) = [o EXCEPT !.transport = b]
                   \/ SetOption(o, k, v) = [o EXCEPT !.renegotiation = b]
        BY <2>6, Zenon DEF SetOption
      <3>2. PICK b : \/ Assigned(SetOption(o, k, v), o, "transport", b)
                     \/ Assigned(SetOption(o, k, v), o, "renegotiation", b)
        BY <3>1 DEF Assigned
      <3> QED
        BY <2>3, <3>2, OptionSet DEF Sizes
    <2>7. CASE k \notin {"force_version", "min_version", "max_version", "dtls", "renegotiation"}
      <3>1. Assigned(SetOption(o, k, v), o, k, v) \/ SetOption(o, k, v) = o
        BY <2>7, ExceptAssigns, Zenon DEF SetOption
      <3> QED
        BY <1>0, <2>3, <2>7, <3>1, OptionSet DEF Sizes
    <2> QED
      BY <2>4, <2>5, <2>6, <2>7
  <1> QED
    BY <1>1, <1>2

\* The versions that a side is configured for.
LEMMA ConfiguredVersions ==
    ASSUME OptInv
    PROVE  /\ CConf(cOpt).max \in 0..3 /\ SConf(sOpt).max \in 0..3
           /\ CConf(cOpt).max = IF cOpt.max_version = -1 THEN 3 ELSE cOpt.max_version
           /\ SConf(sOpt).max = IF sOpt.max_version = -1 THEN 3 ELSE sOpt.max_version
           /\ Version(SConf(sOpt)) \in Int /\ Version(SConf1) \in Int
  <1>1. cOpt.max_version \in -1..3 /\ sOpt.max_version \in -1..3 /\ hello.max \in 0..3
    BY DEF OptInv, OptionsOK, Versions
  <1>2. /\ CConf(cOpt).max = IF cOpt.max_version = -1 THEN 3 ELSE cOpt.max_version
        /\ SConf(sOpt).max = IF sOpt.max_version = -1 THEN 3 ELSE sOpt.max_version
        /\ SConf1.max = 3
    BY DEF CConf, SConf, SConf1, Configured
  <1>3. CConf(cOpt).max \in 0..3 /\ SConf(sOpt).max \in 0..3
    BY <1>1, <1>2
  <1>4. PICK m \in 0..3 : m = SConf(sOpt).max
    BY <1>3
  <1>5. Min({hello.max, m}) \in Int /\ Min({hello.max, 3}) \in Int
    BY <1>1, MinOfTwo
  <1>6. Version(SConf(sOpt)) \in Int /\ Version(SConf1) \in Int
    BY <1>2, <1>4, <1>5 DEF Version
  <1> QED
    BY <1>2, <1>3, <1>6
------------------------------------------------------------------------------
(* The servers keep the connections in order.                              *)

\* ssl_server.
LEMMA Server1Wire ==
    ASSUME WireInv, OptInv, sProg = "ssl_server", Server1, UNCHANGED <<sProg, cPc, cLink>>
    PROVE  WireInv'
  <1> USE DEF WireInv
  <1>0. ssl'["c"] = ssl["c"] => CPcOK'
    BY DEF CPcOK
  <1>1. /\ DOMAIN ssl = Side /\ links \in Seq(Link) /\ sLink \in 0..Len(links) /\ Len(links) \in Nat
        /\ sProg' = "ssl_server"
    BY DEF WireOK
  <1>2. CASE S1Begin \/ S1LoadCert \/ S1Bind \/ S1Seed \/ S1Config
    <2>1. UNCHANGED <<links, backlog, cLink, sLink, ssl>>
      BY <1>2 DEF S1Begin, S1LoadCert, S1Bind, SNetBind, S1Seed, S1Config, sRest, wire
    <2>2. WireOK' /\ EndsOK'
      BY <1>1, <2>1, WireSame
    <2>3. SPcOK'
      BY <1>1, <1>2, <2>1
         DEF SPcOK, SUnlinked, SLinked, S1Begin, S1LoadCert, S1Bind, SNetBind, S1Seed, S1Config,
             SGoto, SCall
    <2> QED
      BY <1>0, <2>1, <2>2, <2>3
  <1>3. CASE S1Reset
    <2>1. SReset /\ sPc' = "accept"
      BY <1>3 DEF S1Reset, SReset, SGoto
    <2>2. ssl' = [ssl EXCEPT !["s"] = "start"]
      BY <2>1 DEF SReset
    <2>3. ssl'["c"] = ssl["c"] /\ ssl'["s"] = "start"
      BY <1>1, <2>2 DEF Side
    <2>4. WireOK' /\ EndsOK' /\ sLink' = 0
      BY <2>1, WireReset
    <2> QED
      BY <1>0, <1>1, <2>1, <2>3, <2>4 DEF SPcOK, SUnlinked, SLinked
  <1>4. CASE S1Accept
    <2>1. /\ sPc = "accept" /\ backlog # <<>> /\ backlog' = Tail(backlog)
          /\ \/ sPc' = "handshake" /\ sLink' = Head(backlog)
             \/ sPc' = "exit" /\ sLink' = sLink
          /\ UNCHANGED <<links, ssl>>
      BY <1>4 DEF S1Accept, SNetAccept, SGoto
    <2>2. sLink = 0
      BY <2>1 DEF SPcOK, SUnlinked
    <2>3. WireOK' /\ EndsOK' /\ Head(backlog) \in 1..Len(links)
      BY <2>1, <2>2, WireAccept
    <2> QED
      BY <1>0, <1>1, <2>1, <2>3 DEF SPcOK, SUnlinked, SLinked
  <1>5. CASE S1Handshake
    <2>1. PICK result \in {"more", "ok", "error"} :
            /\ sPc = "handshake" /\ SslHandshake(sLink, "s", SConf1, FALSE, result)
            /\ sPc' = (CASE result = "more" -> "handshake" [] result = "ok" -> "read" [] OTHER -> "reset")
            /\ UNCHANGED <<sLink, backlog>>
      BY <1>5, Zenon DEF S1Handshake, SGoto
    <2>2. sLink \in 1..Len(links)
      BY <1>1, <2>1 DEF SPcOK, SLinked
    <2>3. Version(SConf1) \in Int
      BY ConfiguredVersions, Zenon
    <2>4. WireOK' /\ EndsOK' /\ ssl'["c"] = ssl["c"] /\ (result = "ok" => ssl'["s"] = "over")
      BY <2>1, <2>2, <2>3, HandshakeWire DEF Side, Peer
    <2>5. /\ sPc' \in {"handshake", "read", "reset"}
          /\ sPc' = "read" => result = "ok"
      BY <2>1
    <2> QED
      BY <1>0, <1>1, <2>1, <2>2, <2>4, <2>5 DEF SPcOK, SUnlinked, SLinked
  <1>6. CASE S1Read \/ S1Write \/ S1Close
    <2>1. /\ sPc \in {"read", "write", "close_notify"}
          /\ sPc' \in {"read", "write", "close_notify", "reset", "exit"}
          /\ sPc' \in {"read", "write"} => sPc = "read"
          /\ UNCHANGED <<sLink, backlog, ssl>>
      BY <1>6 DEF S1Read, S1Write, S1Close, SGoto, sIo
    <2>2. sLink \in 1..Len(links)
      BY <1>1, <2>1 DEF SPcOK, SLinked
    <2>3. Data(ResponseLen, TRUE) \in Record /\ Rec("close", 0) \in Record
      <3>1. ResponseLen \in Int
        BY ResponseAssumption
      <3>2. Data(ResponseLen, TRUE) \in Record
        BY <3>1, RecordTypes, Zenon
      <3> QED
        BY <3>2, PlainRecords
    <2>4. \/ \E r \in Record, result \in {"ok", "error"} : SslWrite(sLink, "s", r, result)
          \/ \E result : SslRead(sLink, "s", result)
          \/ \E b : SslReadControl(sLink, "s", b)
      BY <1>6, <2>3, Zenon DEF S1Write, S1Read, S1Close
    <2>5. WireOK' /\ EndsOK'
      BY <2>1, <2>2, <2>4, CallWire, Zenon DEF Side
    <2> QED
      BY <1>0, <1>1, <2>1, <2>2, <2>5 DEF SPcOK, SUnlinked, SLinked
  <1>7. CASE S1Exit
    <2>1. SNetFree /\ sPc' = "done"
      BY <1>7 DEF S1Exit, SGoto
    <2>2. ssl' = ssl
      BY <2>1 DEF SNetFree
    <2>3. WireOK' /\ EndsOK' /\ sLink' = 0
      BY <2>1, WireExit
    <2> QED
      BY <1>0, <1>1, <2>1, <2>2, <2>3 DEF SPcOK, SUnlinked, SLinked
  <1> QED
    BY <1>2, <1>3, <1>4, <1>5, <1>6, <1>7 DEF Server1

\* A piece of a message that is written.
LEMMA PieceRecord ==
    ASSUME NEW len \in Int, NEW written \in Int
    PROVE  LET n == Min({len - written, MaxContent})
           IN  /\ n \in Int /\ Data(n, written + n = len) \in Record
               /\ n = IF len - written <= MaxContent THEN len - written ELSE MaxContent
  <1>1. MaxContent \in Int /\ len - written \in Int
    BY WireAssumption
  <1>2. PICK n \in Int : /\ n = Min({len - written, MaxContent})
                         /\ n = IF len - written <= MaxContent THEN len - written ELSE MaxContent
    BY <1>1, MinOfTwo
  <1>3. Data(n, written + n = len) \in Record
    <2>1. (written + n = len) \in BOOLEAN
      OBVIOUS
    <2> QED
      BY <2>1, RecordTypes, Zenon
  <1> QED
    BY <1>2, <1>3

\* A piece of the request, with any end.
LEMMA RequestPiece ==
    ASSUME OptInv, WrittenInv
    PROVE  LET n == Min({RequestLen - cWritten, cOpt.max_frag_len})
           IN  /\ n \in Int /\ Data(n, cWritten + n \in Newlines) \in Record
               /\ n = IF RequestLen - cWritten <= cOpt.max_frag_len
                       THEN RequestLen - cWritten ELSE cOpt.max_frag_len
  <1>1. RequestLen \in Int /\ cWritten \in Int /\ cOpt.max_frag_len \in Int
    BY GetAssumption DEF OptInv, WrittenInv, RequestLen
  <1>2. PICK n \in Int : /\ n = Min({RequestLen - cWritten, cOpt.max_frag_len})
                         /\ n = IF RequestLen - cWritten <= cOpt.max_frag_len
                                 THEN RequestLen - cWritten ELSE cOpt.max_frag_len
    BY <1>1, MinOfTwo
  <1>3. Data(n, cWritten + n \in Newlines) \in Record
    <2>1. (cWritten + n \in Newlines) \in BOOLEAN
      OBVIOUS
    <2> QED
      BY <2>1, RecordTypes, Zenon
  <1> QED
    BY <1>2, <1>3

\* The sections of ssl_server2 that leave the connections alone.
S2Prepares ==
    S2Begin \/ S2Options \/ S2ForceSuite \/ S2VersionSuites \/ S2Psk \/ S2Curves \/ S2Seed
    \/ S2LoadCa \/ S2LoadCert \/ S2Bind \/ S2Config \/ S2Setup

\* They lead to the next section or to exit.
LEMMA Server2Prepares ==
    ASSUME S2Prepares
    PROVE  /\ UNCHANGED <<links, backlog, ssl, hello, refused, breaks, sLink, sWritten>>
           /\ sPc \in SUnlinked \ {"accept", "done"} /\ sPc' \in (SUnlinked \ {"accept", "done"}) \cup {"exit", "reset"}
  <1>1. CASE S2Begin \/ S2Options \/ S2ForceSuite \/ S2VersionSuites
    BY <1>1 DEF S2Begin, S2Options, S2ForceSuite, S2VersionSuites, SGoto, sRest2, sIdle, wire, SUnlinked
  <1>2. CASE S2Psk \/ S2Curves \/ S2Seed \/ S2LoadCa \/ S2LoadCert
    BY <1>2 DEF S2Psk, S2Curves, S2Seed, S2LoadCa, S2LoadCert, SGoto, SCall, sRest2, sIdle, sVars2, wire, SUnlinked
  <1>3. CASE S2Bind
    <2>1. \/ sPc = "bind" /\ sPc' = "exit" /\ UNCHANGED wire
          \/ /\ sPc = "bind" /\ (sPc' = "config" \/ sPc' = "exit")
             /\ UNCHANGED <<links, backlog, ssl, hello, refused, breaks>>
      BY <1>3, Zenon DEF S2Bind, SNetBind, SGoto
    <2>2. UNCHANGED <<sRest2, sOpt, sIdle>>
      BY <1>3, Zenon DEF S2Bind
    <2> QED
      BY <2>1, <2>2 DEF wire, SUnlinked, sRest2, sIdle
  <1>4. CASE S2Config \/ S2Setup
    BY <1>4 DEF S2Config, S2Setup, SGoto, SCall, sRest2, sIdle, wire, SUnlinked
  <1> QED
    BY <1>1, <1>2, <1>3, <1>4 DEF S2Prepares

\* ssl_server2.
LEMMA Server2Wire ==
    ASSUME WireInv, OptInv, sProg = "ssl_server2", Server2, UNCHANGED <<sProg, cPc, cLink>>
    PROVE  WireInv'
  <1> USE DEF WireInv
  <1>0. ssl'["c"] = ssl["c"] => CPcOK'
    BY DEF CPcOK
  <1>1. /\ DOMAIN ssl = Side /\ links \in Seq(Link) /\ sLink \in 0..Len(links) /\ Len(links) \in Nat
        /\ sProg' = "ssl_server2"
    BY DEF WireOK
  <1>2. CASE S2Prepares \/ S2Want
    <2>1. CASE S2Prepares
      <3>1. /\ UNCHANGED <<links, backlog, ssl, sLink>>
            /\ sPc \in SUnlinked /\ sPc' \in (SUnlinked \ {"accept", "done"}) \cup {"exit", "reset"}
        BY <2>1, Server2Prepares
      <3>2. WireOK' /\ EndsOK'
        BY <1>1, <3>1, WireSame
      <3> QED
        BY <1>0, <1>1, <3>1, <3>2 DEF SPcOK, SUnlinked, SLinked
    <2>2. CASE S2Want
      <3>1. UNCHANGED <<links, backlog, ssl, sLink, sPc>>
        BY <2>2 DEF S2Want, sVars1, wire
      <3>2. WireOK' /\ EndsOK'
        BY <1>1, <3>1, WireSame
      <3> QED
        BY <1>0, <1>1, <3>1, <3>2 DEF SPcOK, SUnlinked, SLinked
    <2> QED
      BY <1>2, <2>1, <2>2
  <1>3. CASE S2Reset
    <2>1. SReset /\ sPc' = "accept"
      BY <1>3 DEF S2Reset, SReset, SGoto
    <2>2. ssl' = [ssl EXCEPT !["s"] = "start"]
      BY <2>1 DEF SReset
    <2>3. ssl'["c"] = ssl["c"] /\ ssl'["s"] = "start"
      BY <1>1, <2>2 DEF Side
    <2>4. WireOK' /\ EndsOK' /\ sLink' = 0
      BY <2>1, WireReset
    <2> QED
      BY <1>0, <1>1, <2>1, <2>3, <2>4 DEF SPcOK, SUnlinked, SLinked
  <1>4. CASE S2Accept
    <2>1. /\ sPc = "accept" /\ backlog # <<>> /\ backlog' = Tail(backlog)
          /\ \/ sPc' = "handshake" /\ sLink' = Head(backlog)
             \/ sPc' = "exit" /\ sLink' = sLink
          /\ UNCHANGED <<links, ssl>>
      BY <1>4 DEF S2Accept, SNetAccept, SGoto
    <2>2. sLink = 0
      BY <2>1 DEF SPcOK, SUnlinked
    <2>3. WireOK' /\ EndsOK' /\ Head(backlog) \in 1..Len(links)
      BY <2>1, <2>2, WireAccept
    <2> QED
      BY <1>0, <1>1, <2>1, <2>2, <2>3 DEF SPcOK, SUnlinked, SLinked
  <1>5. CASE S2Handshake
    <2>0. sPc = "handshake" /\ UNCHANGED <<sLink, backlog>>
      BY <1>5 DEF S2Handshake, sRest2
    <2>1. sLink \in 1..Len(links)
      BY <1>1, <2>0 DEF SPcOK, SLinked
    <2>2. CASE \E result \in {"more", "ok", "error"} :
                /\ SslHandshake(sLink, "s", SConf(sOpt), FALSE, result)
                /\ sPc' \in {"handshake", "close_notify", "read", "reset"}
                /\ sPc' = "read" => result = "ok"
      <3>1. PICK result \in {"more", "ok", "error"} :
                /\ SslHandshake(sLink, "s", SConf(sOpt), FALSE, result)
                /\ sPc' \in {"handshake", "close_notify", "read", "reset"}
                /\ sPc' = "read" => result = "ok"
        BY <2>2, Zenon
      <3>2. Version(SConf(sOpt)) \in Int
        BY ConfiguredVersions, Zenon
      <3>3. WireOK' /\ EndsOK' /\ ssl'["c"] = ssl["c"] /\ (result = "ok" => ssl'["s"] = "over")
        BY <2>0, <2>1, <3>1, <3>2, HandshakeWire DEF Side, Peer
      <3> QED
        BY <1>0, <1>1, <2>0, <2>1, <3>1, <3>3 DEF SPcOK, SUnlinked, SLinked
    <2>3. CASE UNCHANGED <<links, ssl>> /\ sPc' = "reset"
      <3>1. WireOK' /\ EndsOK'
        BY <1>1, <2>0, <2>3, WireSame
      <3> QED
        BY <1>0, <1>1, <2>0, <2>1, <2>3, <3>1 DEF SPcOK, SUnlinked, SLinked
    <2> QED
      BY <1>5, <2>2, <2>3 DEF S2Handshake, SGoto, STimedOut, SslTimeout
  <1>6. CASE S2Read \/ S2Renegotiate \/ S2Write \/ S2Close
    <2>1. /\ sPc \in {"read", "renegotiate", "write", "close_notify"}
          /\ sPc' \in {"read", "renegotiate", "write", "close_notify", "reset"}
          /\ sPc' \in {"read", "renegotiate", "write"} => sPc \in {"read", "renegotiate", "write"}
          /\ UNCHANGED <<sLink, backlog, ssl>>
      BY <1>6 DEF S2Read, SReadAt, S2Renegotiate, S2Write, S2Close, SGoto, sIo, sRest2
    <2>2. sLink \in 1..Len(links)
      BY <1>1, <2>1 DEF SPcOK, SLinked
    <2>3. Rec("hreq", 0) \in Record /\ Rec("close", 0) \in Record
      BY PlainRecords
    <2>4. \/ \E r \in Record, result \in {"ok", "error"} : SslWrite(sLink, "s", r, result)
          \/ \E result : SslRead(sLink, "s", result)
          \/ \E b : SslReadControl(sLink, "s", b)
          \/ UNCHANGED links
      <3>1. CASE S2Read \/ S2Renegotiate \/ S2Close
        BY <2>3, <3>1, Zenon DEF S2Read, SReadAt, S2Renegotiate, S2Close, STimedOut, SslTimeout
      <3>2. CASE S2Write
        <4>1. ResponseLen \in Int /\ sWritten \in Int
          BY ResponseAssumption DEF OptInv
        <4>2. PICK n : n = Min({ResponseLen - sWritten, MaxContent})
          OBVIOUS
        <4>3. PICK r \in Record : r = Data(n, sWritten + n = ResponseLen)
          BY <4>1, <4>2, PieceRecord
        <4>4. SslWrite(sLink, "s", r, "ok") \/ SslWrite(sLink, "s", r, "error")
          BY <3>2, <4>2, <4>3, Zenon DEF S2Write
        <4> QED
          BY <4>4
      <3> QED
        BY <1>6, <3>1, <3>2
    <2>5. WireOK' /\ EndsOK'
      BY <2>1, <2>2, <2>4, CallWire, Zenon DEF Side
    <2>6. SPcOK'
      BY <1>1, <2>1, <2>2 DEF SPcOK, SUnlinked, SLinked
    <2> QED
      BY <1>0, <2>1, <2>5, <2>6
  <1>7. CASE S2Exit
    <2>1. SNetFree /\ sPc' = "done"
      BY <1>7 DEF S2Exit, SGoto
    <2>2. ssl' = ssl
      BY <2>1 DEF SNetFree
    <2>3. WireOK' /\ EndsOK' /\ sLink' = 0
      BY <2>1, WireExit
    <2> QED
      BY <1>0, <1>1, <2>1, <2>2, <2>3 DEF SPcOK, SUnlinked, SLinked
  <1> QED
    BY <1>2, <1>3, <1>4, <1>5, <1>6, <1>7 DEF Server2, S2Prepares
------------------------------------------------------------------------------
(* ssl_client2 keeps the connections in order.                             *)

\* The sections of ssl_client2 that leave the connections alone.
C2Prepares ==
    C2Begin \/ C2Options \/ C2ForceSuite \/ C2Psk \/ C2Curves \/ C2Seed \/ C2LoadCa \/ C2LoadCert
    \/ C2Config \/ C2Setup

\* They lead to the next section or to exit.
LEMMA Client2Prepares ==
    ASSUME C2Prepares
    PROVE  /\ UNCHANGED <<links, backlog, ssl, hello, refused, breaks, cLink, cWritten>>
           /\ \/ cPc \in CUnlinked \ {"connect"} /\ cPc' \in (CUnlinked \ {"reconnect_connect"}) \cup {"exit"}
              \/ cPc = "config" /\ cPc' \in {"setup", "exit"}
              \/ cPc = "setup" /\ cPc' \in {"handshake", "exit"}
  <1>1. CASE C2Begin \/ C2Options \/ C2ForceSuite
    BY <1>1 DEF C2Begin, C2Options, C2ForceSuite, CGoto, cRest2, cRest, wire, CUnlinked
  <1>2. CASE C2Psk \/ C2Curves
    BY <1>2 DEF C2Psk, C2Curves, CGoto, cRest2, cRest, wire, CUnlinked
  <1>3. CASE C2Seed \/ C2LoadCa \/ C2LoadCert
    BY <1>3 DEF C2Seed, C2LoadCa, C2LoadCert, CGoto, CCall, cRest2, cRest, cVars2, wire, CUnlinked
  <1>4. CASE C2Config \/ C2Setup
    BY <1>4 DEF C2Config, C2Setup, CGoto, CCall, cRest2, cRest, wire, CUnlinked
  <1> QED
    BY <1>1, <1>2, <1>3, <1>4 DEF C2Prepares

\* A handshake of ssl_client2.
LEMMA Client2Shakes ==
    ASSUME NEW from, NEW to, CHandshakeAt(from, to)
    PROVE  /\ cPc = from /\ UNCHANGED <<cLink, cWritten, cOpt, backlog>>
           /\ \/ \E result \in {"more", "ok", "error"} :
                    /\ SslHandshake(cLink, "c", CConf(cOpt), cSaved, result)
                    /\ cPc' = CASE result = "more" -> from [] result = "ok" -> to [] OTHER -> "exit"
              \/ UNCHANGED <<links, ssl, hello, refused>> /\ cPc' = "exit"
  <1>1. cPc = from /\ UNCHANGED <<cLink, cWritten, cOpt, backlog>>
    BY DEF CHandshakeAt, cRest2, cRest
  <1>2. \/ \E result \in {"more", "ok", "error"} :
            /\ SslHandshake(cLink, "c", CConf(cOpt), cSaved, result)
            /\ cPc' = CASE result = "more" -> from [] result = "ok" -> to [] OTHER -> "exit"
        \/ UNCHANGED links /\ UNCHANGED <<ssl, hello, refused>> /\ cPc' = "exit"
    BY Zenon DEF CHandshakeAt, CGoto, CTimedOut, SslTimeout
  <1> QED
    BY <1>1, <1>2

\* ssl_client2.
LEMMA Client2Wire ==
    ASSUME WireInv, OptInv, WrittenInv, Client2, UNCHANGED <<sProg, sPc, sLink>>
    PROVE  WireInv'
  <1> USE DEF WireInv
  <1>0. ssl'["s"] = ssl["s"] => SPcOK'
    BY DEF SPcOK
  <1>1. DOMAIN ssl = Side /\ links \in Seq(Link) /\ cLink \in 0..Len(links) /\ Len(links) \in Nat
    BY DEF WireOK
  <1>2. CASE C2Prepares
    <2>1. /\ UNCHANGED <<links, backlog, ssl, cLink>>
          /\ \/ cPc \in CUnlinked \ {"connect"} /\ cPc' \in (CUnlinked \ {"reconnect_connect"}) \cup {"exit"}
             \/ cPc = "config" /\ cPc' \in {"setup", "exit"}
             \/ cPc = "setup" /\ cPc' \in {"handshake", "exit"}
      BY <1>2, Client2Prepares
    <2>2. WireOK' /\ EndsOK'
      BY <1>1, <2>1, WireSame
    <2>3. CPcOK'
      BY <2>1 DEF CPcOK, CUnlinked
    <2> QED
      BY <1>0, <2>1, <2>2, <2>3
  <1>3. CASE C2Session \/ C2Again \/ C2Want
    <2>1. UNCHANGED <<links, backlog, ssl, cLink>>
      BY <1>3 DEF C2Session, C2Again, C2Want, cRest2, cRest, cVars1, wire
    <2>2. WireOK' /\ EndsOK'
      BY <1>1, <2>1, WireSame
    <2>3. \/ cPc \in {"session", "again"} /\ cPc' \in {"renegotiate", "send", "close", "exit"}
          \/ cPc' = cPc
      BY <1>3 DEF C2Session, C2Again, C2Want, CGoto, cVars1
    <2>4. CPcOK'
      BY <2>1, <2>3 DEF CPcOK, CUnlinked
    <2> QED
      BY <1>0, <2>1, <2>2, <2>4
  <1>4. CASE C2Hard
    <2>1. /\ UNCHANGED <<links, backlog, cLink>>
          /\ ssl' = ssl \/ ssl' = [ssl EXCEPT !["c"] = "start"]
          /\ cPc = "hard" /\ cPc' \in {"again", "hard_handshake", "exit"}
      BY <1>4 DEF C2Hard, CGoto, cRest2, cRest
    <2>2. DOMAIN ssl' = Side /\ ssl'["s"] = ssl["s"]
      BY <1>1, <2>1 DEF Side
    <2>3. WireOK' /\ EndsOK'
      BY <2>1, <2>2, WireSame
    <2>4. CPcOK'
      BY <2>1 DEF CPcOK, CUnlinked
    <2> QED
      BY <1>0, <2>2, <2>3, <2>4
  <1>5. CASE C2Connect \/ C2ReconnectConnect
    <2>1. /\ cPc \in {"connect", "reconnect_connect"}
          /\ \/ UNCHANGED wire /\ UNCHANGED cLink /\ cPc' = "exit"
             \/ /\ links' = Append(links, NewLink) /\ cLink' = Len(links) + 1
                /\ backlog' = Append(backlog, Len(links) + 1) /\ ssl' = ssl
                /\ cPc' = IF cPc = "connect" THEN "config" ELSE "reconnect_handshake"
      BY <1>5 DEF C2Connect, C2ReconnectConnect, CConnectAt, CNetConnect, CGoto, wire
    <2>2. CASE UNCHANGED wire /\ UNCHANGED cLink /\ cPc' = "exit"
      BY <1>0, <1>1, <2>2, WireSame DEF CPcOK, CUnlinked, wire
    <2>3. CASE /\ links' = Append(links, NewLink) /\ cLink' = Len(links) + 1
               /\ backlog' = Append(backlog, Len(links) + 1) /\ ssl' = ssl
               /\ cPc' = IF cPc = "connect" THEN "config" ELSE "reconnect_handshake"
      <3>1. NewLink \in Link /\ NewLink.up /\ NewLink.open = {"c", "s"}
        BY EmptyQueue DEF NewLink, NoQueues, Link, Side
      <3>2. WireOK' /\ EndsOK'
        BY <2>3, <3>1, WireConnect
      <3> QED
        BY <1>0, <1>1, <2>1, <2>3, <3>2 DEF CPcOK, CUnlinked
    <2> QED
      BY <2>1, <2>2, <2>3
  <1>6. CASE C2Handshake \/ C2HardHandshake \/ C2ReconnectHandshake
    <2>1. PICK from, to : /\ CHandshakeAt(from, to)
                          /\ from \in {"handshake", "hard_handshake", "reconnect_handshake"}
                          /\ to \in {"session", "send"}
      BY <1>6 DEF C2Handshake, C2HardHandshake, C2ReconnectHandshake
    <2>2. /\ cPc = from /\ UNCHANGED <<cLink, backlog>>
          /\ \/ \E result \in {"more", "ok", "error"} :
                    /\ SslHandshake(cLink, "c", CConf(cOpt), cSaved, result)
                    /\ cPc' = CASE result = "more" -> from [] result = "ok" -> to [] OTHER -> "exit"
             \/ UNCHANGED <<links, ssl, hello, refused>> /\ cPc' = "exit"
      BY <2>1, Client2Shakes
    <2>3. cLink \in 1..Len(links)
      BY <1>1, <2>1, <2>2 DEF CPcOK, CUnlinked
    <2>4. cPc' \in {"handshake", "hard_handshake", "reconnect_handshake", "session", "send", "exit"}
      BY <2>1, <2>2
    <2>5. WireOK' /\ EndsOK' /\ ssl'["s"] = ssl["s"]
      <3>1. CASE \E result \in {"more", "ok", "error"} :
                    SslHandshake(cLink, "c", CConf(cOpt), cSaved, result)
        BY <2>2, <2>3, <3>1, HandshakeWire DEF Side, Peer
      <3>2. CASE UNCHANGED <<links, ssl, hello, refused>>
        BY <1>1, <2>2, <3>2, WireSame
      <3> QED
        BY <2>2, <3>1, <3>2
    <2> QED
      BY <1>0, <2>2, <2>3, <2>4, <2>5 DEF CPcOK, CUnlinked
  <1>7. CASE C2Renegotiate \/ C2Send \/ C2Read \/ C2Close
    <2>1. /\ cPc \in {"renegotiate", "renegotiating", "send", "read", "close"}
          /\ UNCHANGED <<cLink, backlog, ssl>>
      BY <1>7 DEF C2Renegotiate, C2Send, C2Read, CReadAt, C2Close, CGoto, wireRest, cRest2, cRest
    <2>2. cPc' \in {"renegotiate", "renegotiating", "send", "read", "close", "hard", "reconnect", "exit"}
      BY <1>7 DEF C2Renegotiate, C2Send, C2Read, CReadAt, C2Close, CGoto
    <2>3. cLink \in 1..Len(links)
      BY <1>1, <2>1 DEF CPcOK, CUnlinked
    <2>4. Rec("rehello", 0) \in Record /\ Rec("close", 0) \in Record
      BY PlainRecords
    <2>5. \/ \E r \in Record, result \in {"ok", "error"} : SslWrite(cLink, "c", r, result)
          \/ \E result : SslRead(cLink, "c", result)
          \/ \E b : SslReadControl(cLink, "c", b)
          \/ "c" = "c" /\ \E result \in {"ok", "error"} : SslRenegotiated(cLink, result)
          \/ UNCHANGED links
      <3>1. CASE C2Read
        BY <3>1, Zenon DEF C2Read, CReadAt, CTimedOut, SslTimeout
      <3>2. CASE C2Close
        BY <2>4, <3>2, Zenon DEF C2Close
      <3>3. CASE C2Renegotiate
        <4>1. UNCHANGED <<cTry, links>> => UNCHANGED links
          OBVIOUS
        <4> QED
          BY <2>4, <3>3, <4>1, Zenon DEF C2Renegotiate, CTimedOut, SslTimeout
      <3>4. CASE C2Send
        <4>2. PICK n : n = Min({RequestLen - cWritten, cOpt.max_frag_len})
          OBVIOUS
        <4>3. PICK r \in Record : r = Data(n, cWritten + n \in Newlines)
          BY <4>2, RequestPiece
        <4>4. UNCHANGED <<cWritten, cTry, links>> => UNCHANGED links
          OBVIOUS
        <4>5. \/ UNCHANGED links
              \/ SslWrite(cLink, "c", r, "ok") \/ SslWrite(cLink, "c", r, "error")
          BY <3>4, <4>2, <4>3, <4>4, Zenon DEF C2Send
        <4> QED
          BY <4>5
      <3> QED
        BY <1>7, <3>1, <3>2, <3>3, <3>4
    <2>6. WireOK' /\ EndsOK'
      BY <2>1, <2>3, <2>5, CallWire, Zenon DEF Side
    <2> QED
      BY <1>0, <2>1, <2>2, <2>3, <2>6 DEF CPcOK, CUnlinked
  <1>8. CASE C2Reconnect
    <2>1. CASE UNCHANGED <<cLink, links, ssl, backlog>> /\ cPc' = "exit"
      BY <1>0, <1>1, <2>1, WireSame DEF CPcOK, CUnlinked
    <2>2. CASE /\ CNetFree /\ ssl' = [ssl EXCEPT !["c"] = "start"] /\ backlog' = backlog
               /\ cPc' \in {"reconnect_connect", "exit"}
      <3>1. DOMAIN ssl' = Side /\ ssl'["s"] = ssl["s"] /\ ssl'["c"] = "start"
        BY <1>1, <2>2 DEF Side
      <3>2. WireOK' /\ EndsOK' /\ cLink' = 0
        BY <2>2, <3>1, WireFree
      <3> QED
        BY <1>0, <2>2, <3>1, <3>2 DEF CPcOK, CUnlinked
    <2> QED
      BY <1>8, <2>1, <2>2 DEF C2Reconnect, CGoto
  <1>9. CASE C2Exit
    <2>1. CNetFree /\ UNCHANGED <<backlog, ssl>> /\ cPc' = "done"
      BY <1>9 DEF C2Exit, CGoto, wireRest
    <2>2. WireOK' /\ EndsOK'
      BY <1>1, <2>1, WireFree
    <2> QED
      BY <1>0, <2>1, <2>2 DEF CPcOK, CUnlinked
  <1> QED
    BY <1>2, <1>3, <1>4, <1>5, <1>6, <1>7, <1>8, <1>9 DEF Client2, C2Prepares
------------------------------------------------------------------------------
(* The connections are in order.                                           *)

\* Another client that connects.
LEMMA StrayWire ==
    ASSUME WireOK, EndsOK, Stray, UNCHANGED <<cLink, sLink>>
    PROVE  /\ WireOK' /\ EndsOK'
           /\ \A l \in 1..Len(links) : links'[l] = links[l]
           /\ Len(links') = Len(links) + 1
           /\ links'[Len(links) + 1].sent["c"] = <<>>
  <1>1. PICK k : k = NewLink
    OBVIOUS
  <1>2. k \in Link /\ k.open = {"c", "s"} /\ k.up /\ k.sent["c"] = <<>>
    BY <1>1, EmptyQueue DEF NewLink, NoQueues, Link, Side
  <1>3. links' = Append(links, k) /\ backlog' = Append(backlog, Len(links) + 1) /\ ssl' = ssl
    BY <1>1 DEF Stray
  <1>4. /\ WireOK' /\ EndsOK' /\ Len(links') = Len(links) + 1 /\ links'[Len(links) + 1] = k
        /\ \A l \in 1..Len(links) : links'[l] = links[l]
    BY <1>2, <1>3, WireConnect
  <1> QED
    BY <1>2, <1>4

\* It leaves.
LEMMA StrayLeavesWire ==
    ASSUME WireOK, EndsOK, StrayLeaves, UNCHANGED <<cLink, sLink>>
    PROVE  /\ WireOK' /\ EndsOK' /\ Len(links') = Len(links)
           /\ UNCHANGED backlog
           /\ cLink # 0 => links'[cLink] = links[cLink]
           /\ \A l \in 1..Len(links) : \/ links'[l].sent["c"] = <<>>
                                       \/ links'[l].sent["c"] = links[l].sent["c"]
  <1>1. PICK b \in DOMAIN links \ {cLink} : links' = [links EXCEPT ![b] = Shut(@, "c")]
    BY Zenon DEF StrayLeaves
  <1>2. UNCHANGED <<backlog, ssl>>
    BY DEF StrayLeaves
  <1>3. b \in 1..Len(links) /\ b # cLink /\ links \in Seq(Link) /\ "c" \in Side
    BY <1>1 DEF WireOK, Side
  <1>4. Closes(b, "c")
    BY <1>1, <1>3, LinkSteps, Zenon
  <1>5. DOMAIN links = 1..Len(links) /\ DOMAIN links' = 1..Len(links')
    BY <1>3, <1>4 DEF Closes
  <1>6. WireOK'
    BY <1>2, <1>4 DEF WireOK, Closes
  <1>7. ASSUME NEW m \in DOMAIN links', ~links'[m].up
        PROVE  links'[m].sent["c"] = <<>> /\ links'[m].sent["s"] = <<>>
    BY <1>4, <1>5, <1>7 DEF EndsOK, Closes, Peer
  <1>8. \A l : (Held(l)' <=> Held(l)) /\ (Waiting(l)' <=> Waiting(l))
    BY <1>2 DEF Held, Waiting
  <1>9. \A l \in 1..Len(links) : "s" \in links[l].open => "s" \in links'[l].open
    BY <1>4 DEF Closes
  <1>10. cLink # 0 => cLink \in 1..Len(links) /\ links'[cLink] = links[cLink]
    BY <1>3, <1>4 DEF Closes, WireOK
  <1>11. ~Waiting(sLink)'
    BY <1>2 DEF Waiting, EndsOK
  <1>12. EndsOK'
    BY <1>4, <1>5, <1>7, <1>8, <1>9, <1>10, <1>11 DEF EndsOK, Closes
  <1>13. \A l \in 1..Len(links) : \/ links'[l].sent["c"] = <<>>
                                  \/ links'[l].sent["c"] = links[l].sent["c"]
    BY <1>4 DEF Closes
  <1> QED
    BY <1>2, <1>4, <1>6, <1>10, <1>12, <1>13 DEF Closes

\* Every step keeps the connections in order.
LEMMA NextWire ==
    ASSUME WireInv, OptInv, WrittenInv, [Next]_vars
    PROVE  WireInv'
  <1> USE DEF WireInv
  <1>1. CASE Client
    <2>1. /\ Client1 \/ Client2
          /\ UNCHANGED <<sProg, sPc, sLink>>
      BY <1>1 DEF Client, sAll, sVars1
    <2> QED
      BY <2>1, Client1Wire, Client2Wire
  <1>2. CASE Server
    <2>1. /\ \/ sProg = "ssl_server" /\ Server1
             \/ sProg = "ssl_server2" /\ Server2
          /\ UNCHANGED <<sProg, cPc, cLink>>
      BY <1>2 DEF Server, cAll, cVars1
    <2> QED
      BY <2>1, Server1Wire, Server2Wire
  <1>3. CASE Network
    <2>0. ssl' = ssl
      <3>1. UNCHANGED <<backlog, listening, ssl, hello, refused>> \/ UNCHANGED <<listening, ssl, hello, refused>>
        BY <1>3, Zenon DEF Network, Break, Stray, StrayLeaves
      <3> QED
        BY <3>1
    <2>1. UNCHANGED <<cPc, cLink, sProg, sPc, sLink, ssl>>
      BY <1>3, <2>0 DEF Network, cAll, cVars1, sAll, sVars1
    <2>2. CPcOK' /\ SPcOK'
      BY <2>1 DEF CPcOK, SPcOK
    <2>3. WireOK' /\ EndsOK'
      BY <1>3, <2>1, WireBreak, StrayWire, StrayLeavesWire DEF Network
    <2> QED
      BY <2>2, <2>3
  <1>4. CASE Quiet \/ UNCHANGED vars
    <2>1. UNCHANGED <<links, backlog, cPc, cLink, sProg, sPc, sLink, ssl>>
      BY <1>4 DEF Quiet, vars, cAll, cVars1, sAll, sVars1, wire
    <2>2. CPcOK' /\ SPcOK'
      BY <2>1 DEF CPcOK, SPcOK
    <2>3. WireOK' /\ EndsOK'
      BY <2>1, WireSame DEF WireOK
    <2> QED
      BY <2>2, <2>3
  <1> QED
    BY <1>1, <1>2, <1>3, <1>4 DEF Next
------------------------------------------------------------------------------
(* The options stay in order.                                              *)

\* A forced ciphersuite narrows the versions.
LEMMA ForceSuiteNarrows ==
    ASSUME NEW o, NEW defaults, OptionsOK(o, defaults),
           {"min_version", "max_version", "force_ciphersuite", "arc4"} \subseteq DOMAIN defaults
    PROVE  LET f == ForceSuite(o)
           IN  /\ OptionsOK(f.o, defaults)
               /\ \A k \in Sizes(defaults) : f.o[k] = o[k]
               /\ f.ret = 0 => Narrowed(f.o)
  <1>1. CASE o.force_ciphersuite = ""
    <2>1. ForceSuite(o) = [o |-> o, ret |-> 0]
      BY <1>1, Zenon DEF ForceSuite
    <2>2. ForceSuite(o).o = o
      BY <2>1
    <2>3. Narrowed(o)
      BY <1>1, Zenon DEF Narrowed
    <2> QED
      BY <2>2, <2>3
  <1>2. CASE o.force_ciphersuite # ""
    <2>1. PICK lo, hi, rc4 : /\ lo = Suites[o.force_ciphersuite].min /\ hi = Suites[o.force_ciphersuite].max
                             /\ rc4 = Suites[o.force_ciphersuite].rc4
      OBVIOUS
    <2>2. lo \in 0..3 /\ hi \in 0..3 /\ lo <= hi
      <3>0. \A x : x \in SuiteNames /\ x # "" => x \in DOMAIN Suites
        BY Zenon DEF SuiteNames
      <3>1. o.force_ciphersuite \in DOMAIN Suites
        BY <1>2, <3>0, Zenon DEF OptionsOK
      <3> QED
        BY <2>1, <3>1, WireAssumption
    <2>3. PICK a \in Versions, b \in Versions : a = o.min_version /\ b = o.max_version
      BY DEF OptionsOK
    <2> DEFINE clash == \/ o.max_version # -1 /\ lo > o.max_version
                        \/ o.min_version # -1 /\ hi < o.min_version
    <2>4. CASE clash \/ (rc4 /\ o.arc4 = 0)
      <3>1. ForceSuite(o) = [o |-> o, ret |-> 2]
        BY <1>2, <2>1, <2>4, Zenon DEF ForceSuite
      <3>2. ForceSuite(o).o = o /\ ForceSuite(o).ret = 2
        BY <3>1
      <3> QED
        BY <3>2
    <2>5. CASE ~(clash \/ (rc4 /\ o.arc4 = 0))
      <3> DEFINE max == IF o.max_version = -1 \/ o.max_version > hi THEN hi ELSE o.max_version
                 min == IF o.min_version >= lo THEN o.min_version
                        ELSE IF o.transport = 1 /\ lo < 2 THEN 2 ELSE lo
      <3>1. ForceSuite(o) = [o |-> [o EXCEPT !.max_version = max, !.min_version = min,
                                             !.arc4 = IF rc4 THEN 1 ELSE @],
                             ret |-> 0]
        BY <1>2, <2>1, <2>5, Zenon DEF ForceSuite
      <3>0. (b # -1 => ~(lo > b)) /\ (a # -1 => ~(hi < a))
        BY <2>3, <2>5, Zenon
      <3>2. PICK m \in Versions : m = max /\ lo <= m /\ m <= hi
        <4>1. max = IF b = -1 \/ b > hi THEN hi ELSE b
          BY <2>3, Zenon
        <4> HIDE DEF max
        <4> QED
          BY <2>2, <3>0, <4>1 DEF Versions
      <3>3. PICK n \in Versions : n = min
        <4>1. min = a \/ min = 2 \/ min = lo
          BY <2>3, Zenon
        <4> HIDE DEF min
        <4> QED
          BY <2>2, <4>1 DEF Versions
      <3>4. PICK c : c = (IF rc4 THEN 1 ELSE o.arc4) /\ (rc4 => c = 1)
        BY Zenon
      <3> HIDE DEF max, min, clash
      <3>5. PICK o1 : o1 = [o EXCEPT !.max_version = m]
        OBVIOUS
      <3>6. PICK o2 : o2 = [o1 EXCEPT !.min_version = n]
        OBVIOUS
      <3>7. PICK o3 : o3 = [o2 EXCEPT !.arc4 = c]
        OBVIOUS
      <3>8. Assigned(o1, o, "max_version", m) /\ Assigned(o2, o1, "min_version", n) /\ Assigned(o3, o2, "arc4", c)
        BY <3>5, <3>6, <3>7 DEF Assigned
      <3>9. [o EXCEPT !.max_version = max, !.min_version = min, !.arc4 = IF rc4 THEN 1 ELSE @] = o3
        <4>1. o2.arc4 = o.arc4
          BY <3>8 DEF Assigned, OptionsOK
        <4> QED
          BY <3>2, <3>3, <3>4, <3>5, <3>6, <3>7, <4>1
      <3>10. OptionsOK(o1, defaults)
             /\ \A k \in Sizes(defaults) : o1[k] = o[k]
        BY <3>8, OptionSet DEF Sizes
      <3>11. OptionsOK(o2, defaults)
             /\ \A k \in Sizes(defaults) : o2[k] = o[k]
        BY <3>8, <3>10, OptionSet DEF Sizes
      <3>12. OptionsOK(o3, defaults)
             /\ \A k \in Sizes(defaults) : o3[k] = o[k]
        BY <3>8, <3>11, OptionSet DEF Sizes
      <3>13. o3.force_ciphersuite = o.force_ciphersuite /\ o3.max_version = m /\ o3.arc4 = c
        BY <3>8 DEF Assigned, OptionsOK
      <3>14. Narrowed(o3)
        BY <2>1, <3>2, <3>4, <3>13, Zenon DEF Narrowed
      <3>15. ForceSuite(o) = [o |-> o3, ret |-> 0]
        BY <3>1, <3>9, Zenon
      <3>16. ForceSuite(o).o = o3
        BY <3>15
      <3> QED
        BY <3>12, <3>14, <3>16
    <2> QED
      BY <2>4, <2>5
  <1> QED
    BY <1>1, <1>2, Zenon

\* p has the versions, the ciphersuite and the lengths of the request and its records of o.
Keeps(p, o) ==
    \A k \in {"min_version", "max_version", "force_ciphersuite", "arc4", "auth_mode",
              "renegotiation", "request_size", "max_frag_len"} : p[k] = o[k]

\* The options that both programs have.
LEMMA DefaultOptions ==
    /\ {"min_version", "max_version", "force_ciphersuite", "arc4", "auth_mode", "renegotiation",
        "request_size", "max_frag_len"} \subseteq DOMAIN CDefaults
    /\ {"min_version", "max_version", "force_ciphersuite", "arc4"} \subseteq DOMAIN SDefaults
    /\ OptionsOK(CDefaults, CDefaults) /\ CDefaults.request_size = -1
    /\ CDefaults.max_frag_len = MaxContent
    /\ OptionsOK(SDefaults, SDefaults)
  <1>1. DOMAIN CDefaults = {"nbio", "read_timeout", "request_size", "psk", "force_ciphersuite",
            "renegotiation", "renegotiate", "exchanges", "min_version", "max_version", "arc4",
            "auth_mode", "reconnect", "reconnect_hard", "curves", "transport", "max_frag_len"}
    BY DEF CDefaults
  <1>2. /\ CDefaults["min_version"] = -1 /\ CDefaults["max_version"] = -1
        /\ CDefaults["force_ciphersuite"] = "" /\ CDefaults.request_size = -1
        /\ CDefaults.max_frag_len = MaxContent
    BY DEF CDefaults
  <1>3. DOMAIN SDefaults = {"nbio", "read_timeout", "psk", "psk_list", "server_addr", "crt_file",
            "key_file", "crt_file2", "key_file2", "force_ciphersuite", "version_suites",
            "renegotiation", "renegotiate", "exchanges", "min_version", "max_version", "arc4",
            "auth_mode", "curves", "transport"}
    BY DEF SDefaults
  <1>4. /\ SDefaults["min_version"] = -1 /\ SDefaults["max_version"] = -1
        /\ SDefaults["force_ciphersuite"] = ""
    BY DEF SDefaults
  <1>5. -1 \in Versions
    BY DEF Versions
  <1>6. "" \in SuiteNames
    BY Zenon DEF SuiteNames
  <1>7. OptionsOK(CDefaults, CDefaults) /\ OptionsOK(SDefaults, SDefaults)
    BY <1>2, <1>4, <1>5, <1>6, Zenon DEF OptionsOK
  <1> QED
    BY <1>1, <1>2, <1>3, <1>7, Zenon

\* ssl_client2 changes its options only while it starts, but for its counters.
LEMMA Client2Options ==
    ASSUME OptInv, Client2
    PROVE  /\ OptionsOK(cOpt', CDefaults)
           /\ cOpt'.request_size \in Int /\ cOpt'.max_frag_len \in 1..MaxContent
           /\ cPc \notin Starting => Keeps(cOpt', cOpt) /\ cPc' \notin Starting
           /\ cPc \in Starting => C2Prepares
           /\ cPc \in Starting /\ cPc' \notin Starting \cup {"exit"} => Narrowed(cOpt')
  <1>0. /\ OptionsOK(cOpt, CDefaults)
        /\ cOpt.request_size \in Int /\ cOpt.max_frag_len \in 1..MaxContent
    BY DEF OptInv
  <1>1. /\ {"min_version", "max_version", "force_ciphersuite"} \subseteq DOMAIN CDefaults
        /\ {"min_version", "max_version", "force_ciphersuite", "arc4"} \subseteq DOMAIN CDefaults
        /\ Sizes(CDefaults) = {"request_size", "max_frag_len"} /\ DOMAIN cOpt = DOMAIN CDefaults
        /\ {"min_version", "max_version", "force_ciphersuite", "arc4", "auth_mode", "renegotiation",
            "request_size", "max_frag_len"} \subseteq DOMAIN CDefaults
    BY <1>0, DefaultOptions DEF OptionsOK, Sizes
  <1>2. CASE cOpt' = cOpt /\ cPc \notin Starting /\ cPc' \notin Starting
    BY <1>0, <1>2 DEF Keeps
  <1>3. ASSUME NEW k \in {"reconnect_hard", "exchanges", "reconnect"}, NEW v, Assigned(cOpt', cOpt, k, v),
               cPc \notin Starting /\ cPc' \notin Starting
        PROVE  /\ OptionsOK(cOpt', CDefaults)
               /\ cOpt'.request_size \in Int /\ cOpt'.max_frag_len \in 1..MaxContent
               /\ Keeps(cOpt', cOpt)
    <2>1. /\ OptionsOK(cOpt', CDefaults)
          /\ cOpt'["request_size"] = cOpt["request_size"] /\ cOpt'["max_frag_len"] = cOpt["max_frag_len"]
      BY <1>0, <1>1, <1>3, OptionSet
    <2>2. Keeps(cOpt', cOpt)
      BY <1>1, <1>3 DEF Keeps, Assigned
    <2> QED
      BY <1>0, <2>1, <2>2
  <1>4. CASE C2Begin
    <2>1. cOpt' = cOpt /\ cPc' \in {"options", "exit"} /\ cPc = "begin"
      BY <1>4 DEF C2Begin, CGoto
    <2> QED
      BY <1>0, <1>4, <2>1 DEF Starting, C2Prepares
  <1>5. CASE C2Options
    <2>1. /\ cPc = "options"
          /\ \/ cOpt' = cOpt /\ cPc' = "suite"
             \/ cOpt' = ParseArg(CAccepts, cOpt, Head(cArgv)) /\ cPc' \in {"options", "exit"}
      BY <1>5 DEF C2Options, CGoto
    <2>2. CASE cOpt' = cOpt /\ cPc' = "suite"
      BY <1>0, <1>5, <2>1, <2>2 DEF Starting, C2Prepares
    <2>3. CASE cOpt' = ParseArg(CAccepts, cOpt, Head(cArgv)) /\ cPc' \in {"options", "exit"}
      <3>1. /\ OptionsOK(cOpt', CDefaults)
            /\ \A f \in Sizes(CDefaults) : cOpt'[f] = cOpt[f] \/ cOpt'[f] \in CAccepts[f]
        BY <1>0, <1>1, <2>3, CAcceptedValues, ParseArgOK, Zenon
      <3>2. CAccepts["request_size"] = 0..MaxRequest /\ CAccepts["max_frag_len"] \subseteq 1..MaxContent
        BY CAcceptedValues, OptionsAssumption
      <3>3. /\ cOpt'["request_size"] = cOpt["request_size"] \/ cOpt'["request_size"] \in 0..MaxRequest
            /\ cOpt'["max_frag_len"] = cOpt["max_frag_len"] \/ cOpt'["max_frag_len"] \in 1..MaxContent
        BY <1>1, <3>1, <3>2, Zenon
      <3>4. cOpt'["request_size"] \in Int /\ cOpt'["max_frag_len"] \in 1..MaxContent
        BY <1>0, <3>3
      <3> QED
        BY <1>5, <2>1, <2>3, <3>1, <3>4 DEF Starting, C2Prepares
    <2> QED
      BY <2>1, <2>2, <2>3
  <1>6. CASE C2ForceSuite
    <2>1. PICK f : f = ForceSuite(cOpt)
      OBVIOUS
    <2>2. /\ cPc = "suite" /\ cOpt' = f.o
          /\ cPc' = IF f.ret = 0 THEN "psk" ELSE "exit"
      BY <1>6, <2>1, Zenon DEF C2ForceSuite, CForceSuite, CGoto
    <2>3. /\ OptionsOK(cOpt', CDefaults)
          /\ \A k \in Sizes(CDefaults) : cOpt'[k] = cOpt[k]
          /\ f.ret = 0 => Narrowed(cOpt')
      BY <1>0, <1>1, <2>1, <2>2, ForceSuiteNarrows, Zenon
    <2>4. cPc' # "exit" => Narrowed(cOpt')
      BY <2>2, <2>3, Zenon
    <2>5. cOpt'.request_size \in Int /\ cOpt'.max_frag_len \in 1..MaxContent
      BY <1>0, <1>1, <2>3
    <2> QED
      BY <1>6, <2>2, <2>3, <2>4, <2>5 DEF Starting, C2Prepares
  <1>7. CASE C2Psk \/ C2Curves \/ C2Seed \/ C2LoadCa \/ C2LoadCert \/ C2Connect
    BY <1>2, <1>7 DEF C2Psk, C2Curves, C2Seed, C2LoadCa, C2LoadCert, C2Connect, CConnectAt, CNetConnect,
                      CGoto, CCall, cVars2, Starting
  <1>8. CASE C2Config \/ C2Setup \/ C2Want \/ C2Session \/ C2Close \/ C2ReconnectConnect \/ C2Exit
    BY <1>2, <1>8 DEF C2Config, C2Setup, C2Want, C2Session, C2Close, C2ReconnectConnect, C2Exit,
                      CConnectAt, CNetConnect, CGoto, CCall, cVars1, cVars2, Starting, CHandshakes
  <1>9. CASE C2Handshake \/ C2HardHandshake \/ C2ReconnectHandshake
    <2>1. PICK from, to : /\ CHandshakeAt(from, to)
                          /\ from \in {"handshake", "hard_handshake", "reconnect_handshake"}
                          /\ to \in {"session", "send"}
      BY <1>9 DEF C2Handshake, C2HardHandshake, C2ReconnectHandshake
    <2>2. cOpt' = cOpt /\ cPc = from /\ cPc' \in {from, to, "exit"}
      BY <2>1, Client2Shakes
    <2> QED
      BY <1>2, <2>1, <2>2 DEF Starting
  <1>10. CASE C2Renegotiate \/ C2Send \/ C2Read
    BY <1>2, <1>10 DEF C2Renegotiate, C2Send, C2Read, CReadAt, CGoto, Starting
  <1>11. CASE C2Hard
    <2>1. /\ cPc = "hard" /\ cPc' \in {"again", "hard_handshake", "exit"}
          /\ cOpt' = cOpt \/ cOpt' = [cOpt EXCEPT !.reconnect_hard = 0]
      BY <1>11 DEF C2Hard, CGoto
    <2>2. cOpt' = [cOpt EXCEPT !.reconnect_hard = 0] => Assigned(cOpt', cOpt, "reconnect_hard", 0)
      BY DEF Assigned
    <2> QED
      BY <1>2, <1>3, <2>1, <2>2 DEF Starting
  <1>12. CASE C2Again
    <2>1. /\ cPc = "again" /\ cPc' \in {"send", "close"}
          /\ cOpt' = [cOpt EXCEPT !.exchanges = @ - 1]
      BY <1>12, Zenon DEF C2Again, CGoto
    <2>2. PICK v : cOpt' = [cOpt EXCEPT !.exchanges = v]
      BY <2>1, Zenon
    <2>3. Assigned(cOpt', cOpt, "exchanges", v)
      BY <2>2 DEF Assigned
    <2> QED
      BY <1>3, <2>1, <2>3 DEF Starting
  <1>13. CASE C2Reconnect
    <2>1. /\ cPc = "reconnect" /\ cPc' \in {"reconnect_connect", "exit"}
          /\ cOpt' = cOpt \/ cOpt' = [cOpt EXCEPT !.reconnect = @ - 1]
      BY <1>13 DEF C2Reconnect, CGoto
    <2>2. CASE cOpt' = [cOpt EXCEPT !.reconnect = @ - 1]
      <3>1. PICK v : cOpt' = [cOpt EXCEPT !.reconnect = v]
        BY <2>2, Zenon
      <3>2. Assigned(cOpt', cOpt, "reconnect", v)
        BY <3>1 DEF Assigned
      <3> QED
        BY <1>3, <2>1, <3>2 DEF Starting
    <2> QED
      BY <1>2, <2>1, <2>2 DEF Starting
  <1> QED
    BY <1>4, <1>5, <1>6, <1>7, <1>8, <1>9, <1>10, <1>11, <1>12, <1>13 DEF Client2

\* ssl_server2 changes its options only while it starts.
LEMMA Server2Options ==
    ASSUME OptInv, Server2
    PROVE  /\ OptionsOK(sOpt', SDefaults) /\ sWritten' \in Int
           /\ sPc \notin Starting => sOpt' = sOpt /\ sPc' \notin Starting
           /\ sPc \in Starting => S2Prepares
           /\ sPc \in Starting /\ sPc' \notin Starting \cup {"exit"} => Narrowed(sOpt')
  <1>0. OptionsOK(sOpt, SDefaults) /\ sWritten \in Int
    BY DEF OptInv
  <1>1. /\ {"min_version", "max_version", "force_ciphersuite"} \subseteq DOMAIN SDefaults
        /\ {"min_version", "max_version", "force_ciphersuite", "arc4"} \subseteq DOMAIN SDefaults
    BY DefaultOptions
  <1>2. CASE sOpt' = sOpt /\ sWritten' = sWritten /\ sPc \notin Starting /\ sPc' \notin Starting
    BY <1>0, <1>2
  <1>3. CASE S2Begin
    <2>1. sOpt' = sOpt /\ sWritten' = sWritten /\ sPc' \in {"options", "exit"} /\ sPc = "begin"
      BY <1>3 DEF S2Begin, SGoto, sIdle
    <2> QED
      BY <1>0, <1>3, <2>1 DEF Starting, S2Prepares
  <1>4. CASE S2Options
    <2>1. /\ sPc = "options" /\ sWritten' = sWritten
          /\ \/ sOpt' = sOpt /\ sPc' = "suite"
             \/ sOpt' = ParseArg(SAccepts, sOpt, Head(sArgv)) /\ sPc' \in {"options", "exit"}
      BY <1>4 DEF S2Options, SGoto, sIdle
    <2>2. CASE sOpt' = sOpt /\ sPc' = "suite"
      BY <1>0, <1>4, <2>1, <2>2 DEF Starting, S2Prepares
    <2>3. CASE sOpt' = ParseArg(SAccepts, sOpt, Head(sArgv)) /\ sPc' \in {"options", "exit"}
      <3>1. OptionsOK(sOpt', SDefaults)
        BY <1>0, <1>1, <2>3, SAcceptedValues, ParseArgOK, Zenon
      <3> QED
        BY <1>0, <1>4, <2>1, <2>3, <3>1 DEF Starting, S2Prepares
    <2> QED
      BY <2>1, <2>2, <2>3
  <1>5. CASE S2ForceSuite
    <2>1. PICK f : f = ForceSuite(sOpt)
      OBVIOUS
    <2>2. /\ sPc = "suite" /\ sOpt' = f.o
          /\ sPc' = IF f.ret = 0 THEN "version_suites" ELSE "exit"
      BY <1>5, <2>1, Zenon DEF S2ForceSuite, SForceSuite, SGoto
    <2>3. OptionsOK(sOpt', SDefaults) /\ (f.ret = 0 => Narrowed(sOpt'))
      BY <1>0, <1>1, <2>1, <2>2, ForceSuiteNarrows, Zenon
    <2>4. sPc' # "exit" => Narrowed(sOpt')
      BY <2>2, <2>3, Zenon
    <2>5. sWritten' = sWritten
      BY <1>5 DEF S2ForceSuite, sIdle
    <2> QED
      BY <1>0, <1>5, <2>2, <2>3, <2>4, <2>5 DEF Starting, S2Prepares
  <1>6. CASE S2VersionSuites \/ S2Psk \/ S2Curves \/ S2Seed \/ S2LoadCa \/ S2LoadCert \/ S2Bind \/ S2Config \/ S2Setup
    <2>1. sOpt' = sOpt
      <3>1. CASE S2LoadCert \/ S2Bind
        <4>1. UNCHANGED <<sRest2, sOpt, sIdle, wire>> \/ UNCHANGED <<sRest2, sOpt, sIdle>>
          BY <3>1, Zenon DEF S2LoadCert, S2Bind
        <4> QED
          BY <4>1
      <3>2. CASE S2VersionSuites \/ S2Psk \/ S2Curves \/ S2Seed \/ S2LoadCa \/ S2Config \/ S2Setup
        BY <3>2 DEF S2VersionSuites, S2Psk, S2Curves, S2Seed, S2LoadCa, S2Config, S2Setup, sVars2
      <3> QED
        BY <1>6, <3>1, <3>2
    <2>2. sPc \in {"version_suites", "psk", "curves", "seed", "ca", "cert", "bind", "config", "setup"}
      <3>1. CASE S2LoadCert \/ S2Bind
        BY <3>1, Zenon DEF S2LoadCert, S2Bind, SNetBind, SGoto, SCall
      <3>2. CASE S2VersionSuites \/ S2Psk \/ S2Curves \/ S2Seed \/ S2LoadCa \/ S2Config \/ S2Setup
        BY <3>2 DEF S2VersionSuites, S2Psk, S2Curves, S2Seed, S2LoadCa, S2Config, S2Setup, SGoto, SCall
      <3> QED
        BY <1>6, <3>1, <3>2
    <2>3. sPc' \in {"psk", "curves", "seed", "ca", "cert", "bind", "config", "setup", "reset", "exit"}
      <3>1. CASE S2LoadCert \/ S2Bind
        BY <3>1, Zenon DEF S2LoadCert, S2Bind, SNetBind, SGoto, SCall
      <3>2. CASE S2VersionSuites \/ S2Psk \/ S2Curves \/ S2Seed \/ S2LoadCa \/ S2Config \/ S2Setup
        BY <3>2 DEF S2VersionSuites, S2Psk, S2Curves, S2Seed, S2LoadCa, S2Config, S2Setup, SGoto, SCall
      <3> QED
        BY <1>6, <3>1, <3>2
    <2>4. sWritten' = sWritten
      BY <1>6, Server2Prepares DEF S2Prepares
    <2> QED
      BY <1>2, <2>1, <2>2, <2>3, <2>4 DEF Starting
  <1>7. CASE S2Reset \/ S2Accept \/ S2Want
    BY <1>2, <1>7 DEF S2Reset, S2Accept, SReset, SNetAccept, S2Want, SGoto, sVars1, sVars2, Starting
  <1>8. CASE S2Handshake
    <2>1. UNCHANGED <<sOpt, sWritten>> /\ sPc = "handshake"
      BY <1>8 DEF S2Handshake
    <2>2. sPc' \in {"handshake", "reset", "close_notify", "read"}
      BY <1>8 DEF S2Handshake, SGoto
    <2> QED
      BY <1>2, <2>1, <2>2 DEF Starting
  <1>9. CASE S2Read \/ S2Renegotiate \/ S2Close \/ S2Exit
    BY <1>2, <1>9 DEF S2Read, SReadAt, S2Renegotiate, S2Close, S2Exit, SGoto, sIdle, Starting
  <1>10. CASE S2Write
    <2>1. PICK n : n = Min({ResponseLen - sWritten, MaxContent})
      OBVIOUS
    <2>2. n \in Int
      <3>1. ResponseLen \in Int
        BY ResponseAssumption
      <3> QED
        BY <1>0, <2>1, <3>1, PieceRecord, Zenon
    <2>3. /\ sPc = "write" /\ sPc' \in {"write", "read", "close_notify", "reset"}
          /\ sWritten' = 0 \/ sWritten' = sWritten + n
      BY <1>10, <2>1 DEF S2Write, SGoto
    <2>4. sOpt' = sOpt
      BY <1>10 DEF S2Write
    <2> QED
      BY <1>0, <2>2, <2>3, <2>4 DEF Starting
  <1> QED
    BY <1>3, <1>4, <1>5, <1>6, <1>7, <1>8, <1>9, <1>10 DEF Server2

\* What a handshake does to the last ClientHello.
LEMMA HelloStep ==
    ASSUME NEW l, NEW x \in Side, NEW conf, NEW resume, NEW result,
           \/ \E p \in Script : Follows(p, l, x, conf, resume, result)
           \/ Fails(l, x, conf, result)
    PROVE  hello' = hello \/ (x = "c" /\ hello' = Offer(conf, resume))
  <1>1. \A p \in Script : p[4] = "hello" /\ p[3] = "!" => p[1] = "c"
    BY DEF Script
  <1> QED
    BY <1>1, Zenon DEF Follows, Fails

\* A client changes it in a handshake only, a server never does.
LEMMA ClientHello ==
    ASSUME WireInv, OptInv
    PROVE  /\ Client1 => hello' = hello \/ hello' = Offer(Conf1, FALSE)
           /\ Client2 => hello' = hello \/ (cPc \notin Starting /\ hello' = Offer(CConf(cOpt), cSaved))
  <1>1. DOMAIN ssl = Side /\ links \in Seq(Link) /\ cLink \in 0..Len(links) /\ Len(links) \in Nat
    BY DEF WireInv, WireOK
  <1>2. ASSUME NEW conf, NEW resume, NEW result, SslHandshake(cLink, "c", conf, resume, result),
               cPc \in {"handshake", "hard_handshake", "reconnect_handshake"}
        PROVE  hello' = hello \/ hello' = Offer(conf, resume)
    <2>1. cLink \in 1..Len(links)
      BY <1>1, <1>2 DEF WireInv, CPcOK, CUnlinked
    <2>2. \/ \E p \in Script : Follows(p, cLink, "c", conf, resume, result)
          \/ Fails(cLink, "c", conf, result)
      <3>1. "c" \in Side /\ "c" # "s"
        BY DEF Side
      <3> QED
        BY <1>1, <1>2, <2>1, <3>1, HandshakeStep, Zenon
    <2> QED
      BY <2>2, HelloStep DEF Side
  <1>3. ASSUME Client1 PROVE hello' = hello \/ hello' = Offer(Conf1, FALSE)
    <2>1. CASE C1Handshake
      <3>1. cPc = "handshake" /\ \E result : SslHandshake(cLink, "c", Conf1, FALSE, result)
        BY <2>1, Zenon DEF C1Handshake
      <3> QED
        BY <1>2, <3>1, Zenon
    <2>2. CASE C1Begin \/ C1LoadCa \/ C1Config \/ C1Connect
      BY <2>2 DEF C1Begin, C1LoadCa, C1Config, C1Connect, CNetConnect, wire
    <2>3. CASE C1Write \/ C1Read \/ C1Close \/ C1Exit
      BY <2>3 DEF C1Write, C1Read, C1Close, C1Exit, wireRest
    <2> QED
      BY <1>3, <2>1, <2>2, <2>3, Zenon DEF Client1
  <1>4. ASSUME Client2 PROVE hello' = hello \/ (cPc \notin Starting /\ hello' = Offer(CConf(cOpt), cSaved))
    <2>1. CASE C2Prepares
      BY <2>1, Client2Prepares
    <2>2. CASE C2Handshake \/ C2HardHandshake \/ C2ReconnectHandshake
      <3>1. PICK from, to : /\ CHandshakeAt(from, to)
                            /\ from \in {"handshake", "hard_handshake", "reconnect_handshake"}
        BY <2>2 DEF C2Handshake, C2HardHandshake, C2ReconnectHandshake
      <3>2. /\ cPc = from
            /\ \/ \E result : SslHandshake(cLink, "c", CConf(cOpt), cSaved, result)
               \/ hello' = hello
        BY <3>1, Client2Shakes
      <3> QED
        BY <1>2, <3>1, <3>2 DEF Starting
    <2>3. CASE C2Connect \/ C2Want \/ C2Session \/ C2Hard \/ C2Again \/ C2Reconnect \/ C2ReconnectConnect
      BY <2>3 DEF C2Connect, C2Want, C2Session, C2Hard, C2Again, C2Reconnect, C2ReconnectConnect,
                  CConnectAt, CNetConnect, wire
    <2>4. CASE C2Renegotiate \/ C2Send \/ C2Read \/ C2Close \/ C2Exit
      BY <2>4 DEF C2Renegotiate, C2Send, C2Read, CReadAt, C2Close, C2Exit, wireRest
    <2> QED
      BY <1>4, <2>1, <2>2, <2>3, <2>4 DEF Client2, C2Prepares
  <1> QED
    BY <1>3, <1>4

\* What a server leaves alone.
LEMMA ServerHello ==
    ASSUME WireInv, OptInv, Server1 \/ Server2
    PROVE  hello' = hello
  <1>1. /\ DOMAIN ssl = Side /\ links \in Seq(Link) /\ sLink \in 0..Len(links) /\ Len(links) \in Nat
        /\ "s" \in Side
    BY DEF WireInv, WireOK, Side
  <1>2. ASSUME NEW conf, NEW result, SslHandshake(sLink, "s", conf, FALSE, result),
               sPc = "handshake", Version(conf) \in Int
        PROVE  hello' = hello
    <2>1. sLink \in 1..Len(links)
      BY <1>1, <1>2 DEF WireInv, SPcOK, SLinked
    <2>2. \/ \E p \in Script : Follows(p, sLink, "s", conf, FALSE, result)
          \/ Fails(sLink, "s", conf, result)
      BY <1>1, <1>2, <2>1, HandshakeStep, Zenon
    <2> QED
      BY <1>1, <2>2, HelloStep
  <1>3. Version(SConf(sOpt)) \in Int /\ Version(SConf1) \in Int
    BY ConfiguredVersions
  <1>4. CASE S1Handshake
    <2>1. sPc = "handshake" /\ \E result : SslHandshake(sLink, "s", SConf1, FALSE, result)
      BY <1>4, Zenon DEF S1Handshake
    <2> QED
      BY <1>2, <1>3, <2>1
  <1>5. CASE S2Handshake
    <2>1. \/ sPc = "handshake" /\ \E result : SslHandshake(sLink, "s", SConf(sOpt), FALSE, result)
          \/ UNCHANGED <<sLeft, ssl, hello, refused>>
      BY <1>5, Zenon DEF S2Handshake
    <2> QED
      BY <1>2, <1>3, <2>1
  <1>6. CASE S1Begin \/ S1LoadCert \/ S1Bind \/ S1Seed \/ S1Config \/ S1Reset \/ S1Accept \/ S1Exit
    BY <1>6 DEF S1Begin, S1LoadCert, S1Bind, SNetBind, S1Seed, S1Config, S1Reset, SReset, S1Accept,
                SNetAccept, S1Exit, SNetFree, wire
  <1>7. CASE S1Read \/ S1Write \/ S1Close \/ S2Read \/ S2Renegotiate \/ S2Write \/ S2Close
    BY <1>7 DEF S1Read, S1Write, S1Close, S2Read, SReadAt, S2Renegotiate, S2Write, S2Close, sIo
  <1>8. CASE S2Prepares
    BY <1>8, Server2Prepares
  <1>9. CASE S2Reset \/ S2Accept \/ S2Want \/ S2Exit
    BY <1>9 DEF S2Reset, SReset, S2Accept, SNetAccept, S2Want, S2Exit, SNetFree, wire
  <1> QED
    BY <1>4, <1>5, <1>6, <1>7, <1>8, <1>9 DEF Server1, Server2, S2Prepares

\* ssl_client2 writes its request in one section only.
LEMMA Client2Writes ==
    ASSUME Client2
    PROVE  /\ C2Send \/ cWritten' = cWritten
           /\ cPc = "send" => C2Send \/ (C2Want /\ cPc' = cPc)
           /\ cPc \in {"exit", "done"} => cPc' = "done"
           /\ C2Send => cPc = "send" /\ cPc' \in {"send", "read", "exit"}
  <1>0. C2Send => cPc = "send"
    BY Zenon DEF C2Send
  <1>1. CASE C2Prepares
    BY <1>0, <1>1, Client2Prepares DEF CUnlinked
  <1>2. CASE C2Handshake \/ C2HardHandshake \/ C2ReconnectHandshake
    <2>1. PICK from, to : /\ CHandshakeAt(from, to)
                          /\ from \in {"handshake", "hard_handshake", "reconnect_handshake"}
      BY <1>2 DEF C2Handshake, C2HardHandshake, C2ReconnectHandshake
    <2>2. cPc = from /\ cWritten' = cWritten
      BY <2>1, Client2Shakes
    <2> QED
      BY <1>0, <2>1, <2>2
  <1>3. CASE C2Connect \/ C2Session \/ C2Hard \/ C2Again \/ C2Reconnect \/ C2ReconnectConnect
    <2>1. cPc \in {"connect", "session", "hard", "again", "reconnect", "reconnect_connect"} /\ cWritten' = cWritten
      BY <1>3 DEF C2Connect, C2Session, C2Hard, C2Again, C2Reconnect, C2ReconnectConnect,
                  CConnectAt, CNetConnect, CGoto, cVars2
    <2> QED
      BY <1>0, <2>1
  <1>4. CASE C2Renegotiate \/ C2Read \/ C2Close
    <2>1. cPc \in {"renegotiate", "renegotiating", "read", "close"} /\ cWritten' = cWritten
      BY <1>4 DEF C2Renegotiate, C2Read, CReadAt, C2Close, CGoto
    <2> QED
      BY <1>0, <2>1
  <1>5. CASE C2Want
    <2>1. cPc' = cPc /\ cWritten' = cWritten /\ cPc \notin {"exit", "done"}
      BY <1>5 DEF C2Want, CHandshakes, cVars1
    <2> QED
      BY <1>0, <1>5, <2>1
  <1>6. CASE C2Exit
    <2>1. cPc = "exit" /\ cPc' = "done" /\ cWritten' = cWritten
      BY <1>6 DEF C2Exit, CGoto, cVars2
    <2> QED
      BY <1>0, <2>1
  <1>7. CASE C2Send
    <2>1. cPc' \in {"send", "read", "exit"}
      BY <1>7 DEF C2Send, CGoto
    <2> QED
      BY <1>0, <1>7, <2>1
  <1> QED
    BY <1>1, <1>2, <1>3, <1>4, <1>5, <1>6, <1>7 DEF Client2, C2Prepares

\* One piece of the request.
LEMMA Client2Piece ==
    ASSUME OptInv, WrittenInv, cPc = "send", C2Send
    PROVE  \E n \in Int :
            /\ n = Min({RequestLen - cWritten, cOpt.max_frag_len})
            /\ Data(n, cWritten + n \in Newlines) \in Record
            /\ n > 0 => cWritten + n = RequestLen \/ cWritten + n \in RecordEnds
            /\ \/ /\ n = 0 /\ UNCHANGED <<links, cWritten>> /\ cPc' = "read" /\ cWritten = 0
               \/ /\ n > 0 /\ SslWrite(cLink, "c", Data(n, cWritten + n \in Newlines), "ok")
                  /\ cPc' = IF cWritten + n = RequestLen THEN "read" ELSE "send"
                  /\ cWritten' = IF cWritten + n = RequestLen THEN 0 ELSE cWritten + n
                  /\ cWritten + n = RequestLen \/ cWritten' \in 1..(RequestLen - 1)
               \/ /\ n > 0 /\ SslWrite(cLink, "c", Data(n, cWritten + n \in Newlines), "error")
                  /\ cPc' = "exit" /\ cWritten' = cWritten
  <1>1. /\ RequestLen \in Int /\ cWritten \in Int /\ cWritten >= 0
        /\ cWritten # 0 => cWritten < RequestLen /\ cWritten \in RecordEnds
        /\ cOpt.max_frag_len \in Int /\ cOpt.max_frag_len > 0
    BY GetAssumption, WireAssumption DEF OptInv, WrittenInv, RequestLen
  <1>2. PICK n : n = Min({RequestLen - cWritten, cOpt.max_frag_len})
    OBVIOUS
  <1>3. /\ n \in Int /\ Data(n, cWritten + n \in Newlines) \in Record
        /\ n = IF RequestLen - cWritten <= cOpt.max_frag_len
                THEN RequestLen - cWritten ELSE cOpt.max_frag_len
    BY <1>2, RequestPiece
  <1>5. (n = 0 => cWritten = 0) /\ cWritten + n <= RequestLen
    BY <1>1, <1>3
  <1>6. n > 0 /\ cWritten + n # RequestLen => cWritten + n \in 1..(RequestLen - 1)
    BY <1>1, <1>3, <1>5
  <1>7. \/ n = 0 /\ UNCHANGED <<cWritten, cTry, links>> /\ cPc' = "read"
        \/ /\ n > 0 /\ SslWrite(cLink, "c", Data(n, cWritten + n \in Newlines), "ok")
           /\ cPc' = IF cWritten + n = RequestLen THEN "read" ELSE "send"
           /\ cWritten' = IF cWritten + n = RequestLen THEN 0 ELSE cWritten + n
        \/ /\ n > 0 /\ SslWrite(cLink, "c", Data(n, cWritten + n \in Newlines), "error")
           /\ cPc' = "exit" /\ UNCHANGED <<cWritten, cSent>>
    BY <1>2, Zenon DEF C2Send, CGoto
  <1>8. ASSUME n > 0, cWritten + n # RequestLen PROVE cWritten + n \in RecordEnds
    <2>1. PICK f \in Int : f = cOpt.max_frag_len /\ f > 0 /\ n = f
      BY <1>1, <1>3, <1>8
    <2>2. PICK len \in Int : len = RequestLen /\ cWritten + f < len
      BY <1>1, <1>5, <1>8, <2>1
    <2>3. PICK k \in 0..cWritten : cWritten = k * f
      <3>1. CASE cWritten = 0
        BY <2>1, <3>1
      <3>2. CASE cWritten # 0
        <4>1. PICK k \in 1..len : cWritten = k * f
          BY <1>1, <2>1, <2>2, <3>2 DEF RecordEnds
        <4>2. k <= k * f
          BY <2>1
        <4> QED
          BY <1>1, <4>1, <4>2
      <3> QED
        BY <3>1, <3>2
    <2>4. (k + 1) * f = k * f + f
      BY <1>1
    <2>5. k + 1 \in 1..len
      BY <1>1, <2>1, <2>2, <2>3
    <2> QED
      BY <2>1, <2>2, <2>3, <2>4, <2>5 DEF RecordEnds
  <1> QED
    BY <1>2, <1>3, <1>5, <1>6, <1>7, <1>8

\* Every step keeps the options in order.
LEMMA NextOptions ==
    ASSUME WireInv, OptInv, WrittenInv, [Next]_vars
    PROVE  OptInv' /\ WrittenInv'
  <1>1. CASE cProg = "ssl_client1" /\ Client1 /\ UNCHANGED <<cProg, cVars2, sAll>>
    <2>1. UNCHANGED <<cProg, cOpt, cWritten, sOpt, sWritten>>
      BY <1>1 DEF cVars2, sAll, sVars2
    <2>2. hello'.max \in 0..3
      <3>1. hello' = hello \/ hello' = Offer(Conf1, FALSE)
        BY <1>1, ClientHello, Zenon
      <3>2. Offer(Conf1, FALSE).max = 3
        BY DEF Offer, Conf1
      <3>3. hello' = hello \/ hello'.max = 3
        BY <3>1, <3>2, Zenon
      <3> QED
        BY <3>3 DEF OptInv
    <2>3. cWritten = 0
      BY <1>1 DEF WrittenInv
    <2> QED
      BY <2>1, <2>2, <2>3 DEF OptInv, WrittenInv
  <1>2. CASE cProg = "ssl_client2" /\ Client2 /\ UNCHANGED <<cProg, sAll>>
    <2>1. UNCHANGED <<cProg, sOpt, sWritten>>
      BY <1>2 DEF sAll, sVars2
    <2>2. /\ OptionsOK(cOpt', CDefaults)
          /\ cOpt'.request_size \in Int /\ cOpt'.max_frag_len \in 1..MaxContent
          /\ cPc \notin Starting => Keeps(cOpt', cOpt)
      BY <1>2, Client2Options
    <2>3. hello'.max \in 0..3
      <3>1. hello' = hello \/ hello' = Offer(CConf(cOpt), cSaved)
        BY <1>2, ClientHello
      <3>2. Offer(CConf(cOpt), cSaved).max = CConf(cOpt).max
        BY DEF Offer
      <3>3. CConf(cOpt).max \in 0..3
        BY ConfiguredVersions
      <3> QED
        BY <3>1, <3>2, <3>3 DEF OptInv
    <2>4. cPc \notin Starting => RequestLen' = RequestLen /\ RecordEnds' = RecordEnds
      BY <2>2 DEF Keeps, RequestLen, RecordEnds
    <2>5. WrittenInv'
      <3>1. CASE C2Send
        <4>1. cPc = "send"
          BY <1>2, <3>1, Client2Writes
        <4>2. \/ cPc' = "read" /\ cWritten' = cWritten /\ cWritten = 0
              \/ cWritten' = 0
              \/ cPc' = "send" /\ cWritten' \in 1..(RequestLen - 1) /\ cWritten' \in RecordEnds
              \/ cPc' = "exit" /\ cWritten' = cWritten
          BY <3>1, <4>1, Client2Piece
        <4> QED
          BY <1>2, <2>1, <2>4, <4>1, <4>2 DEF WrittenInv, Starting
      <3>2. CASE ~C2Send
        <4>1. /\ cWritten' = cWritten
              /\ cPc = "send" => cPc' = cPc
              /\ cPc \in {"exit", "done"} => cPc' = "done"
          BY <1>2, <3>2, Client2Writes
        <4> QED
          BY <2>1, <2>4, <4>1 DEF WrittenInv, Starting
      <3> QED
        BY <3>1, <3>2
    <2> QED
      BY <2>1, <2>2, <2>3, <2>5 DEF OptInv
  <1>3. CASE Server
    <2>1. UNCHANGED <<cProg, cPc, cOpt, cWritten>>
      BY <1>3 DEF Server, cAll, cVars1, cVars2
    <2>2. (Server1 /\ UNCHANGED sVars2) \/ Server2
      BY <1>3, Zenon DEF Server
    <2>3. hello' = hello
      BY <2>2, ServerHello
    <2>4. OptionsOK(sOpt', SDefaults) /\ sWritten' \in Int
      <3>1. CASE UNCHANGED sVars2
        BY <3>1 DEF OptInv, sVars2
      <3>2. CASE Server2
        BY <3>2, Server2Options
      <3> QED
        BY <2>2, <3>1, <3>2
    <2>5. WrittenInv'
      BY <2>1 DEF WrittenInv, RequestLen, RecordEnds
    <2> QED
      BY <2>1, <2>3, <2>4, <2>5 DEF OptInv
  <1>4. CASE Network \/ Quiet \/ UNCHANGED vars
    <2>1. UNCHANGED <<cProg, sProg, cAll, sAll>> /\ hello' = hello
      <3>1. CASE Network
        <4>1. \/ UNCHANGED <<backlog, listening, ssl, hello, refused>>
              \/ UNCHANGED <<listening, ssl, hello, refused>>
          BY <3>1, Zenon DEF Network, Break, Stray, StrayLeaves
        <4>2. UNCHANGED <<cProg, sProg, cAll, sAll>>
          BY <3>1, Zenon DEF Network
        <4> QED
          BY <4>1, <4>2
      <3>2. CASE Quiet \/ UNCHANGED vars
        BY <3>2 DEF Quiet, vars, wire
      <3> QED
        BY <1>4, <3>1, <3>2
    <2>2. UNCHANGED <<cProg, cPc, cOpt, cWritten, sOpt, sWritten, hello>>
      BY <2>1 DEF cAll, cVars1, cVars2, sAll, sVars2
    <2> QED
      BY <2>2 DEF OptInv, WrittenInv, RequestLen, RecordEnds
  <1> QED
    <2>1. CASE Client
      <3>1. \/ cProg = "ssl_client1" /\ Client1 /\ UNCHANGED cVars2
            \/ cProg = "ssl_client2" /\ Client2
        BY <2>1, Zenon DEF Client
      <3>2. UNCHANGED <<cProg, sProg, sAll>>
        BY <2>1, Zenon DEF Client
      <3> QED
        BY <1>1, <1>2, <3>1, <3>2
    <2> QED
      BY <1>3, <1>4, <2>1, Zenon DEF Next
------------------------------------------------------------------------------
(* What a step does to a queue.                                            *)

\* A record of a kind in T may be appended, and the first record may be taken.
Grown(q, p, T) == p = q \/ \E r \in Record : r.t \in T /\ p = Append(q, r)
Shrunk(q, p) == p = q \/ (q # <<>> /\ p = Tail(q))

\* A queue that grows.
LEMMA GrownQueue ==
    ASSUME NEW q \in Seq(Record), NEW p, NEW T, Grown(q, p, T)
    PROVE  /\ p \in Seq(Record)
           /\ "data" \notin T => (Has(p, {"data"}) => Has(q, {"data"})) /\ (Ends(p) => Ends(q))
           /\ "hreq" \notin T => (Has(p, {"hreq"}) => Has(q, {"hreq"}))
           /\ "data" \notin T /\ "hreq" \notin T => (Has(p, {"data", "hreq"}) => Has(q, {"data", "hreq"}))
           /\ "data" \notin T /\ "hreq" \notin T => (EndLast(q) => EndLast(p))
           /\ "close" \notin T => (Has(p, {"close"}) => Has(q, {"close"}))
           /\ "hello" \notin T => (Has(p, {"hello"}) => Has(q, {"hello"}))
           /\ ~Has(q, {"close"}) => CloseLast(p)
           /\ ~Ends(q) => EndLast(p)
  <1>1. CASE p = q
    BY <1>1 DEF CloseLast, Has, EndLast, Ends
  <1>2. ASSUME NEW r \in Record, r.t \in T, p = Append(q, r)
        PROVE  /\ p \in Seq(Record)
               /\ "data" \notin T => (Has(p, {"data"}) => Has(q, {"data"})) /\ (Ends(p) => Ends(q))
               /\ "hreq" \notin T => (Has(p, {"hreq"}) => Has(q, {"hreq"}))
               /\ "data" \notin T /\ "hreq" \notin T => (Has(p, {"data", "hreq"}) => Has(q, {"data", "hreq"}))
               /\ "data" \notin T /\ "hreq" \notin T => (EndLast(q) => EndLast(p))
               /\ "close" \notin T => (Has(p, {"close"}) => Has(q, {"close"}))
               /\ "hello" \notin T => (Has(p, {"hello"}) => Has(q, {"hello"}))
               /\ ~Has(q, {"close"}) => CloseLast(p)
               /\ ~Ends(q) => EndLast(p)
    <2>1. /\ p \in Seq(Record)
          /\ \A K : Has(p, K) <=> Has(q, K) \/ r.t \in K
          /\ Ends(p) <=> Ends(q) \/ (r.t = "data" /\ r.nl)
          /\ EndLast(q) /\ (~Ends(q) \/ r.t \notin {"data", "hreq"}) => EndLast(p)
          /\ ~Has(q, {"close"}) => CloseLast(p)
      BY <1>2, AppendQueue, Zenon
    <2>2. ~Ends(q) => EndLast(q)
      BY EndsHasData
    <2>3. /\ Has(p, {"data"}) <=> Has(q, {"data"}) \/ r.t = "data"
          /\ Has(p, {"hreq"}) <=> Has(q, {"hreq"}) \/ r.t = "hreq"
          /\ Has(p, {"close"}) <=> Has(q, {"close"}) \/ r.t = "close"
          /\ Has(p, {"hello"}) <=> Has(q, {"hello"}) \/ r.t = "hello"
          /\ Has(p, {"data", "hreq"}) <=> Has(q, {"data", "hreq"}) \/ r.t = "data" \/ r.t = "hreq"
      BY <2>1
    <2>4. /\ "data" \notin T => r.t # "data"
          /\ "hreq" \notin T => r.t # "hreq"
          /\ "close" \notin T => r.t # "close"
          /\ "hello" \notin T => r.t # "hello"
      BY <1>2
    <2> QED
      BY <2>1, <2>2, <2>3, <2>4, Zenon
  <1> QED
    BY <1>1, <1>2, Zenon DEF Grown

\* A queue that shrinks.
LEMMA ShrunkQueue ==
    ASSUME NEW q \in Seq(Record), NEW p, Shrunk(q, p)
    PROVE  /\ p \in Seq(Record)
           /\ \A K : Has(p, K) => Has(q, K)
           /\ Ends(p) => Ends(q)
           /\ EndLast(q) => EndLast(p)
           /\ CloseLast(q) => CloseLast(p)
  <1>1. CASE p = q
    BY <1>1
  <1>2. CASE q # <<>> /\ p = Tail(q)
    BY <1>2, TailQueue
  <1> QED
    BY <1>1, <1>2 DEF Shrunk

\* A step of one side, seen from the queues of its connection.
LEMMA QueueStep ==
    ASSUME WireOK, NEW l \in 1..Len(links), NEW x \in Side
    PROVE  /\ links[l].sent["c"] \in Seq(Record) /\ links[l].sent["s"] \in Seq(Record)
           /\ UNCHANGED links =>
                /\ links'[l].up = links[l].up
                /\ links'[l].sent[x] = links[l].sent[x] /\ links'[l].sent[Peer(x)] = links[l].sent[Peer(x)]
           /\ \A T : \A r \in Record : Sends(l, x, r) /\ r.t \in T =>
                /\ links'[l].up = links[l].up
                /\ Grown(links[l].sent[x], links'[l].sent[x], T)
                /\ links'[l].sent[Peer(x)] = links[l].sent[Peer(x)]
           /\ Takes(l, x) =>
                /\ links'[l].up = links[l].up
                /\ links'[l].sent[x] = links[l].sent[x]
                /\ Arrived(l, x) # <<>> /\ links'[l].sent[Peer(x)] = Tail(Arrived(l, x))
           /\ \A T : \A r \in Record : Swaps(l, x, r) /\ r.t \in T =>
                /\ links'[l].up = links[l].up
                /\ Grown(links[l].sent[x], links'[l].sent[x], T)
                /\ Arrived(l, x) # <<>> /\ links'[l].sent[Peer(x)] = Tail(Arrived(l, x))
  <1>1. links[l].sent["c"] \in Seq(Record) /\ links[l].sent["s"] \in Seq(Record)
    <2>1. links[l] \in Link
      BY DEF WireOK
    <2> QED
      BY <2>1 DEF Link
  <1>2. ASSUME NEW r \in Record, NEW T, r.t \in T, NEW q, NEW p, NEW b,
               p = IF b THEN Append(q, r) ELSE q
        PROVE  Grown(q, p, T)
    BY <1>2, Zenon DEF Grown
  <1>3. \A T : \A r \in Record : Sends(l, x, r) /\ r.t \in T =>
                /\ links'[l].up = links[l].up
                /\ Grown(links[l].sent[x], links'[l].sent[x], T)
                /\ links'[l].sent[Peer(x)] = links[l].sent[Peer(x)]
    BY <1>2, Zenon DEF Sends, Moves
  <1>4. \A T : \A r \in Record : Swaps(l, x, r) /\ r.t \in T =>
                /\ links'[l].up = links[l].up
                /\ Grown(links[l].sent[x], links'[l].sent[x], T)
                /\ Arrived(l, x) # <<>> /\ links'[l].sent[Peer(x)] = Tail(Arrived(l, x))
    BY <1>2, Zenon DEF Swaps, Moves
  <1> QED
    BY <1>1, <1>3, <1>4, Zenon DEF Takes, Moves
------------------------------------------------------------------------------
(* ClientHello records.                                                    *)

Greets == \E l \in DOMAIN links : Has(links[l].sent["c"], {"hello"})

\* A call that changes one connection brings no ClientHello unless it sends one.
LEMMA MoveGreets ==
    ASSUME WireOK, NEW l \in 1..Len(links), NEW x \in Side, NEW r \in Record,
           UNCHANGED links \/ Sends(l, x, r) \/ Takes(l, x) \/ Swaps(l, x, r),
           Greets'
    PROVE  Greets \/ (x = "c" /\ r.t = "hello")
  <1>1. CASE UNCHANGED links
    BY <1>1 DEF Greets
  <1>2. CASE Sends(l, x, r) \/ Takes(l, x) \/ Swaps(l, x, r)
    <2>1. Moves(l) /\ DOMAIN links = 1..Len(links) /\ DOMAIN links' = 1..Len(links')
      BY <1>2 DEF Sends, Takes, Swaps, Moves, WireOK
    <2>2. PICK m \in 1..Len(links) : Has(links'[m].sent["c"], {"hello"})
      BY <2>1 DEF Greets, Moves
    <2>3. CASE m # l
      BY <2>1, <2>2, <2>3 DEF Greets, Moves
    <2>4. CASE m = l /\ ~(x = "c" /\ r.t = "hello")
      <3>1. links[l].sent["c"] \in Seq(Record)
        BY QueueStep
      <3>2. \/ links'[l].sent["c"] = links[l].sent["c"]
            \/ Grown(links[l].sent["c"], links'[l].sent["c"], {r.t}) /\ r.t # "hello"
            \/ Shrunk(links[l].sent["c"], links'[l].sent["c"])
        <4>1. CASE x = "c"
          BY <1>2, <2>4, <4>1, QueueStep DEF Peer
        <4>2. CASE x = "s"
          BY <1>2, <4>2, QueueStep, ZenonT(60) DEF Peer, Shrunk, Arrived
        <4> QED
          BY <4>1, <4>2 DEF Side
      <3>3. Has(links[l].sent["c"], {"hello"})
        BY <2>2, <2>4, <3>1, <3>2, GrownQueue, ShrunkQueue
      <3> QED
        BY <2>1, <3>3 DEF Greets
    <2> QED
      BY <2>2, <2>3, <2>4
  <1> QED
    BY <1>1, <1>2

\* A call of the library other than the handshake sends none.
LEMMA CallGreets ==
    ASSUME WireOK, NEW l \in 1..Len(links), NEW x \in Side,
           \/ \E r \in Record, result \in {"ok", "error"} : r.t # "hello" /\ SslWrite(l, x, r, result)
           \/ \E result : SslRead(l, x, result)
           \/ \E b : SslReadControl(l, x, b)
           \/ x = "c" /\ \E result \in {"ok", "error"} : SslRenegotiated(l, result)
           \/ UNCHANGED links,
           Greets'
    PROVE  Greets
  <1>0. links \in Seq(Link)
    BY DEF WireOK
  <1>1. CASE \E r \in Record, result \in {"ok", "error"} : r.t # "hello" /\ SslWrite(l, x, r, result)
    BY <1>0, <1>1, WriteStep, MoveGreets
  <1>2. PICK r0 \in Record : r0 = Rec("fatal", 0) /\ r0.t # "hello"
    BY PlainRecords
  <1>3. CASE \E result : SslRead(l, x, result)
    BY <1>0, <1>2, <1>3, ReadStep, MoveGreets
  <1>4. CASE \E b : SslReadControl(l, x, b)
    <2>1. \A t \in {"rehello", "redone", "norenego"} : Rec(t, 0) \in Record /\ Rec(t, 0).t # "hello"
      BY PlainRecords
    <2>2. \/ Takes(l, x)
          \/ \E t \in {"rehello", "redone", "norenego"} : Swaps(l, x, Rec(t, 0))
      BY <1>0, <1>4, ControlStep
    <2> QED
      BY <1>0, <1>2, <2>1, <2>2, MoveGreets
  <1>5. CASE x = "c" /\ \E result \in {"ok", "error"} : SslRenegotiated(l, result)
    BY <1>0, <1>2, <1>5, RenegotiatedStep, MoveGreets
  <1>6. CASE UNCHANGED links
    BY <1>2, <1>6, MoveGreets
  <1> QED
    BY <1>1, <1>3, <1>4, <1>5, <1>6

\* The handshake of a client sends one, with its offer.
LEMMA HandshakeGreets ==
    ASSUME WireOK, NEW l \in 1..Len(links), NEW x \in Side, NEW conf, NEW resume, NEW result,
           x = "s" => Version(conf) \in Int,
           SslHandshake(l, x, conf, resume, result), Greets'
    PROVE  Greets \/ (x = "c" /\ hello' = Offer(conf, resume))
  <1>0. links \in Seq(Link) /\ DOMAIN ssl = Side
    BY DEF WireOK
  <1>1. Rec("fatal", 0) \in Record /\ Rec("fatal", 0).t # "hello"
    BY PlainRecords
  <1>2. \/ \E p \in Script : Follows(p, l, x, conf, resume, result)
        \/ Fails(l, x, conf, result)
    BY <1>0, HandshakeStep, Zenon
  <1>3. CASE Fails(l, x, conf, result)
    <2>1. UNCHANGED links \/ Swaps(l, x, Rec("fatal", 0))
      BY <1>3 DEF Fails
    <2> QED
      BY <1>1, <2>1, MoveGreets
  <1>4. ASSUME NEW p \in Script, Follows(p, l, x, conf, resume, result)
        PROVE  Greets \/ (x = "c" /\ hello' = Offer(conf, resume))
    <2>1. p[4] \in Kinds
      BY DEF Script, Kinds
    <2>2. CASE Takes(l, x)
      BY <1>1, <2>2, MoveGreets
    <2>3. CASE /\ \E n \in Int : Sends(l, x, Rec(p[4], n))
               /\ hello' = IF p[4] = "hello" THEN Offer(conf, resume) ELSE hello
      <3>1. PICK n \in Int : Sends(l, x, Rec(p[4], n))
        BY <2>3
      <3>2. Rec(p[4], n) \in Record /\ Rec(p[4], n).t = p[4]
        BY <2>1, RecordTypes
      <3>3. Greets \/ (x = "c" /\ p[4] = "hello")
        BY <3>1, <3>2, MoveGreets
      <3> QED
        BY <2>3, <3>3
    <2> QED
      BY <1>4, <2>2, <2>3, Zenon DEF Follows
  <1> QED
    BY <1>2, <1>3, <1>4

\* Connections come and go without a ClientHello.
LEMMA LinkGreets ==
    ASSUME WireOK, EndsOK, Greets'
    PROVE  /\ /\ Len(links') = Len(links) + 1 /\ links'[Len(links) + 1].sent["c"] = <<>>
              /\ links' \in Seq(Link) /\ \A l \in 1..Len(links) : links'[l] = links[l]
              => Greets
           /\ /\ Len(links') = Len(links) /\ links' \in Seq(Link)
              /\ \A l \in 1..Len(links) : \/ links'[l].sent["c"] = <<>>
                                           \/ links'[l].sent["c"] = links[l].sent["c"]
              => Greets
  <1>0. DOMAIN links = 1..Len(links) /\ Len(links) \in Nat
    BY DEF WireOK
  <1>1. ASSUME Len(links') = Len(links) + 1, links'[Len(links) + 1].sent["c"] = <<>>,
               links' \in Seq(Link), \A l \in 1..Len(links) : links'[l] = links[l]
        PROVE  Greets
    <2>1. DOMAIN links' = 1..(Len(links) + 1)
      BY <1>1
    <2>2. PICK l \in 1..(Len(links) + 1) : Has(links'[l].sent["c"], {"hello"})
      BY <2>1 DEF Greets
    <2>3. l # Len(links) + 1
      BY <1>1, <2>2, EmptyQueue
    <2>4. l \in 1..Len(links)
      BY <1>0, <2>3
    <2> QED
      BY <1>0, <1>1, <2>2, <2>4 DEF Greets
  <1>2. ASSUME Len(links') = Len(links), links' \in Seq(Link),
               \A l \in 1..Len(links) : \/ links'[l].sent["c"] = <<>>
                                        \/ links'[l].sent["c"] = links[l].sent["c"]
        PROVE  Greets
    <2>1. DOMAIN links' = 1..Len(links)
      BY <1>2
    <2>2. PICK l \in 1..Len(links) : Has(links'[l].sent["c"], {"hello"})
      BY <2>1 DEF Greets
    <2>3. links'[l].sent["c"] # <<>>
      BY <2>2, EmptyQueue
    <2> QED
      BY <1>0, <1>2, <2>2, <2>3 DEF Greets
  <1> QED
    BY <1>1, <1>2

\* ssl_client2 sends a ClientHello in a handshake only.
LEMMA Client2Greets ==
    ASSUME WireInv, OptInv, WrittenInv, Client2, UNCHANGED sLink, Greets'
    PROVE  \/ Greets
           \/ /\ cPc \in {"handshake", "hard_handshake", "reconnect_handshake"}
              /\ hello' = Offer(CConf(cOpt), cSaved)
  <1>1. /\ DOMAIN ssl = Side /\ links \in Seq(Link) /\ cLink \in 0..Len(links) /\ Len(links) \in Nat
        /\ WireOK /\ EndsOK /\ "c" \in Side
    BY DEF WireInv, WireOK, Side
  <1>2. CASE UNCHANGED links
    BY <1>2 DEF Greets
  <1>3. CASE C2Prepares \/ C2Session \/ C2Again \/ C2Want \/ C2Hard
    <2>1. UNCHANGED links
      BY <1>3, Client2Prepares DEF C2Session, C2Again, C2Want, C2Hard, wire
    <2> QED
      BY <1>2, <2>1
  <1>4. CASE C2Connect \/ C2ReconnectConnect
    <2>1. \/ UNCHANGED wire
          \/ links' = Append(links, NewLink)
      BY <1>4, Zenon DEF C2Connect, C2ReconnectConnect, CConnectAt, CNetConnect
    <2>2. CASE UNCHANGED wire
      BY <1>2, <2>2 DEF wire
    <2>3. CASE links' = Append(links, NewLink)
      <3>1. NewLink \in Link /\ NewLink.sent["c"] = <<>>
        BY EmptyQueue DEF NewLink, NoQueues, Link, Side
      <3>2. /\ Len(links') = Len(links) + 1 /\ links'[Len(links) + 1] = NewLink
            /\ links' \in Seq(Link) /\ \A l \in 1..Len(links) : links'[l] = links[l]
        BY <1>1, <2>3, <3>1
      <3> QED
        BY <1>1, <3>1, <3>2, LinkGreets
    <2> QED
      BY <2>1, <2>2, <2>3
  <1>5. CASE C2Handshake \/ C2HardHandshake \/ C2ReconnectHandshake
    <2>1. PICK from, to : /\ CHandshakeAt(from, to)
                          /\ from \in {"handshake", "hard_handshake", "reconnect_handshake"}
      BY <1>5 DEF C2Handshake, C2HardHandshake, C2ReconnectHandshake
    <2>2. /\ cPc = from
          /\ \/ \E result \in {"more", "ok", "error"} : SslHandshake(cLink, "c", CConf(cOpt), cSaved, result)
             \/ UNCHANGED <<links, ssl, hello, refused>>
      BY <2>1, Client2Shakes
    <2>3. cLink \in 1..Len(links)
      BY <1>1, <2>1, <2>2 DEF WireInv, CPcOK, CUnlinked
    <2>4. CASE \E result \in {"more", "ok", "error"} : SslHandshake(cLink, "c", CConf(cOpt), cSaved, result)
      BY <1>1, <2>1, <2>2, <2>3, <2>4, HandshakeGreets
    <2>5. CASE UNCHANGED <<links, ssl, hello, refused>>
      BY <1>2, <2>5
    <2> QED
      BY <2>2, <2>4, <2>5
  <1>6. CASE C2Renegotiate \/ C2Send \/ C2Read \/ C2Close
    <2>1. cPc \in {"renegotiate", "renegotiating", "send", "read", "close"}
      BY <1>6 DEF C2Renegotiate, C2Send, C2Read, CReadAt, C2Close, CGoto
    <2>2. cLink \in 1..Len(links)
      BY <1>1, <2>1 DEF WireInv, CPcOK, CUnlinked
    <2>3. /\ Rec("rehello", 0) \in Record /\ Rec("rehello", 0).t # "hello"
          /\ Rec("close", 0) \in Record /\ Rec("close", 0).t # "hello"
      BY PlainRecords
    <2>4. \/ \E r \in Record, result \in {"ok", "error"} : r.t # "hello" /\ SslWrite(cLink, "c", r, result)
          \/ \E result : SslRead(cLink, "c", result)
          \/ \E b : SslReadControl(cLink, "c", b)
          \/ "c" = "c" /\ \E result \in {"ok", "error"} : SslRenegotiated(cLink, result)
          \/ UNCHANGED links
      <3>1. CASE C2Read
        BY <3>1, Zenon DEF C2Read, CReadAt, CTimedOut, SslTimeout
      <3>2. CASE C2Close
        BY <2>3, <3>2, Zenon DEF C2Close
      <3>3. CASE C2Renegotiate
        <4>1. UNCHANGED <<cTry, links>> => UNCHANGED links
          OBVIOUS
        <4> QED
          BY <2>3, <3>3, <4>1, Zenon DEF C2Renegotiate, CTimedOut, SslTimeout
      <3>4. CASE C2Send
        <4>1. cPc = "send"
          BY <3>4, Zenon DEF C2Send
        <4>2. PICK n \in Int :
                /\ Data(n, cWritten + n \in Newlines) \in Record
                /\ \/ UNCHANGED <<links, cWritten>>
                   \/ SslWrite(cLink, "c", Data(n, cWritten + n \in Newlines), "ok")
                   \/ SslWrite(cLink, "c", Data(n, cWritten + n \in Newlines), "error")
          BY <3>4, <4>1, Client2Piece, Zenon
        <4>3. Data(n, cWritten + n \in Newlines).t # "hello"
          BY DEF Data
        <4>4. UNCHANGED <<links, cWritten>> => UNCHANGED links
          OBVIOUS
        <4> QED
          BY <4>2, <4>3, <4>4, Zenon
      <3> QED
        BY <1>6, <3>1, <3>2, <3>3, <3>4
    <2> QED
      BY <1>1, <2>2, <2>4, CallGreets, Zenon
  <1>7. CASE C2Reconnect \/ C2Exit
    <2>1. CASE UNCHANGED <<cLink, cOpt, links, ssl>>
      BY <1>2, <2>1
    <2>2. CASE CNetFree /\ UNCHANGED backlog /\ DOMAIN ssl' = Side
      <3>1. /\ Len(links') = Len(links) /\ WireOK'
            /\ \A l \in 1..Len(links) : l # cLink => links'[l] = links[l]
            /\ cLink # 0 => Closes(cLink, "c")
        BY <1>1, <2>2, WireFree
      <3>2. \A l \in 1..Len(links) :
                \/ links'[l].sent["c"] = <<>>
                \/ links'[l].sent["c"] = links[l].sent["c"]
        BY <3>1 DEF Closes
      <3>3. links' \in Seq(Link)
        BY <3>1 DEF WireOK
      <3> QED
        BY <1>1, <3>1, <3>2, <3>3, LinkGreets
    <2>3. ssl' = [ssl EXCEPT !["c"] = "start"] => DOMAIN ssl' = Side
      BY <1>1
    <2> QED
      BY <1>1, <1>7, <2>1, <2>2, <2>3 DEF C2Reconnect, C2Exit, wireRest
  <1> QED
    BY <1>3, <1>4, <1>5, <1>6, <1>7 DEF Client2, C2Prepares

\* A server sends no ClientHello.
LEMMA ServerGreets ==
    ASSUME WireInv, OptInv, \/ sProg = "ssl_server" /\ Server1
                            \/ sProg = "ssl_server2" /\ Server2,
           UNCHANGED cLink, Greets'
    PROVE  Greets
  <1>1. /\ DOMAIN ssl = Side /\ links \in Seq(Link) /\ sLink \in 0..Len(links) /\ Len(links) \in Nat
        /\ WireOK /\ EndsOK /\ "s" \in Side
    BY DEF WireInv, WireOK, Side
  <1>2. CASE UNCHANGED links
    BY <1>2 DEF Greets
  <1>3. Version(SConf(sOpt)) \in Int /\ Version(SConf1) \in Int
    BY ConfiguredVersions
  <1>4. sPc \in SLinked => sLink \in 1..Len(links)
    BY <1>1 DEF WireInv, SPcOK
  <1>5. CASE S1Begin \/ S1LoadCert \/ S1Bind \/ S1Seed \/ S1Config \/ S1Accept
    BY <1>2, <1>5 DEF S1Begin, S1LoadCert, S1Bind, SNetBind, S1Seed, S1Config, S1Accept, SNetAccept, wire
  <1>6. CASE S2Prepares \/ S2Accept \/ S2Want
    BY <1>2, <1>6, Server2Prepares DEF S2Accept, SNetAccept, S2Want, wire
  <1>7. CASE S1Reset \/ S2Reset
    <2>1. /\ Len(links') = Len(links) /\ WireOK'
          /\ \A l \in 1..Len(links) : l # sLink => links'[l] = links[l]
          /\ sLink # 0 => Closes(sLink, "s")
      BY <1>1, <1>7, WireReset DEF S1Reset, S2Reset
    <2>2. \A l \in 1..Len(links) :
            \/ links'[l].sent["c"] = <<>>
            \/ links'[l].sent["c"] = links[l].sent["c"]
      BY <2>1 DEF Closes, Peer
    <2>3. links' \in Seq(Link)
      BY <2>1 DEF WireOK
    <2> QED
      BY <1>1, <2>1, <2>2, <2>3, LinkGreets
  <1>8. CASE S1Exit \/ S2Exit
    <2>1. /\ Len(links') = Len(links) /\ WireOK'
          /\ \A l \in 1..Len(links) : links'[l] = links[l] \/ links'[l] = Shut(links[l], "s")
      BY <1>1, <1>8, WireExit DEF S1Exit, S2Exit
    <2>2. \A l \in 1..Len(links) : Shut(links[l], "s").sent["c"] = <<>>
      BY <1>1, ShutLink DEF Peer
    <2>3. links' \in Seq(Link)
      BY <2>1 DEF WireOK
    <2> QED
      BY <1>1, <2>1, <2>2, <2>3, LinkGreets
  <1>9. CASE S1Handshake \/ S2Handshake
    <2>1. /\ sPc = "handshake"
          /\ \/ \E result : SslHandshake(sLink, "s", SConf1, FALSE, result)
             \/ \E result : SslHandshake(sLink, "s", SConf(sOpt), FALSE, result)
             \/ UNCHANGED links
      BY <1>9, Zenon DEF S1Handshake, S2Handshake, STimedOut, SslTimeout
    <2>2. sLink \in 1..Len(links)
      BY <1>4, <2>1 DEF SLinked
    <2>3. ASSUME NEW conf, NEW result, Version(conf) \in Int, SslHandshake(sLink, "s", conf, FALSE, result)
          PROVE  Greets
      BY <1>1, <2>2, <2>3, HandshakeGreets, Zenon
    <2> QED
      BY <1>2, <1>3, <2>1, <2>3, Zenon
  <1>10. CASE S1Read \/ S1Write \/ S1Close \/ S2Read \/ S2Renegotiate \/ S2Write \/ S2Close
    <2>1. sPc \in {"read", "renegotiate", "write", "close_notify"}
      BY <1>10 DEF S1Read, S1Write, S1Close, S2Read, SReadAt, S2Renegotiate, S2Write, S2Close, SGoto
    <2>2. sLink \in 1..Len(links)
      BY <1>4, <2>1 DEF SLinked
    <2>3. /\ Rec("hreq", 0) \in Record /\ Rec("hreq", 0).t # "hello"
          /\ Rec("close", 0) \in Record /\ Rec("close", 0).t # "hello"
      BY PlainRecords
    <2>4. \/ \E r \in Record, result \in {"ok", "error"} : r.t # "hello" /\ SslWrite(sLink, "s", r, result)
          \/ \E result : SslRead(sLink, "s", result)
          \/ \E b : SslReadControl(sLink, "s", b)
          \/ UNCHANGED links
      <3>0. ResponseLen \in Int /\ sWritten \in Int
        BY ResponseAssumption DEF OptInv
      <3>1. CASE S2Read \/ S2Renegotiate \/ S2Close
        BY <2>3, <3>1, Zenon DEF S2Read, SReadAt, S2Renegotiate, S2Close, STimedOut, SslTimeout
      <3>2. CASE S2Write
        <4>1. PICK n : n = Min({ResponseLen - sWritten, MaxContent})
          OBVIOUS
        <4>2. PICK r \in Record : r = Data(n, sWritten + n = ResponseLen)
          BY <3>0, <4>1, PieceRecord
        <4>3. SslWrite(sLink, "s", r, "ok") \/ SslWrite(sLink, "s", r, "error")
          BY <3>2, <4>1, <4>2, Zenon DEF S2Write
        <4>4. r.t # "hello"
          BY <4>2 DEF Data
        <4> QED
          BY <4>3, <4>4
      <3>3. CASE S1Read \/ S1Close
        BY <2>3, <3>3, Zenon DEF S1Read, S1Close
      <3>4. CASE S1Write
        <4>1. Data(ResponseLen, TRUE) \in Record
          BY <3>0, RecordTypes, Zenon
        <4>2. Data(ResponseLen, TRUE).t # "hello"
          BY DEF Data
        <4> QED
          BY <3>4, <4>1, <4>2, Zenon DEF S1Write
      <3> QED
        BY <1>10, <3>1, <3>2, <3>3, <3>4
    <2> QED
      BY <1>1, <2>2, <2>4, CallGreets, Zenon
  <1> QED
    BY <1>5, <1>6, <1>7, <1>8, <1>9, <1>10 DEF Server1, Server2, S2Prepares

\* Only a server that has a ClientHello refuses one.
LEMMA RefusedStep ==
    ASSUME WireInv, OptInv
    PROVE  /\ Client1 \/ Client2 => refused' = refused
           /\ Server2 => \/ refused' = refused
                         \/ sPc = "handshake" /\ Greets /\ refused' = Refusal(SConf(sOpt))
  <1>1. /\ DOMAIN ssl = Side /\ links \in Seq(Link) /\ sLink \in 0..Len(links) /\ Len(links) \in Nat
        /\ cLink \in 0..Len(links) /\ WireOK /\ "c" \in Side /\ "s" \in Side /\ "c" # "s"
    BY DEF WireInv, WireOK, Side
  <1>2. ASSUME NEW conf, NEW resume, NEW result, SslHandshake(cLink, "c", conf, resume, result),
               cPc \in {"handshake", "hard_handshake", "reconnect_handshake"}
        PROVE  refused' = refused
    <2>1. cLink \in 1..Len(links)
      BY <1>1, <1>2 DEF WireInv, CPcOK, CUnlinked
    <2>2. \/ \E p \in Script : Follows(p, cLink, "c", conf, resume, result)
          \/ Fails(cLink, "c", conf, result)
      BY <1>1, <1>2, <2>1, HandshakeStep, Zenon
    <2> QED
      BY <1>1, <2>2, Zenon DEF Follows, Fails
  <1>3. ASSUME Client1 PROVE refused' = refused
    <2>1. CASE C1Handshake
      <3>1. cPc = "handshake" /\ \E result : SslHandshake(cLink, "c", Conf1, FALSE, result)
        BY <2>1, Zenon DEF C1Handshake
      <3> QED
        BY <1>2, <3>1, Zenon
    <2>2. CASE C1Begin \/ C1LoadCa \/ C1Config \/ C1Connect
      BY <2>2 DEF C1Begin, C1LoadCa, C1Config, C1Connect, CNetConnect, wire
    <2>3. CASE C1Write \/ C1Read \/ C1Close \/ C1Exit
      BY <2>3 DEF C1Write, C1Read, C1Close, C1Exit, wireRest
    <2> QED
      BY <1>3, <2>1, <2>2, <2>3 DEF Client1
  <1>4. ASSUME Client2 PROVE refused' = refused
    <2>1. CASE C2Prepares
      BY <2>1, Client2Prepares
    <2>2. CASE C2Handshake \/ C2HardHandshake \/ C2ReconnectHandshake
      <3>1. PICK from, to : /\ CHandshakeAt(from, to)
                            /\ from \in {"handshake", "hard_handshake", "reconnect_handshake"}
        BY <2>2 DEF C2Handshake, C2HardHandshake, C2ReconnectHandshake
      <3>2. /\ cPc = from
            /\ \/ \E result : SslHandshake(cLink, "c", CConf(cOpt), cSaved, result)
               \/ refused' = refused
        BY <3>1, Client2Shakes
      <3> QED
        BY <1>2, <3>1, <3>2
    <2>3. CASE C2Connect \/ C2Want \/ C2Session \/ C2Hard \/ C2Again \/ C2Reconnect \/ C2ReconnectConnect
      BY <2>3 DEF C2Connect, C2Want, C2Session, C2Hard, C2Again, C2Reconnect, C2ReconnectConnect,
                  CConnectAt, CNetConnect, wire
    <2>4. CASE C2Renegotiate \/ C2Send \/ C2Read \/ C2Close \/ C2Exit
      BY <2>4 DEF C2Renegotiate, C2Send, C2Read, CReadAt, C2Close, C2Exit, wireRest
    <2> QED
      BY <1>4, <2>1, <2>2, <2>3, <2>4 DEF Client2, C2Prepares
  <1>5. ASSUME Server2
        PROVE  \/ refused' = refused
               \/ sPc = "handshake" /\ Greets /\ refused' = Refusal(SConf(sOpt))
    <2>1. CASE S2Handshake
      <3>1. \/ sPc = "handshake" /\ \E result : SslHandshake(sLink, "s", SConf(sOpt), FALSE, result)
            \/ UNCHANGED <<sLeft, ssl, hello, refused>>
        BY <2>1, Zenon DEF S2Handshake
      <3>2. ASSUME sPc = "handshake", NEW result, SslHandshake(sLink, "s", SConf(sOpt), FALSE, result)
            PROVE  \/ refused' = refused
                   \/ Greets /\ refused' = Refusal(SConf(sOpt))
        <4>1. sLink \in 1..Len(links)
          BY <1>1, <3>2 DEF WireInv, SPcOK, SLinked
        <4>2. Version(SConf(sOpt)) \in Int
          BY ConfiguredVersions
        <4>3. \/ \E p \in Script : Follows(p, sLink, "s", SConf(sOpt), FALSE, result)
              \/ Fails(sLink, "s", SConf(sOpt), result)
          BY <1>1, <3>2, <4>1, <4>2, HandshakeStep, Zenon
        <4>4. \/ refused' = refused
              \/ /\ Arrived(sLink, "s") # <<>> /\ Head(Arrived(sLink, "s")).t = "hello"
                 /\ refused' = Refusal(SConf(sOpt))
          BY <4>3, Zenon DEF Follows, Fails
        <4>5. Arrived(sLink, "s") # <<>> /\ Head(Arrived(sLink, "s")).t = "hello" => Greets
          <5>1. Arrived(sLink, "s") = links[sLink].sent["c"] /\ links[sLink].sent["c"] \in Seq(Record)
            BY <1>1, <4>1, QueueStep DEF Arrived, Peer
          <5>2. \A q \in Seq(Record) : q # <<>> /\ Head(q).t = "hello" => Has(q, {"hello"})
            BY TailQueue
          <5>3. sLink \in DOMAIN links
            BY <1>1, <4>1
          <5> QED
            BY <5>1, <5>2, <5>3 DEF Greets
        <4> QED
          BY <4>4, <4>5
      <3>3. CASE UNCHANGED <<sLeft, ssl, hello, refused>>
        BY <3>3
      <3> QED
        BY <3>1, <3>2, <3>3, Zenon
    <2>2. CASE S2Prepares
      BY <2>2, Server2Prepares
    <2>3. CASE S2Read \/ S2Renegotiate \/ S2Write \/ S2Close
      BY <2>3 DEF S2Read, SReadAt, S2Renegotiate, S2Write, S2Close, sIo
    <2>4. CASE S2Reset \/ S2Accept \/ S2Want \/ S2Exit
      BY <2>4 DEF S2Reset, SReset, S2Accept, SNetAccept, S2Want, S2Exit, SNetFree, wire
    <2> QED
      BY <1>5, <2>1, <2>2, <2>3, <2>4 DEF Server2, S2Prepares
  <1> QED
    BY <1>3, <1>4, <1>5
------------------------------------------------------------------------------
(* Forced ciphersuites.                                                    *)

\* The configuration depends on what is kept.
LEMMA KeptConf ==
    ASSUME NEW p, NEW o, Keeps(p, o)
    PROVE  CConf(p) = CConf(o) /\ (Narrowed(o) => Narrowed(p))
  <1>1. /\ p.min_version = o.min_version /\ p.max_version = o.max_version
        /\ p.force_ciphersuite = o.force_ciphersuite /\ p.arc4 = o.arc4
        /\ p.auth_mode = o.auth_mode /\ p.renegotiation = o.renegotiation
    BY DEF Keeps
  <1>2. AllSuites(p) = AllSuites(o)
    BY <1>1, Zenon DEF AllSuites
  <1>3. Configured(p, AllSuites(p), TRUE) = Configured(o, AllSuites(o), TRUE)
    BY <1>1, <1>2, Zenon DEF Configured
  <1>4. CConf(p) = CConf(o)
    BY <1>3, Zenon DEF CConf
  <1>5. Narrowed(o) => Narrowed(p)
    BY <1>1, Zenon DEF Narrowed
  <1> QED
    BY <1>4, <1>5

\* A ClientHello that is refused for its ciphersuites has none in common.
LEMMA RefusedSuites ==
    ASSUME OptInv, Offered, Refusal(SConf(sOpt)) = "suite"
    PROVE  NothingCommon
  <1>1. PICK v \in 0..3 : v = Version(SConf(sOpt)) /\ v = Min({CConf(cOpt).max, SConf(sOpt).max})
    <2>1. PICK a \in 0..3, b \in 0..3 : a = CConf(cOpt).max /\ b = SConf(sOpt).max
      BY ConfiguredVersions
    <2>2. Min({a, b}) \in 0..3
      BY MinOfTwo
    <2>3. Version(SConf(sOpt)) = Min({a, b})
      BY <2>1, Zenon DEF Version, Offered
    <2> QED
      BY <2>1, <2>2, <2>3
  <1>2. hello.suites[v] \cap Usable(SConf(sOpt), v) = {}
    BY <1>1, Zenon DEF Refusal
  <1>3. hello.suites[v] = Usable(CConf(cOpt), v)
    BY Zenon DEF Offered
  <1> QED
    BY <1>1, <1>2, <1>3, Zenon DEF NothingCommon

\* A step of ssl_client2 keeps SuiteInv.
LEMMA Client2Suite ==
    ASSUME WireInv, OptInv, WrittenInv, SuiteInv, cProg = "ssl_client2", Client2,
           UNCHANGED <<cProg, sProg, sPc, sLink, sOpt>>
    PROVE  SuiteInv'
  <1>1. /\ cPc \notin Starting => Keeps(cOpt', cOpt) /\ cPc' \notin Starting
        /\ cPc \in Starting => C2Prepares
        /\ cPc \in Starting /\ cPc' \notin Starting \cup {"exit"} => Narrowed(cOpt')
    BY Client2Options
  <1>2. cPc \in {"exit", "done"} => cPc' = "done"
    BY Client2Writes
  <1>3. refused' = refused
    BY RefusedStep
  <1>4. cPc \notin Starting => CConf(cOpt') = CConf(cOpt) /\ (Narrowed(cOpt) => Narrowed(cOpt'))
    BY <1>1, KeptConf
  <1>5. (cPc \notin Starting \cup {"exit", "done"} => Narrowed(cOpt)) /\ (Greets => Offered)
    BY DEF SuiteInv, Greets
  <1>6. cPc' \notin Starting \cup {"exit", "done"} => Narrowed(cOpt')
    BY <1>1, <1>2, <1>4, <1>5
  <1>7. ASSUME Greets' PROVE Offered'
    <2>1. CASE Greets /\ hello' = hello
      <3>1. /\ cPc \notin Starting /\ Narrowed(cOpt) /\ hello.max = CConf(cOpt).max
            /\ hello.suites = [v \in 0..3 |-> Usable(CConf(cOpt), v)]
        BY <1>5, <2>1 DEF Offered
      <3>2. hello'.suites = [v \in 0..3 |-> Usable(CConf(cOpt'), v)]
        BY <1>4, <2>1, <3>1, Zenon
      <3>3. /\ cPc' \notin Starting /\ Narrowed(cOpt') /\ hello'.max = CConf(cOpt').max
        BY <1>1, <1>4, <2>1, <3>1
      <3> QED
        BY <3>2, <3>3 DEF Offered, Usable
    <2>2. CASE cPc \notin Starting /\ Narrowed(cOpt) /\ hello' = Offer(CConf(cOpt), cSaved)
      <3>1. /\ hello'.max = CConf(cOpt).max
            /\ hello'.suites = [v \in 0..3 |-> Usable(CConf(cOpt), v)]
        BY <2>2 DEF Offer
      <3>2. hello'.suites = [v \in 0..3 |-> Usable(CConf(cOpt'), v)]
        BY <1>4, <2>2, <3>1, Zenon
      <3>3. /\ cPc' \notin Starting /\ Narrowed(cOpt') /\ hello'.max = CConf(cOpt').max
        BY <1>1, <1>4, <2>2, <3>1
      <3> QED
        BY <3>2, <3>3 DEF Offered, Usable
    <2>3. \/ Greets
          \/ /\ cPc \in {"handshake", "hard_handshake", "reconnect_handshake"}
             /\ hello' = Offer(CConf(cOpt), cSaved)
      BY <1>7, Client2Greets
    <2>4. hello' = hello \/ (cPc \notin Starting /\ hello' = Offer(CConf(cOpt), cSaved))
      BY ClientHello
    <2>5. Greets => Narrowed(cOpt)
      BY <1>5 DEF Offered
    <2>6. cPc \in {"handshake", "hard_handshake", "reconnect_handshake"} => cPc \notin Starting \cup {"exit", "done"}
      BY DEF Starting
    <2> QED
      BY <1>5, <2>1, <2>2, <2>3, <2>4, <2>5, <2>6
  <1>8. ASSUME sProg = "ssl_server2", refused = "suite"
        PROVE  /\ cPc' \notin Starting /\ sPc' \notin Starting
               /\ Narrowed(cOpt') /\ Narrowed(sOpt') /\ NothingCommon'
    <2>1. cPc \notin Starting /\ sPc \notin Starting /\ Narrowed(cOpt) /\ Narrowed(sOpt) /\ NothingCommon
      BY <1>8 DEF SuiteInv
    <2>2. NothingCommon'
      BY <1>4, <2>1 DEF NothingCommon, Usable
    <2> QED
      BY <1>1, <1>4, <2>1, <2>2
  <1>9. sProg = "ssl_server2" /\ sPc \notin Starting \cup {"exit", "done"} => Narrowed(sOpt)
    BY DEF SuiteInv
  <1> QED
    BY <1>3, <1>6, <1>7, <1>8, <1>9 DEF SuiteInv, Greets

\* A step of a server keeps SuiteInv.
LEMMA ServerSuite ==
    ASSUME WireInv, OptInv, SuiteInv,
           \/ sProg = "ssl_server" /\ Server1 /\ UNCHANGED sVars2
           \/ sProg = "ssl_server2" /\ Server2,
           UNCHANGED <<cProg, sProg, cPc, cLink, cOpt>>
    PROVE  SuiteInv'
  <1>1. hello' = hello
    BY ServerHello
  <1>2. Greets' => Greets
    BY ServerGreets
  <1>3. cProg = "ssl_client2" =>
            /\ cPc \notin Starting \cup {"exit", "done"} => Narrowed(cOpt)
            /\ Greets => Offered
    BY DEF SuiteInv, Greets
  <1>4. Offered => Offered'
    BY <1>1 DEF Offered, Usable
  <1>5. CASE sProg = "ssl_server" /\ Server1
    BY <1>2, <1>3, <1>4, <1>5 DEF SuiteInv, Greets
  <1>6. CASE sProg = "ssl_server2" /\ Server2
    <2>1. /\ sPc \notin Starting => sOpt' = sOpt /\ sPc' \notin Starting
          /\ sPc \in Starting => S2Prepares
          /\ sPc \in Starting /\ sPc' \notin Starting \cup {"exit"} => Narrowed(sOpt')
      BY <1>6, Server2Options
    <2>2. sPc \in {"exit", "done"} => sPc' = "done"
      <3>1. ASSUME NEW S, sPc \in S PROVE S2Exit => sPc' = "done"
        BY DEF S2Exit, SGoto
      <3>2. S2Prepares => sPc \notin {"exit", "done"}
        BY Server2Prepares DEF SUnlinked
      <3>3. S2Reset \/ S2Accept \/ S2Want \/ S2Handshake => sPc \notin {"exit", "done"}
        BY DEF S2Reset, SReset, S2Accept, SNetAccept, S2Want, S2Handshake, SGoto
      <3>4. S2Read \/ S2Renegotiate \/ S2Write \/ S2Close => sPc \notin {"exit", "done"}
        BY DEF S2Read, SReadAt, S2Renegotiate, S2Write, S2Close, SGoto
      <3> QED
        BY <1>6, <3>1, <3>2, <3>3, <3>4 DEF Server2, S2Prepares
    <2>3. sPc \notin Starting \cup {"exit", "done"} => Narrowed(sOpt)
      BY <1>6 DEF SuiteInv
    <2>4. sPc' \notin Starting \cup {"exit", "done"} => Narrowed(sOpt')
      BY <2>1, <2>2, <2>3
    <2>5. ASSUME cProg = "ssl_client2", refused' = "suite"
          PROVE  /\ cPc' \notin Starting /\ sPc' \notin Starting
                 /\ Narrowed(cOpt') /\ Narrowed(sOpt') /\ NothingCommon'
      <3>1. \/ refused' = refused
            \/ sPc = "handshake" /\ Greets /\ refused' = Refusal(SConf(sOpt))
        BY <1>6, RefusedStep
      <3>2. cPc \notin Starting /\ sPc \notin Starting /\ Narrowed(cOpt) /\ Narrowed(sOpt) /\ NothingCommon
        <4>1. CASE refused' = refused
          BY <1>6, <2>5, <4>1 DEF SuiteInv
        <4>2. CASE sPc = "handshake" /\ Greets /\ refused' = Refusal(SConf(sOpt))
          <5>1. Offered /\ Narrowed(sOpt) /\ sPc \notin Starting
            BY <1>3, <2>3, <2>5, <4>2 DEF Starting
          <5>2. NothingCommon
            BY <2>5, <4>2, <5>1, RefusedSuites
          <5> QED
            BY <5>1, <5>2 DEF Offered
        <4> QED
          BY <3>1, <4>1, <4>2
      <3>3. NothingCommon'
        BY <2>1, <3>2 DEF NothingCommon, Usable
      <3> QED
        BY <2>1, <3>2, <3>3
    <2> QED
      BY <1>2, <1>3, <1>4, <1>6, <2>4, <2>5 DEF SuiteInv, Greets
  <1> QED
    BY <1>5, <1>6

\* Every step keeps SuiteInv.
LEMMA NextSuite ==
    ASSUME WireInv, OptInv, WrittenInv, SuiteInv, [Next]_vars
    PROVE  SuiteInv'
  <1>1. CASE Client
    <2>1. /\ \/ cProg = "ssl_client1" /\ Client1
             \/ cProg = "ssl_client2" /\ Client2
          /\ UNCHANGED <<cProg, sProg, sAll>>
      BY <1>1, Zenon DEF Client
    <2>2. UNCHANGED <<cProg, sProg, sPc, sLink, sOpt>>
      BY <2>1 DEF sAll, sVars1, sVars2
    <2>3. CASE cProg = "ssl_client1"
      BY <2>2, <2>3 DEF SuiteInv
    <2> QED
      BY <2>1, <2>2, <2>3, Client2Suite
  <1>2. CASE Server
    <2>1. /\ \/ sProg = "ssl_server" /\ Server1 /\ UNCHANGED sVars2
             \/ sProg = "ssl_server2" /\ Server2
          /\ UNCHANGED <<cProg, sProg, cAll>>
      BY <1>2, Zenon DEF Server
    <2>2. UNCHANGED <<cProg, sProg, cPc, cLink, cOpt>>
      BY <2>1 DEF cAll, cVars1, cVars2
    <2> QED
      BY <2>1, <2>2, ServerSuite
  <1>3. CASE Network \/ Quiet \/ UNCHANGED vars
    <2>1. /\ UNCHANGED <<cProg, sProg, cAll, sAll>> /\ UNCHANGED <<hello, refused>>
          /\ Break \/ Stray \/ StrayLeaves \/ UNCHANGED links
      <3>1. CASE Network
        <4>1. \/ UNCHANGED <<backlog, listening, ssl, hello, refused>>
              \/ UNCHANGED <<listening, ssl, hello, refused>>
          BY <3>1, Zenon DEF Network, Break, Stray, StrayLeaves
        <4>2. UNCHANGED <<cProg, sProg, cAll, sAll>> /\ (Break \/ Stray \/ StrayLeaves)
          BY <3>1, Zenon DEF Network
        <4> QED
          BY <4>1, <4>2
      <3>2. CASE Quiet \/ UNCHANGED vars
        BY <3>2 DEF Quiet, vars, wire
      <3> QED
        BY <1>3, <3>1, <3>2
    <2>2. UNCHANGED <<cProg, sProg, cPc, cLink, cOpt, sPc, sLink, sOpt>>
      BY <2>1 DEF cAll, cVars1, cVars2, sAll, sVars1, sVars2
    <2>3. Greets' => Greets
      <3>0. WireOK /\ EndsOK
        BY DEF WireInv
      <3>1. CASE UNCHANGED links
        BY <3>1 DEF Greets
      <3>2. CASE Break
        <4>1. /\ WireOK' /\ Len(links') = Len(links)
              /\ \A l \in 1..Len(links) :
                    \/ links'[l] = links[l]
                    \/ ~links'[l].up /\ links'[l].sent["c"] = <<>> /\ links'[l].sent["s"] = <<>>
          BY <2>2, <3>0, <3>2, WireBreak
        <4>2. links' \in Seq(Link)
          BY <4>1 DEF WireOK
        <4> QED
          BY <3>0, <4>1, <4>2, LinkGreets
      <3>3. CASE Stray
        <4>1. /\ WireOK' /\ Len(links') = Len(links) + 1
              /\ \A l \in 1..Len(links) : links'[l] = links[l]
              /\ links'[Len(links) + 1].sent["c"] = <<>>
          BY <2>2, <3>0, <3>3, StrayWire
        <4>2. links' \in Seq(Link)
          BY <4>1 DEF WireOK
        <4> QED
          BY <3>0, <4>1, <4>2, LinkGreets
      <3>4. CASE StrayLeaves
        <4>1. /\ WireOK' /\ Len(links') = Len(links)
              /\ \A l \in 1..Len(links) : \/ links'[l].sent["c"] = <<>>
                                          \/ links'[l].sent["c"] = links[l].sent["c"]
          BY <2>2, <3>0, <3>4, StrayLeavesWire
        <4>2. links' \in Seq(Link)
          BY <4>1 DEF WireOK
        <4> QED
          BY <3>0, <4>1, <4>2, LinkGreets
      <3> QED
        BY <2>1, <3>1, <3>2, <3>3, <3>4
    <2>4. Offered => Offered'
      BY <2>1, <2>2 DEF Offered, Usable
    <2>5. NothingCommon => NothingCommon'
      BY <2>2 DEF NothingCommon, Usable
    <2> QED
      BY <2>1, <2>2, <2>3, <2>4, <2>5 DEF SuiteInv, Greets
  <1> QED
    BY <1>1, <1>2, <1>3, Zenon DEF Next
------------------------------------------------------------------------------
(* The theorem about forced ciphersuites.                                  *)

\* A ciphersuite that a narrowed side forces can be used by both sides in version v
\* unless the other side lacks it for its versions or for RC4.
LEMMA UsableSuite ==
    ASSUME NEW conf, NEW v \in 0..3, NEW f \in conf.suites[v],
           Suites[f].min <= v, v <= Suites[f].max, Suites[f].rc4 => conf.arc4,
           f \in DOMAIN Suites
    PROVE  f \in Usable(conf, v)
  <1>1. v \in Suites[f].min..Suites[f].max
    BY WireAssumption
  <1> QED
    BY <1>1, Zenon DEF Usable

\* The lists of ciphersuites in the configurations.
LEMMA SuiteLists ==
    ASSUME NEW v \in 0..3
    PROVE  /\ CConf(cOpt).suites[v] = IF cOpt.force_ciphersuite = "" THEN DOMAIN Suites
                                      ELSE {cOpt.force_ciphersuite}
           /\ sOpt.version_suites = <<>> =>
                SConf(sOpt).suites[v] = IF sOpt.force_ciphersuite = "" THEN DOMAIN Suites
                                        ELSE {sOpt.force_ciphersuite}
           /\ CConf(cOpt).arc4 = (cOpt.arc4 = 1) /\ SConf(sOpt).arc4 = (sOpt.arc4 = 1)
  <1>1. \A o : AllSuites(o)[v] = IF o.force_ciphersuite = "" THEN DOMAIN Suites
                                 ELSE {o.force_ciphersuite}
    BY Zenon DEF AllSuites
  <1>2. CConf(cOpt).suites = AllSuites(cOpt) /\ CConf(cOpt).arc4 = (cOpt.arc4 = 1)
    BY DEF CConf, Configured
  <1>3. /\ sOpt.version_suites = <<>> => SConf(sOpt).suites = AllSuites(sOpt)
        /\ SConf(sOpt).arc4 = (sOpt.arc4 = 1)
    BY DEF SConf, Configured
  <1> QED
    BY <1>1, <1>2, <1>3, Zenon

\* Two narrowed sides without a common ciphersuite, one of which forces one.
LEMMA NoCommonSuite ==
    ASSUME OptInv, SuiteInv
    PROVE  ForcedSuiteIsCommon
  <1> SUFFICES ASSUME OneSideForces, refused = "suite"
               PROVE  ForcedSuiteIsCommon
    BY Zenon DEF ForcedSuiteIsCommon
  <1>1. cProg = "ssl_client2" /\ sProg = "ssl_server2" /\ sOpt.version_suites = <<>>
    BY Zenon DEF OneSideForces
  <1>2. Narrowed(cOpt) /\ Narrowed(sOpt) /\ NothingCommon
    BY <1>1, Zenon DEF SuiteInv
  <1> DEFINE a == CConf(cOpt).max
             b == SConf(sOpt).max
  <1>3. a \in 0..3 /\ b \in 0..3
    BY ConfiguredVersions
  <1>4. PICK v \in 0..3 : v = Min({a, b}) /\ v = IF a <= b THEN a ELSE b
    BY <1>3, MinOfTwo
  <1>5. \A f : ~(f \in Usable(CConf(cOpt), v) /\ f \in Usable(SConf(sOpt), v))
    BY <1>2, <1>4, Zenon DEF NothingCommon
  <1>6. /\ a = IF cOpt.max_version = -1 THEN 3 ELSE cOpt.max_version
        /\ b = IF sOpt.max_version = -1 THEN 3 ELSE sOpt.max_version
        /\ cOpt.max_version \in -1..3 /\ sOpt.max_version \in -1..3
    BY ConfiguredVersions DEF OptInv, OptionsOK, Versions
  <1>7. /\ cOpt.force_ciphersuite # "" => cOpt.force_ciphersuite \in DOMAIN Suites
        /\ sOpt.force_ciphersuite # "" => sOpt.force_ciphersuite \in DOMAIN Suites
    BY Zenon DEF OptInv, OptionsOK, SuiteNames
  <1> HIDE DEF a, b
  <1>8. CASE cOpt.force_ciphersuite = ""
    <2>1. PICK f \in DOMAIN Suites : f = sOpt.force_ciphersuite /\ f # ""
      BY <1>7, <1>8, Zenon DEF OneSideForces
    <2>2. /\ Suites[f].min <= sOpt.max_version /\ sOpt.max_version <= Suites[f].max
          /\ Suites[f].rc4 => sOpt.arc4 = 1
      BY <1>2, <2>1, Zenon DEF Narrowed
    <2>3. Suites[f].min \in 0..3 /\ Suites[f].max \in 0..3
      BY WireAssumption
    <2>4. b = sOpt.max_version
      BY <1>6, <2>2, <2>3
    <2> SUFFICES ASSUME ~(a < Suites[f].min), ~(Suites[f].rc4 /\ ~CConf(cOpt).arc4)
                 PROVE  FALSE
      BY <1>8, <2>1, Zenon DEF ForcedSuiteIsCommon, a
    <2>5. Suites[f].min <= v /\ v <= Suites[f].max
      BY <1>3, <1>4, <2>2, <2>3, <2>4
    <2>6. /\ CConf(cOpt).suites[v] = DOMAIN Suites /\ SConf(sOpt).suites[v] = {f}
          /\ SConf(sOpt).arc4 = (sOpt.arc4 = 1)
      BY <1>1, <1>8, <2>1, SuiteLists, Zenon
    <2>7. f \in CConf(cOpt).suites[v] /\ f \in SConf(sOpt).suites[v]
      BY <2>6, Zenon
    <2>8. (Suites[f].rc4 => CConf(cOpt).arc4) /\ (Suites[f].rc4 => SConf(sOpt).arc4)
      BY <2>2, <2>6, Zenon
    <2>9. f \in Usable(CConf(cOpt), v) /\ f \in Usable(SConf(sOpt), v)
      BY <2>5, <2>7, <2>8, UsableSuite, Zenon
    <2> QED
      BY <1>5, <2>9, Zenon
  <1>9. CASE cOpt.force_ciphersuite # ""
    <2>1. PICK f \in DOMAIN Suites : f = cOpt.force_ciphersuite /\ f # ""
      BY <1>7, <1>9, Zenon
    <2>2. sOpt.force_ciphersuite = ""
      BY <1>9, Zenon DEF OneSideForces
    <2>3. /\ Suites[f].min <= cOpt.max_version /\ cOpt.max_version <= Suites[f].max
          /\ Suites[f].rc4 => cOpt.arc4 = 1
      BY <1>2, <2>1, Zenon DEF Narrowed
    <2>4. Suites[f].min \in 0..3 /\ Suites[f].max \in 0..3
      BY WireAssumption
    <2>5. a = cOpt.max_version
      BY <1>6, <2>3, <2>4
    <2> SUFFICES ASSUME ~(b < Suites[f].min), ~(Suites[f].rc4 /\ ~SConf(sOpt).arc4)
                 PROVE  FALSE
      BY <1>9, <2>1, Zenon DEF ForcedSuiteIsCommon, b
    <2>6. Suites[f].min <= v /\ v <= Suites[f].max
      BY <1>3, <1>4, <2>3, <2>4, <2>5
    <2>7. /\ SConf(sOpt).suites[v] = DOMAIN Suites /\ CConf(cOpt).suites[v] = {f}
          /\ CConf(cOpt).arc4 = (cOpt.arc4 = 1)
      BY <1>1, <1>9, <2>1, <2>2, SuiteLists, Zenon
    <2>8. f \in CConf(cOpt).suites[v] /\ f \in SConf(sOpt).suites[v]
      BY <2>7, Zenon
    <2>9. (Suites[f].rc4 => CConf(cOpt).arc4) /\ (Suites[f].rc4 => SConf(sOpt).arc4)
      BY <2>3, <2>7, Zenon
    <2>10. f \in Usable(CConf(cOpt), v) /\ f \in Usable(SConf(sOpt), v)
      BY <2>6, <2>8, <2>9, UsableSuite, Zenon
    <2> QED
      BY <1>5, <2>10, Zenon
  <1> QED
    BY <1>8, <1>9, Zenon

\* Everything holds at the start, when there is no connection.
LEMMA InitOK ==
    ASSUME Init
    PROVE  WireInv /\ OptInv /\ WrittenInv /\ LockInv /\ SuiteInv
  <1>1. /\ links = <<>> /\ backlog = <<>> /\ cLink = 0 /\ sLink = 0
        /\ cPc = "begin" /\ sPc = "begin" /\ cWritten = 0 /\ sWritten = 0
        /\ ssl = [c |-> "start", s |-> "start"] /\ refused = "no"
    BY DEF Init, Init1, Init2, SInit1, SInit2, WireInit
  <1>2. cOpt = CDefaults /\ sOpt = SDefaults /\ hello.max = 0
    <2>1. cOpt = CDefaults /\ sOpt = SDefaults
      BY Zenon DEF Init, Init2, SInit2
    <2>2. hello = [min |-> 0, max |-> 0, suites |-> <<>>, resume |-> FALSE]
      BY Zenon DEF Init, WireInit
    <2> QED
      BY <2>1, <2>2
  <1>3. /\ links \in Seq(Link) /\ backlog \in Seq(1..Len(links)) /\ Len(links) = 0
        /\ DOMAIN links = {} /\ DOMAIN backlog = {}
    <2>1. links \in Seq(Link) /\ Len(links) = 0 /\ DOMAIN links = {} /\ DOMAIN backlog = {}
      BY <1>1
    <2>2. backlog \in Seq(1..Len(links))
      BY <1>1
    <2> QED
      BY <2>1, <2>2
  <1>4. DOMAIN ssl = Side /\ ssl["c"] = "start" /\ ssl["s"] = "start"
    BY <1>1 DEF Side
  <1>5. \A l : ~Waiting(l)
    BY <1>3, Zenon DEF Waiting
  <1>6. WireOK
    BY <1>1, <1>3, <1>4 DEF WireOK
  <1>7. EndsOK
    BY <1>1, <1>3, <1>5, Zenon DEF EndsOK
  <1>8. CPcOK /\ SPcOK
    BY <1>1, <1>4 DEF CPcOK, SPcOK, CUnlinked, SUnlinked, SLinked
  <1>9. OptInv
    <2>1. /\ cOpt.request_size \in Int /\ sWritten \in Int /\ hello.max \in 0..3
          /\ cOpt.max_frag_len \in 1..MaxContent
      BY <1>1, <1>2, DefaultOptions, WireAssumption
    <2>2. OptionsOK(cOpt, CDefaults) /\ OptionsOK(sOpt, SDefaults)
      BY <1>2, DefaultOptions, Zenon
    <2> QED
      BY <2>1, <2>2, Zenon DEF OptInv
  <1>10. WrittenInv
    BY <1>1, Zenon DEF WrittenInv
  <1>11. LockInv
    BY <1>1, Zenon DEF LockInv
  <1>12. SuiteInv
    <2>1. cPc \in Starting /\ sPc \in Starting /\ refused # "suite"
      BY <1>1 DEF Starting
    <2>2. cPc \in Starting \cup {"exit", "done"} /\ sPc \in Starting \cup {"exit", "done"}
      BY <2>1, Zenon
    <2> QED
      BY <1>3, <2>1, <2>2, Zenon DEF SuiteInv
  <1> QED
    BY <1>6, <1>7, <1>8, <1>9, <1>10, <1>11, <1>12, Zenon DEF WireInv
------------------------------------------------------------------------------
(* Requests and responses: steps that leave the client's connection alone. *)

ClientRests == UNCHANGED <<cLink, cPc, cWritten, cProg, sProg>>

\* The client's connection and the server's place on it stay.
LEMMA LockSame ==
    ASSUME cLink # 0, Locked, ClientRests,
           In' = In, Out' = Out, links'[cLink].up = links[cLink].up, ssl'["c"] = ssl["c"],
           Waiting(cLink)' <=> Waiting(cLink),
           \/ sLink # cLink /\ sLink' # cLink
           \/ sLink' = sLink /\ sPc' = sPc /\ ssl'["s"] = ssl["s"]
    PROVE  Locked'
  <1>1. cLink' = cLink /\ cPc' = cPc /\ cWritten' = cWritten /\ cProg' = cProg /\ sProg' = sProg
    BY DEF ClientRests
  <1>2. /\ Busy' <=> Busy
        /\ \A P : Served(P)' <=> Served(P)
    BY <1>1 DEF Busy, Served
  <1>3. CloseInv'
    BY <1>1, <1>2 DEF Locked, CloseInv
  <1>4. sProg = "ssl_server" => Lock1'
    BY <1>1, <1>2 DEF Locked, Lock1
  <1>5. sProg = "ssl_server2" /\ cProg = "ssl_client1" => Lock12'
    BY <1>1, <1>2 DEF Locked, Lock12
  <1>6. sProg = "ssl_server2" /\ cProg = "ssl_client2" => Lock22'
    BY <1>1, <1>2 DEF Locked, Lock22
  <1>7. sProg = "ssl_server" /\ cProg = "ssl_client2" => Lock21'
    <2>1. (Greeting => Greeting') /\ (Shaken => Shaken')
      BY <1>1 DEF Greeting, Shaken
    <2>2. Shaking => Shaking'
      BY <1>1 DEF Shaking
    <2>3. Aligned => Aligned'
      BY <1>1, <2>1, <2>2 DEF Aligned
    <2> QED
      BY <1>1, <1>2, <2>3 DEF Locked, Lock21
  <1> QED
    BY <1>1, <1>3, <1>4, <1>5, <1>6, <1>7, Zenon DEF Locked

\* The connection breaks.
LEMMA LockBreak ==
    ASSUME cLink # 0, Locked, ClientRests,
           In' = <<>>, Out' = <<>>, ~links'[cLink].up,
           Waiting(cLink)' <=> Waiting(cLink), UNCHANGED <<sLink, sPc>>
    PROVE  Locked'
  <1>1. cLink' = cLink /\ cPc' = cPc /\ cWritten' = cWritten /\ cProg' = cProg /\ sProg' = sProg
    BY DEF ClientRests
  <1>2. Busy' <=> Busy
    BY <1>1 DEF Busy
  <1>3. /\ \A T : ~Has(In', T) /\ ~Has(Out', T)
        /\ ~Ends(In') /\ ~Ends(Out')
    BY EmptyQueue
  <1>4. CloseInv' /\ Lock1'
    BY <1>3, Zenon DEF CloseInv, Lock1
  <1>5. sProg = "ssl_server2" /\ cProg = "ssl_client1" => Lock12'
    BY <1>1, <1>2, <1>3 DEF Locked, Lock12
  <1>6. sProg = "ssl_server2" /\ cProg = "ssl_client2" => Lock22'
    BY <1>1, <1>2, <1>3 DEF Locked, Lock22
  <1>7. Lock21'
    BY <1>1 DEF Lock21
  <1> QED
    BY <1>1, <1>4, <1>5, <1>6, <1>7, Zenon DEF Locked

\* The server leaves the client's connection, or drops it before it accepts it.
LEMMA LockLeave ==
    ASSUME WireInv, cLink # 0, Locked, ClientRests,
           In' = In, Out' = Out \/ Out' = <<>>,
           ~Waiting(cLink)', sLink' # cLink,
           Waiting(cLink) \/ (sLink = cLink /\ sPc \in {"reset", "exit"})
    PROVE  Locked'
  <1>1. cLink' = cLink /\ cPc' = cPc /\ cWritten' = cWritten /\ cProg' = cProg /\ sProg' = sProg
    BY DEF ClientRests
  <1>2. ~Busy /\ ~Busy' /\ (\A P : Served(P)')
    BY <1>1 DEF Busy, Served, WireInv, EndsOK
  <1>3. /\ \A T : Has(Out', T) => Has(Out, T)
        /\ Ends(Out') => Ends(Out)
        /\ EndLast(Out) => EndLast(Out')
    BY EmptyQueue
  <1>4. CloseInv'
    BY <1>2 DEF Locked, CloseInv
  <1>5. sProg = "ssl_server" => Lock1'
    BY <1>2 DEF Locked, Lock1
  <1>6. sProg = "ssl_server2" /\ cProg = "ssl_client1" => Lock12'
    BY <1>1, <1>2, <1>3 DEF Locked, Lock12
  <1>7. sProg = "ssl_server2" /\ cProg = "ssl_client2" => Lock22'
    BY <1>1, <1>2, <1>3 DEF Locked, Lock22
  <1>8. sProg = "ssl_server" /\ cProg = "ssl_client2" => Lock21'
    <2>1. SUFFICES ASSUME sProg = "ssl_server", cProg = "ssl_client2", cPc \in Idle, cWritten = 0
                   PROVE  ~Has(In, {"data"})
      BY <1>1, <1>2 DEF Lock21
    <2>2. CASE Waiting(cLink)
      BY <2>1, <2>2 DEF Locked, Lock1, Served
    <2>3. CASE sLink = cLink /\ sPc \in {"reset", "exit"}
      <3>1. ~Waiting(cLink) /\ (~links[cLink].up => In = <<>>)
        BY <2>3 DEF WireInv, WireOK, EndsOK, In
      <3>2. ~Aligned
        BY <2>3, <3>1 DEF Aligned, Greeting, Shaking, Shaken
      <3>3. ~links[cLink].up \/ ~Has(In, {"data"})
        BY <2>1, <3>2 DEF Locked, Lock21
      <3> QED
        BY <3>1, <3>3, EmptyQueue
    <2> QED
      BY <2>2, <2>3
  <1> QED
    BY <1>1, <1>4, <1>5, <1>6, <1>7, <1>8, Zenon DEF Locked

\* The server accepts the client's connection.
LEMMA LockAccept ==
    ASSUME cLink # 0, Locked, ClientRests, UNCHANGED <<links, ssl>>,
           Waiting(cLink), sLink # cLink, sLink' = cLink, sPc' = "handshake", ssl["s"] = "start"
    PROVE  Locked'
  <1>1. cLink' = cLink /\ cPc' = cPc /\ cWritten' = cWritten /\ cProg' = cProg /\ sProg' = sProg
    BY DEF ClientRests
  <1>2. In' = In /\ Out' = Out /\ links'[cLink].up = links[cLink].up
    BY <1>1 DEF In, Out
  <1>3. ~Busy /\ ~Busy' /\ ~Served({"reset", "exit"}) /\ ~Served(Parting) /\ ~Served(Closing)
    BY <1>1 DEF Busy, Served
  <1>4. CloseInv'
    BY <1>2, <1>3 DEF Locked, CloseInv
  <1>5. sProg = "ssl_server" => Lock1'
    BY <1>2, <1>3 DEF Locked, Lock1
  <1>6. sProg = "ssl_server2" /\ cProg = "ssl_client1" => Lock12'
    BY <1>1, <1>2, <1>3 DEF Locked, Lock12
  <1>7. sProg = "ssl_server2" /\ cProg = "ssl_client2" => Lock22'
    BY <1>1, <1>2, <1>3 DEF Locked, Lock22
  <1>8. sProg = "ssl_server" /\ cProg = "ssl_client2" => Lock21'
    <2>1. ~Shaking /\ ~Shaken
      BY DEF Shaking, Shaken
    <2>2. Greeting => Greeting'
      BY <1>1, <1>2 DEF Greeting
    <2>3. Aligned => Aligned'
      BY <1>1, <2>1, <2>2 DEF Aligned
    <2> QED
      BY <1>1, <1>2, <1>3, <2>3 DEF Locked, Lock21
  <1> QED
    BY <1>1, <1>4, <1>5, <1>6, <1>7, <1>8, Zenon DEF Locked

\* A new connection has no records under way.
LEMMA LockConnect ==
    ASSUME In' = <<>>, Out' = <<>>, Waiting(cLink)', ssl'["c"] = "start", sLink' # cLink',
           cPc' \in {"config", "reconnect_handshake"}
    PROVE  Locked'
  <1>1. /\ \A T : ~Has(In', T) /\ ~Has(Out', T)
        /\ ~Ends(In') /\ ~Ends(Out')
    BY EmptyQueue
  <1>2. ~Busy'
    BY DEF Busy
  <1>3. CloseInv' /\ Lock1' /\ Lock12' /\ Lock22'
    BY <1>1, <1>2 DEF CloseInv, Lock1, Lock12, Lock22
  <1>4. Aligned'
    BY DEF Aligned, Greeting
  <1> QED
    BY <1>3, <1>4, Zenon DEF Locked, Lock21
------------------------------------------------------------------------------
(* Requests and responses: the client's steps on its connection.           *)

\* What every step of a client on its connection leaves alone: it takes what has
\* arrived, and only the server sends to it.
ClientStep ==
    /\ UNCHANGED <<cLink, cProg, sProg, sLink, sPc, backlog>> /\ ssl'["s"] = ssl["s"]
    /\ links'[cLink].up = links[cLink].up
    /\ Shrunk(In, In')

\* The server's part of the invariant.
LEMMA ClientStepKeeps ==
    ASSUME WireInv, cLink # 0, ClientStep
    PROVE  /\ In \in Seq(Record) /\ Out \in Seq(Record)
           /\ Busy' <=> Busy
           /\ Waiting(cLink)' <=> Waiting(cLink)
           /\ \A P : Served(P)' <=> Served(P)
           /\ \A T : Has(In', T) => Has(In, T)
           /\ Ends(In') => Ends(In)
           /\ EndLast(In) => EndLast(In')
           /\ CloseInv => CloseInv'
           /\ Lock1 => Lock1'
  <1>1. cLink' = cLink /\ sLink' = sLink /\ sPc' = sPc
    BY DEF ClientStep
  <1>2. In \in Seq(Record) /\ Out \in Seq(Record)
    BY QueueStep DEF WireInv, WireOK, In, Out, Side
  <1>3. Waiting(cLink)' <=> Waiting(cLink)
    BY <1>1 DEF ClientStep, Waiting
  <1>4. /\ Busy' <=> Busy
        /\ \A P : Served(P)' <=> Served(P)
    BY <1>1, <1>3 DEF Busy, Served
  <1>5. /\ \A T : Has(In', T) => Has(In, T)
        /\ Ends(In') => Ends(In)
        /\ EndLast(In) => EndLast(In')
        /\ CloseLast(In) => CloseLast(In')
    BY <1>2, ShrunkQueue, Zenon DEF ClientStep
  <1>6. (CloseInv => CloseInv') /\ (Lock1 => Lock1')
    BY <1>4, <1>5, Zenon DEF CloseInv, Lock1
  <1> QED
    BY <1>2, <1>3, <1>4, <1>5, <1>6, Zenon

\* The client takes what has arrived and sends nothing but records of the kinds T.
ClientMoves(T) ==
    /\ links'[cLink].up = links[cLink].up /\ Shrunk(In, In') /\ Grown(Out, Out', T)

\* What a call on the connection does for the client.
LEMMA ClientIo ==
    ASSUME WireInv, cLink # 0, cLink' = cLink, NEW T, NEW r \in Record, r.t \in T,
           UNCHANGED links \/ Sends(cLink, "c", r) \/ Takes(cLink, "c") \/ Swaps(cLink, "c", r)
    PROVE  ClientMoves(T)
  <1>1. cLink \in 1..Len(links) /\ WireOK /\ "c" \in Side /\ Peer("c") = "s"
    BY DEF WireInv, WireOK, Side, Peer
  <1>2. /\ In = links[cLink].sent["s"] /\ Out = links[cLink].sent["c"]
        /\ In' = links'[cLink].sent["s"] /\ Out' = links'[cLink].sent["c"]
        /\ Arrived(cLink, "c") = In
    BY <1>1 DEF In, Out, Arrived
  <1>3. CASE UNCHANGED links
    <2>1. links'[cLink].up = links[cLink].up /\ In' = In /\ Out' = Out
      BY <1>2, <1>3
    <2> QED
      BY <2>1, Zenon DEF ClientMoves, Shrunk, Grown
  <1>4. CASE Sends(cLink, "c", r)
    <2>1. links'[cLink].up = links[cLink].up /\ Grown(Out, Out', T) /\ In' = In
      BY <1>1, <1>2, <1>4, QueueStep, Zenon
    <2> QED
      BY <2>1, Zenon DEF ClientMoves, Shrunk
  <1>5. CASE Takes(cLink, "c")
    <2>1. links'[cLink].up = links[cLink].up /\ Out' = Out /\ In # <<>> /\ In' = Tail(In)
      BY <1>1, <1>2, <1>5, QueueStep, Zenon
    <2> QED
      BY <2>1, Zenon DEF ClientMoves, Shrunk, Grown
  <1>6. CASE Swaps(cLink, "c", r)
    <2>1. links'[cLink].up = links[cLink].up /\ Grown(Out, Out', T) /\ In # <<>> /\ In' = Tail(In)
      BY <1>1, <1>2, <1>6, QueueStep, Zenon
    <2> QED
      BY <2>1, Zenon DEF ClientMoves, Shrunk
  <1> QED
    BY <1>3, <1>4, <1>5, <1>6

Control == {"rehello", "redone", "norenego"}

\* The calls of the library.
LEMMA ClientCalls ==
    ASSUME WireInv, cLink # 0, cLink' = cLink
    PROVE  /\ \A T : UNCHANGED links => ClientMoves(T)
           /\ \A T : \A r \in Record : \A result :
                r.t \in T /\ SslWrite(cLink, "c", r, result) => ClientMoves(T)
           /\ \A result : SslRead(cLink, "c", result) => ClientMoves({})
           /\ \A b : SslReadControl(cLink, "c", b) => ClientMoves(Control)
           /\ \A result : SslRenegotiated(cLink, result) => ClientMoves({})
  <1>1. /\ cLink \in 1..Len(links) /\ links \in Seq(Link) /\ "c" \in Side
        /\ In = links[cLink].sent["s"] /\ Out = links[cLink].sent["c"]
        /\ In' = links'[cLink].sent["s"] /\ Out' = links'[cLink].sent["c"]
    BY DEF WireInv, WireOK, Side, In, Out
  <1>2. \A T : UNCHANGED links => ClientMoves(T)
    BY <1>1 DEF ClientMoves, Shrunk, Grown
  <1>3. \A T : \A r \in Record : \A result :
            r.t \in T /\ SslWrite(cLink, "c", r, result) => ClientMoves(T)
    <2> TAKE T
    <2> TAKE r \in Record
    <2> TAKE result
    <2> HAVE r.t \in T /\ SslWrite(cLink, "c", r, result)
    <2>1. UNCHANGED links \/ Sends(cLink, "c", r)
      BY <1>1, WriteStep, Zenon
    <2> QED
      BY <2>1, ClientIo, Zenon
  <1>4. Takes(cLink, "c") => ClientMoves({})
    <2> HAVE Takes(cLink, "c")
    <2>1. /\ Rec("fatal", 0) \in Record /\ Rec("fatal", 0).t \in {"fatal"}
          /\ WireOK /\ Peer("c") = "s"
      BY PlainRecords DEF WireInv, Peer
    <2>2. links'[cLink].up = links[cLink].up /\ Out' = Out /\ In # <<>> /\ In' = Tail(In)
      BY <1>1, <2>1, QueueStep, Zenon DEF Arrived
    <2> QED
      BY <2>2, Zenon DEF ClientMoves, Shrunk, Grown
  <1>5. \A result : SslRead(cLink, "c", result) => ClientMoves({})
    <2> TAKE result
    <2> HAVE SslRead(cLink, "c", result)
    <2>1. UNCHANGED links \/ Takes(cLink, "c")
      BY <1>1, ReadStep, Zenon
    <2> QED
      BY <1>2, <1>4, <2>1, Zenon
  <1>6. \A b : SslReadControl(cLink, "c", b) => ClientMoves(Control)
    <2> TAKE b
    <2> HAVE SslReadControl(cLink, "c", b)
    <2>1. PICK t \in Control : Takes(cLink, "c") \/ Swaps(cLink, "c", Rec(t, 0))
      BY <1>1, ControlStep, Zenon DEF Control
    <2>2. Rec(t, 0) \in Record /\ Rec(t, 0).t \in Control
      BY PlainRecords DEF Control
    <2> QED
      BY <2>1, <2>2, ClientIo, Zenon
  <1>7. \A result : SslRenegotiated(cLink, result) => ClientMoves({})
    <2> TAKE result
    <2> HAVE SslRenegotiated(cLink, result)
    <2>1. UNCHANGED links \/ Takes(cLink, "c")
      BY <1>1, RenegotiatedStep, Zenon
    <2> QED
      BY <1>2, <1>4, <2>1, Zenon
  <1> QED
    BY <1>2, <1>3, <1>5, <1>6, <1>7, Zenon

\* The records a client sends in a handshake.
LEMMA ClientShakes ==
    ASSUME WireInv, cLink # 0, cLink' = cLink, NEW conf, NEW resume, NEW result,
           SslHandshake(cLink, "c", conf, resume, result)
    PROVE  ClientMoves({"hello", "finish", "fatal"}) /\ ssl'["s"] = ssl["s"]
  <1>1. /\ cLink \in 1..Len(links) /\ links \in Seq(Link) /\ "c" \in Side /\ DOMAIN ssl = Side
        /\ Peer("c") = "s" /\ "c" # "s"
    BY DEF WireInv, WireOK, Side, Peer
  <1>2. /\ ssl'["s"] = ssl["s"]
        /\ \/ \E p \in Script : Follows(p, cLink, "c", conf, resume, result)
           \/ Fails(cLink, "c", conf, result)
    BY <1>1, HandshakeStep, Zenon
  <1>3. Rec("fatal", 0) \in Record /\ Rec("fatal", 0).t \in {"hello", "finish", "fatal"}
    BY PlainRecords
  <1>4. CASE Fails(cLink, "c", conf, result)
    BY <1>2, <1>3, <1>4, ClientIo, Zenon DEF Fails
  <1>5. CASE \E p \in Script : Follows(p, cLink, "c", conf, resume, result)
    <2>1. PICK p \in Script : Follows(p, cLink, "c", conf, resume, result)
      BY <1>5
    <2>2. CASE Takes(cLink, "c")
      BY <1>2, <1>3, <2>2, ClientIo, Zenon
    <2>3. CASE p[3] = "!" /\ \E n \in Int : Sends(cLink, "c", Rec(p[4], n))
      <3>1. PICK n \in Int : Sends(cLink, "c", Rec(p[4], n))
        BY <2>3
      <3>2. p[4] \in {"hello", "finish"}
        <4>1. p[1] = "c"
          BY <2>1, Zenon DEF Follows
        <4> QED
          BY <2>3, <4>1 DEF Script
      <3>3. Rec(p[4], n) \in Record /\ Rec(p[4], n).t \in {"hello", "finish", "fatal"}
        BY <3>2, RecordTypes DEF Kinds
      <3> QED
        BY <1>2, <3>1, <3>3, ClientIo, Zenon
    <2> QED
      BY <2>1, <2>2, <2>3, Zenon DEF Follows
  <1> QED
    BY <1>2, <1>4, <1>5, Zenon

\* A client connects: its connection waits to be accepted.
LEMMA ConnectLock ==
    ASSUME WireInv, ssl["c"] = "start", links' = Append(links, NewLink), cLink' = Len(links) + 1,
           backlog' = Append(backlog, Len(links) + 1), UNCHANGED <<ssl, sLink>>,
           cPc' \in {"config", "reconnect_handshake"}
    PROVE  LockInv'
  <1>1. NewLink \in Link /\ NewLink.up /\ NewLink.open = {"c", "s"} /\ NewLink.sent = NoQueues
    BY EmptyQueue DEF NewLink, NoQueues, Link, Side
  <1>2. links'[Len(links) + 1] = NewLink
    BY <1>1, WireConnect DEF WireInv
  <1>3. In' = <<>> /\ Out' = <<>>
    BY <1>1, <1>2 DEF In, Out, NoQueues
  <1>4. \A l : Waiting(l)' <=> Waiting(l) \/ l = Len(links) + 1
    BY WaitingSteps, Zenon DEF WireInv
  <1>5. Waiting(cLink)'
    BY <1>4 DEF Waiting
  <1>6. sLink' # cLink'
    BY DEF WireInv, WireOK
  <1>7. Locked'
    BY <1>3, <1>5, <1>6, LockConnect
  <1> QED
    BY <1>7, Zenon DEF LockInv

\* ssl_client1 with ssl_server2: what the client sends outside of send is no request.
LEMMA Client1Lock12 ==
    ASSUME WireInv, cLink # 0, Locked, ClientStep, sProg = "ssl_server2", cProg = "ssl_client1",
           \/ cPc' \in {"read", "close", "exit"}
           \/ cPc \notin {"read", "close", "exit"} /\ Grown(Out, Out', {"hello", "finish", "fatal"})
    PROVE  Lock12'
  <1>1. /\ Out \in Seq(Record) /\ (Busy' <=> Busy) /\ \A T : Has(In', T) => Has(In, T)
    BY ClientStepKeeps, Zenon
  <1>2. CASE cPc' \in {"read", "close", "exit"}
    BY <1>2 DEF Lock12
  <1>3. CASE cPc \notin {"read", "close", "exit"} /\ Grown(Out, Out', {"hello", "finish", "fatal"})
    <2>1. "data" \notin {"hello", "finish", "fatal"}
      OBVIOUS
    <2>2. Has(Out', {"data"}) => Has(Out, {"data"})
      BY <1>1, <1>3, <2>1, GrownQueue, ZenonT(60)
    <2>3. ~Has(Out, {"data"}) /\ ~Busy /\ ~Has(In, {"hreq"})
      BY <1>3, Zenon DEF Locked, Lock12
    <2> QED
      BY <1>1, <2>2, <2>3, Zenon DEF Lock12
  <1> QED
    BY <1>2, <1>3

\* ssl_client1 keeps in step with both servers.
LEMMA Client1Lock ==
    ASSUME WireInv, LockInv, cProg = "ssl_client1", Client1, UNCHANGED <<cProg, sProg, sPc, sLink>>
    PROVE  LockInv'
  <1>1. cLink \in 0..Len(links) /\ Len(links) \in Nat
    BY DEF WireInv, WireOK
  <1> DEFINE K == {"hello", "finish", "fatal"}
             Stays(T) == cLink' = cLink /\ UNCHANGED backlog /\ ssl'["s"] = ssl["s"]
                         /\ (cLink # 0 => ClientMoves(T))
  <1>2. ASSUME NEW T, Stays(T),
               cPc' \in {"read", "close", "exit"} \/ (cPc \notin {"read", "close", "exit"} /\ T = K)
        PROVE  LockInv'
    <2> SUFFICES ASSUME cLink # 0 PROVE Locked'
      BY <1>2, Zenon DEF LockInv
    <2>1. Locked
      BY Zenon DEF LockInv
    <2>2. ClientStep
      BY <1>2 DEF ClientStep, ClientMoves
    <2>3. CloseInv' /\ (Lock1 => Lock1')
      BY <2>1, <2>2, ClientStepKeeps, Zenon DEF Locked
    <2>4. Grown(Out, Out', T)
      BY <1>2, Zenon DEF ClientMoves
    <2>5. sProg = "ssl_server2" => Lock12'
      BY <1>2, <2>1, <2>2, <2>4, Client1Lock12, Zenon
    <2>6. cProg' = "ssl_client1" /\ sProg' = sProg /\ cProg' # "ssl_client2"
      OBVIOUS
    <2> QED
      BY <2>1, <2>3, <2>5, <2>6, Zenon DEF Locked
  <1> HIDE DEF Stays, K
  <1>3. CASE C1Begin \/ C1LoadCa \/ C1Config
    <2>1. /\ UNCHANGED <<links, backlog, cLink, ssl>>
          /\ cPc \notin {"read", "close", "exit"}
      BY <1>3 DEF C1Begin, C1LoadCa, C1Config, cRest, wire, CCall, CGoto
    <2>2. Stays(K)
      BY <2>1, ClientCalls DEF Stays
    <2> QED
      BY <1>2, <2>1, <2>2, Zenon
  <1>4. CASE C1Connect
    <2>1. CASE UNCHANGED wire /\ UNCHANGED cLink /\ cPc' = "exit"
      <3>1. UNCHANGED <<links, backlog, cLink, ssl>> /\ cPc' \in {"read", "close", "exit"}
        BY <2>1 DEF wire
      <3>2. Stays(K)
        BY <3>1, ClientCalls DEF Stays
      <3> QED
        BY <1>2, <3>1, <3>2, Zenon
    <2>2. CASE /\ links' = Append(links, NewLink) /\ cLink' = Len(links) + 1
               /\ backlog' = Append(backlog, Len(links) + 1) /\ ssl' = ssl
               /\ cPc = "connect" /\ cPc' = "config"
      <3>1. ssl["c"] = "start"
        BY <2>2 DEF WireInv, CPcOK, CUnlinked
      <3> QED
        BY <2>2, <3>1, ConnectLock
    <2> QED
      BY <1>4, <2>1, <2>2 DEF C1Connect, CNetConnect, CGoto
  <1>5. CASE C1Handshake
    <2>1. PICK result \in {"more", "ok", "error"} :
            /\ cPc = "handshake" /\ SslHandshake(cLink, "c", Conf1, FALSE, result)
            /\ UNCHANGED <<cLink, backlog>>
      BY <1>5 DEF C1Handshake, cRest
    <2>2. cLink # 0
      BY <1>1, <2>1 DEF WireInv, CPcOK, CUnlinked
    <2>3. Stays(K)
      BY <2>1, <2>2, ClientShakes, Zenon DEF Stays, K
    <2> QED
      BY <1>2, <2>1, <2>3
  <1>6. CASE C1Write \/ C1Read \/ C1Close
    <2>1. /\ cPc \in {"send", "read", "close"} /\ cPc' \in {"read", "close", "exit"}
          /\ UNCHANGED <<cLink, backlog, ssl>>
      BY <1>6 DEF C1Write, C1Read, C1Close, CGoto, wireRest, cRest
    <2>2. cLink # 0
      BY <1>1, <2>1 DEF WireInv, CPcOK, CUnlinked
    <2>3. /\ Data(GetLen, TRUE) \in Record /\ Rec("close", 0) \in Record
          /\ Data(GetLen, TRUE).t = "data" /\ Rec("close", 0).t = "close"
      <3>1. GetLen \in Int
        BY GetAssumption
      <3>2. Data(GetLen, TRUE) \in Record /\ Data(GetLen, TRUE).t = "data"
        BY <3>1, RecordTypes, Zenon
      <3> QED
        BY <3>2, PlainRecords
    <2>4. \/ \E r \in Record, result \in {"ok", "error"} :
                r.t \in {"data", "close"} /\ SslWrite(cLink, "c", r, result)
          \/ \E result : SslRead(cLink, "c", result)
          \/ \E b : SslReadControl(cLink, "c", b)
      BY <1>6, <2>3, Zenon DEF C1Write, C1Read, C1Close
    <2>5. PICK T : ClientMoves(T)
      BY <2>1, <2>2, <2>4, ClientCalls, Zenon
    <2>6. Stays(T)
      BY <2>1, <2>5 DEF Stays
    <2> QED
      BY <1>2, <2>1, <2>6, Zenon
  <1>7. CASE C1Exit
    BY <1>7 DEF C1Exit, CNetFree, LockInv
  <1> QED
    BY <1>3, <1>4, <1>5, <1>6, <1>7 DEF Client1
------------------------------------------------------------------------------
(* The steps of ssl_client2 on its connection.                             *)

OverPcs == {"session", "renegotiate", "renegotiating", "send"}
HardPcs == {"hard", "again", "hard_handshake"}

\* It gives up, waits for the network, or goes on without any call.
Leaves2 == cPc' \in CUnlinked \cup {"exit", "done"}
Rests2 == UNCHANGED <<cPc, cWritten, links, ssl>>
GoesOn2 ==
    /\ cPc \in Idle /\ cWritten = 0 /\ UNCHANGED <<links, cWritten>>
    /\ cPc \notin HardPcs => /\ UNCHANGED ssl /\ cPc' \notin HardPcs
                             /\ cPc' \in OverPcs => cPc \in OverPcs

\* Handshakes and renegotiations.
Shakes2 ==
    /\ cPc \in CHandshakes /\ cWritten = 0 /\ UNCHANGED cWritten
    /\ ClientMoves({"hello", "finish", "fatal"})
    /\ \E p \in Script, result \in {"more", "ok"} :
        /\ Follows(p, cLink, "c", CConf(cOpt), cSaved, result)
        /\ \/ result = "more" /\ cPc' = cPc
           \/ result = "ok" /\ cPc' \in {"session", "send"}
Asks2 ==
    /\ cPc = "renegotiate" /\ cPc' = "renegotiating" /\ cWritten = 0 /\ UNCHANGED <<ssl, cWritten>>
    /\ Sends(cLink, "c", Rec("rehello", 0))
Answered2 ==
    /\ cPc = "renegotiating" /\ cPc' = "send" /\ cWritten = 0 /\ UNCHANGED <<ssl, cWritten>>
    /\ ClientMoves({})

\* Requests and responses.
Piece2 ==
    /\ cPc = "send" /\ UNCHANGED ssl
    /\ \E r \in Record : /\ r.t = "data" /\ Sends(cLink, "c", r)
                         /\ \/ r.nl /\ cPc' = "read" /\ cWritten' = 0
                            \/ ~r.nl /\ cPc' = "send" /\ cWritten' # 0
Reads2 ==
    /\ cPc = "read" /\ cWritten' = 0 /\ Takes(cLink, "c")
    /\ \/ Head(In).t = "data" /\ cPc' = IF Head(In).nl THEN "hard" ELSE "read"
       \/ Head(In).t = "close" /\ cPc' = "close"
Answers2 == cPc = "read" /\ cPc' = "read" /\ cWritten' = 0 /\ ClientMoves(Control)
Eof2 ==
    /\ cPc = "read" /\ cPc' = "reconnect" /\ cWritten' = 0 /\ UNCHANGED links
    /\ In = <<>> /\ Gone(cLink, "c")
Closes2 == cPc = "close" /\ cPc' = "reconnect" /\ cWritten' = 0 /\ ClientMoves({"close"})

Works2 ==
    \/ Leaves2 \/ Rests2 \/ GoesOn2 \/ Shakes2 \/ Asks2 \/ Answered2
    \/ Piece2 \/ Reads2 \/ Answers2 \/ Eof2 \/ Closes2

\* The client stays on its connection.
Stays2 ==
    /\ cLink' = cLink /\ UNCHANGED backlog /\ ssl'["s"] = ssl["s"]
    /\ (\E T : ClientMoves(T)) /\ Works2

\* Without a call.
LEMMA QuietSteps2 ==
    ASSUME WireInv, WrittenInv, cLink # 0, cProg = "ssl_client2",
           C2Prepares \/ C2Session \/ C2Again \/ C2Want \/ C2Hard
    PROVE  Stays2
  <1>1. cPc \notin {"send", "exit", "done"} => cWritten = 0
    BY Zenon DEF WrittenInv
  <1>2. DOMAIN ssl = Side
    BY DEF WireInv, WireOK
  <1>3. CASE C2Prepares
    <2>1. /\ UNCHANGED <<links, backlog, ssl, cLink, cWritten>>
          /\ \/ cPc \in CUnlinked \ {"connect"} /\ cPc' \in (CUnlinked \ {"reconnect_connect"}) \cup {"exit"}
             \/ cPc = "config" /\ cPc' \in {"setup", "exit"}
             \/ cPc = "setup" /\ cPc' \in {"handshake", "exit"}
      BY <1>3, Client2Prepares
    <2>2. Leaves2 \/ GoesOn2
      BY <1>1, <2>1 DEF Leaves2, GoesOn2, CUnlinked, Idle, HardPcs, OverPcs
    <2>3. ClientMoves({})
      BY <2>1, ClientCalls
    <2> QED
      BY <2>1, <2>2, <2>3 DEF Stays2, Works2
  <1>4. CASE C2Session \/ C2Again \/ C2Want
    <2>1. UNCHANGED <<links, backlog, ssl, cLink, cWritten>>
      BY <1>4 DEF C2Session, C2Again, C2Want, cRest2, cRest, cVars1, wire
    <2>2. \/ cPc = "session" /\ cPc' \in {"renegotiate", "exit"}
          \/ cPc = "again" /\ cPc' \in {"send", "close"}
          \/ cPc' = cPc
      BY <1>4 DEF C2Session, C2Again, C2Want, CGoto, cVars1
    <2>3. Leaves2 \/ GoesOn2 \/ Rests2
      BY <1>1, <2>1, <2>2 DEF Leaves2, GoesOn2, Rests2, CUnlinked, Idle, HardPcs, OverPcs
    <2>4. ClientMoves({})
      BY <2>1, ClientCalls
    <2> QED
      BY <2>1, <2>3, <2>4 DEF Stays2, Works2
  <1>5. CASE C2Hard
    <2>1. /\ UNCHANGED <<links, backlog, cLink, cWritten>>
          /\ ssl' = ssl \/ ssl' = [ssl EXCEPT !["c"] = "start"]
          /\ cPc = "hard" /\ cPc' \in {"again", "hard_handshake", "exit"}
      BY <1>5 DEF C2Hard, CGoto, cRest2, cRest
    <2>2. ssl'["s"] = ssl["s"]
      BY <1>2, <2>1 DEF Side
    <2>3. Leaves2 \/ GoesOn2
      BY <1>1, <2>1 DEF Leaves2, GoesOn2, CUnlinked, Idle, HardPcs, OverPcs
    <2>4. ClientMoves({})
      BY <2>1, ClientCalls
    <2> QED
      BY <2>1, <2>2, <2>3, <2>4 DEF Stays2, Works2
  <1> QED
    BY <1>3, <1>4, <1>5

\* A handshake.
LEMMA HandshakeSteps2 ==
    ASSUME WireInv, WrittenInv, cLink # 0,
           C2Handshake \/ C2HardHandshake \/ C2ReconnectHandshake
    PROVE  Stays2
  <1>1. /\ cLink \in 1..Len(links) /\ links \in Seq(Link) /\ "c" \in Side /\ DOMAIN ssl = Side
        /\ Peer("c") = "s" /\ "c" # "s"
    BY DEF WireInv, WireOK, Side, Peer
  <1>2. PICK from, to : /\ CHandshakeAt(from, to)
                        /\ from \in {"handshake", "hard_handshake", "reconnect_handshake"}
                        /\ to \in {"session", "send"}
    BY DEF C2Handshake, C2HardHandshake, C2ReconnectHandshake
  <1>3. /\ cPc = from /\ UNCHANGED <<cLink, cWritten, backlog>>
        /\ \/ \E result \in {"more", "ok", "error"} :
                  /\ SslHandshake(cLink, "c", CConf(cOpt), cSaved, result)
                  /\ cPc' = CASE result = "more" -> from [] result = "ok" -> to [] OTHER -> "exit"
           \/ UNCHANGED <<links, ssl, hello, refused>> /\ cPc' = "exit"
    BY <1>2, Client2Shakes
  <1>4. CASE UNCHANGED <<links, ssl, hello, refused>> /\ cPc' = "exit"
    <2>1. ClientMoves({})
      BY <1>3, <1>4, ClientCalls
    <2> QED
      BY <1>3, <1>4, <2>1 DEF Stays2, Works2, Leaves2
  <1>5. CASE \E result \in {"more", "ok", "error"} :
                /\ SslHandshake(cLink, "c", CConf(cOpt), cSaved, result)
                /\ cPc' = CASE result = "more" -> from [] result = "ok" -> to [] OTHER -> "exit"
    <2>1. PICK result \in {"more", "ok", "error"} :
                /\ SslHandshake(cLink, "c", CConf(cOpt), cSaved, result)
                /\ cPc' = CASE result = "more" -> from [] result = "ok" -> to [] OTHER -> "exit"
      BY <1>5
    <2>2. ClientMoves({"hello", "finish", "fatal"}) /\ ssl'["s"] = ssl["s"]
      BY <1>3, <2>1, ClientShakes, Zenon
    <2>3. \/ result = "error" /\ cPc' = "exit"
          \/ result = "more" /\ cPc' = cPc
          \/ result = "ok" /\ cPc' \in {"session", "send"}
      BY <1>2, <1>3, <2>1
    <2>4. \/ \E p \in Script : Follows(p, cLink, "c", CConf(cOpt), cSaved, result)
          \/ Fails(cLink, "c", CConf(cOpt), result)
      BY <1>1, <2>1, HandshakeStep, Zenon
    <2>5. cPc \in CHandshakes /\ cWritten = 0
      BY <1>2, <1>3 DEF CHandshakes, WrittenInv
    <2>6. CASE result = "error"
      BY <1>3, <2>2, <2>3, <2>6 DEF Stays2, Works2, Leaves2
    <2>7. CASE result # "error"
      <3>1. PICK p \in Script : Follows(p, cLink, "c", CConf(cOpt), cSaved, result)
        BY <2>4, <2>7, Zenon DEF Fails
      <3>2. \/ result = "more" /\ cPc' = cPc
            \/ result = "ok" /\ cPc' \in {"session", "send"}
        BY <2>3, <2>7
      <3>3. UNCHANGED cWritten
        BY <1>3
      <3>4. Shakes2
        BY <2>2, <2>5, <3>1, <3>2, <3>3, Zenon DEF Shakes2
      <3>5. cLink' = cLink /\ UNCHANGED backlog
        BY <1>3
      <3> QED
        BY <2>2, <3>4, <3>5, Zenon DEF Stays2, Works2
    <2> QED
      BY <2>6, <2>7
  <1> QED
    BY <1>3, <1>4, <1>5

\* A renegotiation.
LEMMA RenegotiateSteps2 ==
    ASSUME WireInv, WrittenInv, cLink # 0, cProg = "ssl_client2", C2Renegotiate
    PROVE  Stays2
  <1>1. cLink \in 1..Len(links) /\ links \in Seq(Link) /\ "c" \in Side
    BY DEF WireInv, WireOK, Side
  <1>2. /\ cPc \in {"renegotiate", "renegotiating"}
        /\ UNCHANGED <<cLink, cWritten, backlog, ssl>> /\ ssl'["s"] = ssl["s"]
    BY DEF C2Renegotiate, CGoto, cRest2, cRest, wireRest
  <1>3. cWritten = 0
    BY <1>2 DEF WrittenInv
  <1>4. Rec("rehello", 0) \in Record /\ Rec("rehello", 0).t = "rehello"
    BY PlainRecords
  <1>5. \/ cPc = "renegotiate" /\ cPc' = "send" /\ UNCHANGED <<cTry, links>>
        \/ \E result \in {"ok", "error"} :
            /\ cPc = "renegotiate" /\ SslWrite(cLink, "c", Rec("rehello", 0), result)
            /\ cPc' = IF result = "ok" THEN "renegotiating" ELSE "exit"
        \/ \E result \in {"ok", "error"} :
            /\ cPc = "renegotiating" /\ SslRenegotiated(cLink, result)
            /\ cPc' = IF result = "ok" THEN "send" ELSE "exit"
        \/ cPc' = "exit" /\ UNCHANGED links
    BY Zenon DEF C2Renegotiate, CGoto, CTimedOut, SslTimeout
  <1>6. CASE cPc = "renegotiate" /\ cPc' = "send" /\ UNCHANGED <<cTry, links>>
    <2>1. ClientMoves({})
      BY <1>2, <1>6, ClientCalls
    <2>2. GoesOn2
      BY <1>2, <1>3, <1>6 DEF GoesOn2, Idle, HardPcs, OverPcs
    <2> QED
      BY <1>2, <2>1, <2>2 DEF Stays2, Works2
  <1>7. CASE cPc' = "exit" /\ UNCHANGED links
    <2>1. ClientMoves({})
      BY <1>2, <1>7, ClientCalls
    <2> QED
      BY <1>2, <1>7, <2>1 DEF Stays2, Works2, Leaves2
  <1>8. CASE \E result \in {"ok", "error"} :
                /\ cPc = "renegotiate" /\ SslWrite(cLink, "c", Rec("rehello", 0), result)
                /\ cPc' = IF result = "ok" THEN "renegotiating" ELSE "exit"
    <2>1. PICK result \in {"ok", "error"} :
                /\ cPc = "renegotiate" /\ SslWrite(cLink, "c", Rec("rehello", 0), result)
                /\ cPc' = IF result = "ok" THEN "renegotiating" ELSE "exit"
      BY <1>8
    <2>2. ClientMoves({"rehello"})
      <3>1. Rec("rehello", 0).t \in {"rehello"} /\ cLink' = cLink
        BY <1>2, <1>4
      <3> QED
        BY <1>4, <2>1, <3>1, ClientCalls, Zenon
    <2>3. CASE cPc' = "exit"
      BY <1>2, <2>2, <2>3 DEF Stays2, Works2, Leaves2
    <2>4. CASE cPc' # "exit"
      <3>1. result = "ok" /\ cPc' = "renegotiating"
        BY <2>1, <2>4
      <3>2. Sends(cLink, "c", Rec("rehello", 0))
        BY <1>1, <1>4, <2>1, <3>1, WriteStep
      <3>3. Asks2
        BY <1>2, <1>3, <2>1, <3>1, <3>2 DEF Asks2
      <3> QED
        BY <1>2, <2>2, <3>3 DEF Stays2, Works2
    <2> QED
      BY <2>3, <2>4
  <1>9. CASE \E result \in {"ok", "error"} :
                /\ cPc = "renegotiating" /\ SslRenegotiated(cLink, result)
                /\ cPc' = IF result = "ok" THEN "send" ELSE "exit"
    <2>1. PICK result \in {"ok", "error"} :
                /\ cPc = "renegotiating" /\ SslRenegotiated(cLink, result)
                /\ cPc' = IF result = "ok" THEN "send" ELSE "exit"
      BY <1>9
    <2>2. ClientMoves({})
      BY <1>2, <2>1, ClientCalls
    <2>3. Leaves2 \/ Answered2
      BY <1>2, <1>3, <2>1, <2>2 DEF Leaves2, Answered2
    <2> QED
      BY <1>2, <2>2, <2>3 DEF Stays2, Works2
  <1> QED
    BY <1>5, <1>6, <1>7, <1>8, <1>9

\* A piece of the request.
LEMMA SendSteps2 ==
    ASSUME WireInv, OptInv, WrittenInv, NoEarlyNewline, cProg = "ssl_client2", cLink # 0, C2Send
    PROVE  Stays2
  <1>1. cLink \in 1..Len(links) /\ links \in Seq(Link) /\ "c" \in Side
    BY DEF WireInv, WireOK, Side
  <1>2. cPc = "send" /\ UNCHANGED <<cLink, backlog, ssl>> /\ ssl'["s"] = ssl["s"]
    BY DEF C2Send, wireRest
  <1>3. PICK n \in Int :
            /\ n = Min({RequestLen - cWritten, cOpt.max_frag_len})
            /\ Data(n, cWritten + n \in Newlines) \in Record
            /\ n > 0 => cWritten + n = RequestLen \/ cWritten + n \in RecordEnds
            /\ \/ /\ n = 0 /\ UNCHANGED <<links, cWritten>> /\ cPc' = "read" /\ cWritten = 0
               \/ /\ n > 0 /\ SslWrite(cLink, "c", Data(n, cWritten + n \in Newlines), "ok")
                  /\ cPc' = IF cWritten + n = RequestLen THEN "read" ELSE "send"
                  /\ cWritten' = IF cWritten + n = RequestLen THEN 0 ELSE cWritten + n
                  /\ cWritten + n = RequestLen \/ cWritten' \in 1..(RequestLen - 1)
               \/ /\ n > 0 /\ SslWrite(cLink, "c", Data(n, cWritten + n \in Newlines), "error")
                  /\ cPc' = "exit" /\ cWritten' = cWritten
    BY <1>2, Client2Piece, Zenon
  <1>4. PICK r \in Record : r = Data(n, cWritten + n \in Newlines)
    BY <1>3
  <1>5. r.t = "data" /\ (n > 0 => (r.nl <=> cWritten + n = RequestLen))
    <2>1. RequestLen \in Newlines
      BY DEF Newlines
    <2>2. cWritten + n \in RecordEnds /\ cWritten + n \in Newlines => cWritten + n = RequestLen
      BY DEF NoEarlyNewline
    <2>3. r.t = "data" /\ (r.nl <=> cWritten + n \in Newlines)
      BY <1>4 DEF Data
    <2> QED
      BY <1>3, <2>1, <2>2, <2>3, Zenon
  <1>6. CASE UNCHANGED <<links, cWritten>> /\ cPc' = "read" /\ cWritten = 0
    <2>1. ClientMoves({})
      BY <1>2, <1>6, ClientCalls
    <2>2. GoesOn2
      BY <1>2, <1>6 DEF GoesOn2, Idle, HardPcs, OverPcs
    <2> QED
      BY <1>2, <2>1, <2>2 DEF Stays2, Works2
  <1>7. CASE SslWrite(cLink, "c", r, "error") /\ cPc' = "exit"
    <2>1. ClientMoves({"data"})
      BY <1>2, <1>5, <1>7, ClientCalls
    <2> QED
      BY <1>2, <1>7, <2>1 DEF Stays2, Works2, Leaves2
  <1>8. CASE /\ n > 0 /\ SslWrite(cLink, "c", r, "ok")
             /\ cPc' = IF cWritten + n = RequestLen THEN "read" ELSE "send"
             /\ cWritten' = IF cWritten + n = RequestLen THEN 0 ELSE cWritten + n
             /\ cWritten + n = RequestLen \/ cWritten' \in 1..(RequestLen - 1)
    <2>1. ClientMoves({"data"})
      BY <1>2, <1>5, <1>8, ClientCalls
    <2>2. Sends(cLink, "c", r)
      BY <1>1, <1>8, WriteStep
    <2>3. \/ r.nl /\ cPc' = "read" /\ cWritten' = 0
          \/ ~r.nl /\ cPc' = "send" /\ cWritten' # 0
      <3>1. 0 \notin 1..(RequestLen - 1)
        BY GetAssumption DEF RequestLen, OptInv
      <3> QED
        BY <1>5, <1>8, <3>1
    <2>4. UNCHANGED ssl
      BY <1>2
    <2>5. Piece2
      BY <1>2, <1>5, <2>2, <2>3, <2>4, Zenon DEF Piece2
    <2> QED
      BY <1>2, <2>1, <2>5 DEF Stays2, Works2
  <1> QED
    BY <1>3, <1>4, <1>6, <1>7, <1>8, Zenon

\* A read of the response.
LEMMA ReadSteps2 ==
    ASSUME WireInv, WrittenInv, cLink # 0, C2Read
    PROVE  Stays2
  <1>1. cLink \in 1..Len(links) /\ links \in Seq(Link) /\ "c" \in Side
    BY DEF WireInv, WireOK, Side
  <1>2. /\ cPc = "read" /\ UNCHANGED <<cLink, cWritten, backlog, ssl>> /\ ssl'["s"] = ssl["s"]
        /\ cWritten = 0 /\ cWritten' = 0
    BY DEF C2Read, CReadAt, wireRest, WrittenInv
  <1>3. Arrived(cLink, "c") = In
    BY DEF Arrived, In, Peer
  <1>4. \/ SslRead(cLink, "c", Rec("close", 0)) /\ cPc' = "close"
        \/ SslRead(cLink, "c", Rec("eof", 0)) /\ cPc' = "reconnect"
        \/ cPc' = "exit" /\ ((\E result : SslRead(cLink, "c", result)) \/ UNCHANGED links)
        \/ /\ In # <<>> /\ SslRead(cLink, "c", Head(In)) /\ Head(In).t = "data"
           /\ cPc' = IF Head(In).nl THEN "hard" ELSE "read"
        \/ cPc' = "read" /\ \E b : SslReadControl(cLink, "c", b)
    BY <1>3, Zenon DEF C2Read, CReadAt, CGoto, CTimedOut, SslTimeout
  <1>5. Rec("close", 0).t = "close" /\ Rec("eof", 0).t = "eof" /\ Rec("error", 0).t = "error"
    BY PlainRecords
  <1>6. CASE SslRead(cLink, "c", Rec("close", 0)) /\ cPc' = "close"
    <2>1. ClientMoves({})
      BY <1>2, <1>6, ClientCalls
    <2>2. \/ /\ Takes(cLink, "c")
             /\ Rec("close", 0) = IF Head(In).t \in {"data", "close"} THEN Head(In) ELSE Rec("error", 0)
          \/ Rec("close", 0) = Rec("eof", 0)
      <3>1. \/ /\ Takes(cLink, "c")
               /\ Rec("close", 0) = IF Head(Arrived(cLink, "c")).t \in {"data", "close"}
                                     THEN Head(Arrived(cLink, "c")) ELSE Rec("error", 0)
            \/ /\ Arrived(cLink, "c") = <<>> /\ Gone(cLink, "c") /\ UNCHANGED links
               /\ Rec("close", 0) = Rec("eof", 0)
        BY <1>1, <1>6, ReadStep, Zenon
      <3> QED
        BY <1>3, <3>1
    <2>3. Takes(cLink, "c") /\ Head(In).t = "close"
      BY <1>5, <2>2, Zenon
    <2>4. Reads2
      BY <1>2, <1>6, <2>3, Zenon DEF Reads2
    <2> QED
      BY <1>2, <2>1, <2>4 DEF Stays2, Works2
  <1>7. CASE SslRead(cLink, "c", Rec("eof", 0)) /\ cPc' = "reconnect"
    <2>1. ClientMoves({})
      BY <1>2, <1>7, ClientCalls
    <2>2. \/ /\ Takes(cLink, "c")
             /\ Rec("eof", 0) = IF Head(In).t \in {"data", "close"} THEN Head(In) ELSE Rec("error", 0)
          \/ In = <<>> /\ Gone(cLink, "c") /\ UNCHANGED links
      BY <1>1, <1>3, <1>7, ReadStep, Zenon
    <2>3. "eof" \notin {"data", "close"} /\ "eof" # "error"
      OBVIOUS
    <2>4. In = <<>> /\ Gone(cLink, "c") /\ UNCHANGED links
      BY <1>5, <2>2, <2>3, Zenon
    <2>5. Eof2
      BY <1>2, <1>7, <2>4, Zenon DEF Eof2
    <2> QED
      BY <1>2, <2>1, <2>5 DEF Stays2, Works2
  <1>8. CASE cPc' = "exit" /\ ((\E result : SslRead(cLink, "c", result)) \/ UNCHANGED links)
    <2>1. ClientMoves({})
      BY <1>2, <1>8, ClientCalls
    <2> QED
      BY <1>2, <1>8, <2>1 DEF Stays2, Works2, Leaves2
  <1>9. CASE /\ In # <<>> /\ SslRead(cLink, "c", Head(In)) /\ Head(In).t = "data"
             /\ cPc' = IF Head(In).nl THEN "hard" ELSE "read"
    <2>1. ClientMoves({})
      BY <1>2, <1>9, ClientCalls
    <2>2. Takes(cLink, "c")
      BY <1>1, <1>3, <1>9, ReadStep, Zenon
    <2>3. Reads2
      BY <1>2, <1>9, <2>2, Zenon DEF Reads2
    <2> QED
      BY <1>2, <2>1, <2>3 DEF Stays2, Works2
  <1>10. CASE cPc' = "read" /\ \E b : SslReadControl(cLink, "c", b)
    <2>1. ClientMoves(Control)
      BY <1>2, <1>10, ClientCalls, Zenon
    <2>2. Answers2
      BY <1>2, <1>10, <2>1 DEF Answers2
    <2> QED
      BY <1>2, <2>1, <2>2 DEF Stays2, Works2
  <1> QED
    BY <1>4, <1>6, <1>7, <1>8, <1>9, <1>10

\* The close notification and what follows on the same connection.
LEMMA CloseSteps2 ==
    ASSUME WireInv, WrittenInv, cLink # 0, C2Close \/ (C2Reconnect /\ cLink' # 0)
    PROVE  Stays2
  <1>1. CASE C2Close
    <2>1. /\ cPc = "close" /\ cPc' = "reconnect"
          /\ UNCHANGED <<cLink, cWritten, backlog, ssl>> /\ ssl'["s"] = ssl["s"]
      BY <1>1 DEF C2Close, CGoto, cRest2, cRest, wireRest
    <2>2. Rec("close", 0) \in Record /\ Rec("close", 0).t \in {"close"}
      BY PlainRecords
    <2>3. \E result : SslWrite(cLink, "c", Rec("close", 0), result)
      BY <1>1, Zenon DEF C2Close
    <2>4. ClientMoves({"close"})
      BY <2>1, <2>2, <2>3, ClientCalls, Zenon
    <2>5. Closes2
      BY <2>1, <2>4 DEF Closes2, WrittenInv
    <2> QED
      BY <2>1, <2>4, <2>5 DEF Stays2, Works2
  <1>2. CASE C2Reconnect /\ cLink' # 0
    <2>1. UNCHANGED <<cLink, links, ssl, backlog>> /\ cPc' = "exit"
      BY <1>2 DEF C2Reconnect, CGoto, CNetFree
    <2>2. ClientMoves({})
      BY <2>1, ClientCalls
    <2> QED
      BY <2>1, <2>2 DEF Stays2, Works2, Leaves2
  <1> QED
    BY <1>1, <1>2

\* Every step of ssl_client2.
LEMMA Client2Steps ==
    ASSUME WireInv, OptInv, WrittenInv, NoEarlyNewline, cProg = "ssl_client2", Client2, UNCHANGED sLink
    PROVE  cLink' = 0 \/ LockInv' \/ (cLink # 0 /\ Stays2)
  <1> SUFFICES ASSUME cLink' # 0, ~LockInv' PROVE cLink # 0 /\ Stays2
    OBVIOUS
  <1>1. ~C2Exit
    BY DEF C2Exit, CNetFree
  <1>2. CASE C2Connect \/ C2ReconnectConnect
    <2>1. /\ cPc \in {"connect", "reconnect_connect"}
          /\ \/ UNCHANGED wire /\ UNCHANGED cLink /\ cPc' = "exit"
             \/ /\ links' = Append(links, NewLink) /\ cLink' = Len(links) + 1
                /\ backlog' = Append(backlog, Len(links) + 1) /\ ssl' = ssl
                /\ cPc' = IF cPc = "connect" THEN "config" ELSE "reconnect_handshake"
      BY <1>2 DEF C2Connect, C2ReconnectConnect, CConnectAt, CNetConnect, CGoto, wire
    <2>2. CASE UNCHANGED wire /\ UNCHANGED cLink /\ cPc' = "exit"
      <3>1. UNCHANGED <<links, backlog, ssl, cLink>> /\ cLink # 0
        BY <2>2 DEF wire
      <3>2. ClientMoves({})
        BY <3>1, ClientCalls
      <3> QED
        BY <2>2, <3>1, <3>2 DEF Stays2, Works2, Leaves2
    <2>3. CASE /\ links' = Append(links, NewLink) /\ cLink' = Len(links) + 1
               /\ backlog' = Append(backlog, Len(links) + 1) /\ ssl' = ssl
               /\ cPc' = IF cPc = "connect" THEN "config" ELSE "reconnect_handshake"
      <3>1. ssl["c"] = "start" /\ cPc' \in {"config", "reconnect_handshake"}
        BY <2>1, <2>3 DEF WireInv, CPcOK, CUnlinked
      <3> QED
        BY <2>3, <3>1, ConnectLock
    <2> QED
      BY <2>1, <2>2, <2>3
  <1>3. CASE ~(C2Connect \/ C2ReconnectConnect)
    <2>1. cLink # 0
      <3>1. CASE C2Prepares
        BY <3>1, Client2Prepares
      <3>2. CASE ~C2Prepares
        BY <1>1, <1>3, <3>2 DEF Client2, C2Prepares, C2Want, C2Handshake, C2Session, C2Renegotiate, C2Send, C2Read,
            C2Hard, C2HardHandshake, C2Again, C2Close, C2Reconnect, C2ReconnectHandshake, CHandshakeAt, CReadAt,
            CGoto, CHandshakes, WireInv, CPcOK, CUnlinked
      <3> QED
        BY <3>1, <3>2
    <2> QED
      BY <1>1, <1>3, <2>1, QuietSteps2, HandshakeSteps2, RenegotiateSteps2, SendSteps2, ReadSteps2,
         CloseSteps2, Zenon DEF Client2, C2Prepares
  <1> QED
    BY <1>2, <1>3

\* Nothing of a request or a response is under way.
Calm == ~Has(In, {"data", "hreq"}) /\ ~Has(Out, {"data"}) /\ ~Busy

\* Then ssl_client2 may be anywhere.
LEMMA CalmLocks ==
    /\ Calm => Lock22
    /\ Calm' => Lock22'
  <1>1. Calm => Lock22
    BY EndsHasData DEF Calm, Lock22
  <1>2. Calm' => Lock22'
    <2>1. /\ Ends(In') => Has(In', {"data"})
          /\ Ends(Out') => Has(Out', {"data"})
          /\ Has(In', {"data"}) => Has(In', {"data", "hreq"})
          /\ Has(In', {"hreq"}) => Has(In', {"data", "hreq"})
      BY EndsHasData, Zenon
    <2> QED
      BY <2>1 DEF Calm, Lock22
  <1> QED
    BY <1>1, <1>2

\* ssl_client2 keeps in step with ssl_server2.
LEMMA Client2Lock22 ==
    ASSUME WireInv, WrittenInv, cLink # 0, CloseInv, Lock22, ClientStep, Works2,
           cProg = "ssl_client2"
    PROVE  Lock22'
  <1>1. /\ In \in Seq(Record) /\ Out \in Seq(Record) /\ (Busy' <=> Busy)
        /\ (\A P : Served(P)' <=> Served(P)) /\ (\A T : Has(In', T) => Has(In, T))
        /\ Ends(In') => Ends(In)
        /\ EndLast(In) => EndLast(In')
    BY ClientStepKeeps, Zenon
  <1>2. cLink' = cLink /\ links'[cLink].up = links[cLink].up
    BY DEF ClientStep
  <1>3. /\ cLink \in 1..Len(links) /\ WireOK /\ "c" \in Side /\ Peer("c") = "s"
        /\ In = links[cLink].sent["s"] /\ Out = links[cLink].sent["c"]
        /\ In' = links'[cLink].sent["s"] /\ Out' = links'[cLink].sent["c"]
        /\ Arrived(cLink, "c") = In
    BY <1>2 DEF WireInv, WireOK, Side, Peer, In, Out, Arrived
  <1>4. ASSUME cPc \in Idle, cWritten = 0, NEW T, "data" \notin T, Grown(Out, Out', T)
        PROVE  Lock22'
    <2>1. Calm
      BY <1>4 DEF Lock22, Calm
    <2>2. Has(Out', {"data"}) => Has(Out, {"data"})
      BY <1>1, <1>4, GrownQueue, Zenon
    <2>3. Calm'
      BY <1>1, <2>1, <2>2, Zenon DEF Calm
    <2> QED
      BY <2>3, CalmLocks
  <1>5. CASE Leaves2
    BY <1>5 DEF Leaves2, Lock22, CUnlinked, Idle
  <1>6. CASE Rests2
    <2>1. In' = In /\ Out' = Out /\ cPc' = cPc /\ cWritten' = cWritten
      BY <1>3, <1>6 DEF Rests2
    <2> QED
      BY <1>1, <1>2, <2>1 DEF Lock22
  <1>7. CASE GoesOn2
    <2>1. Grown(Out, Out', {})
      BY <1>3, <1>7 DEF GoesOn2, Grown
    <2>2. "data" \notin {} /\ cPc \in Idle /\ cWritten = 0
      BY <1>7 DEF GoesOn2
    <2> QED
      BY <1>4, <2>1, <2>2, Zenon
  <1>8. CASE Shakes2
    <2>1. "data" \notin {"hello", "finish", "fatal"} /\ cPc \in Idle /\ cWritten = 0
      BY <1>8 DEF Shakes2, CHandshakes, Idle
    <2> QED
      BY <1>4, <1>8, <2>1, Zenon DEF Shakes2, ClientMoves
  <1>9. CASE Asks2
    <2>1. /\ Rec("rehello", 0) \in Record /\ Rec("rehello", 0).t \in {"rehello"}
          /\ "data" \notin {"rehello"} /\ cPc \in Idle /\ cWritten = 0
      BY <1>9, PlainRecords DEF Asks2, Idle
    <2>2. Grown(Out, Out', {"rehello"})
      BY <1>3, <1>9, <2>1, QueueStep, Zenon DEF Asks2
    <2> QED
      BY <1>4, <2>1, <2>2, Zenon
  <1>10. CASE Answered2
    <2>1. "data" \notin {} /\ cPc \in Idle /\ cWritten = 0
      BY <1>10 DEF Answered2, Idle
    <2> QED
      BY <1>4, <1>10, <2>1, Zenon DEF Answered2, ClientMoves
  <1>11. CASE Piece2
    <2>1. PICK r \in Record : /\ r.t = "data" /\ Sends(cLink, "c", r)
                              /\ \/ r.nl /\ cPc' = "read" /\ cWritten' = 0
                                 \/ ~r.nl /\ cPc' = "send" /\ cWritten' # 0
      BY <1>11, Zenon DEF Piece2
    <2>2. /\ ~Has(In, {"data", "hreq"}) /\ ~Ends(Out) /\ ~Busy
      <3>1. Ends(Out) => Has(Out, {"data"})
        BY EndsHasData, Zenon
      <3>2. cPc = "send" /\ "send" \in Idle
        BY <1>11 DEF Piece2, Idle
      <3> QED
        BY <3>1, <3>2 DEF Lock22
    <2>3. In' = In
      <3>1. r.t \in {"data"}
        BY <2>1
      <3> QED
        BY <1>3, <2>1, <3>1, QueueStep, Zenon
    <2>4. Out' = Out \/ Out' = Append(Out, r)
      BY <1>3, <2>1, Zenon DEF Sends
    <2>5. Grown(Out, Out', {"data"})
      <3>1. r.t \in {"data"}
        BY <2>1
      <3> QED
        BY <2>4, <3>1, Zenon DEF Grown
    <2>6. EndLast(Out')
      BY <1>1, <2>2, <2>5, GrownQueue, Zenon
    <2>7. ~r.nl => ~Ends(Out')
      <3>1. Ends(Append(Out, r)) <=> Ends(Out) \/ (r.t = "data" /\ r.nl)
        BY <1>1, AppendQueue, Zenon
      <3> QED
        BY <2>2, <2>4, <3>1, Zenon
    <2>8. ~Has(In', {"data", "hreq"}) /\ ~Busy' /\ ~Ends(In')
      <3>1. Ends(In) => Has(In, {"data"})
        BY EndsHasData, Zenon
      <3>2. Has(In, {"data"}) => Has(In, {"data", "hreq"})
        BY EndsHasData, Zenon
      <3> QED
        BY <1>1, <2>2, <2>3, <3>1, <3>2, Zenon
    <2>9. CASE r.nl /\ cPc' = "read" /\ cWritten' = 0
      BY <2>6, <2>8, <2>9 DEF Lock22, Idle
    <2>10. CASE ~r.nl /\ cPc' = "send" /\ cWritten' # 0
      BY <2>7, <2>8, <2>10 DEF Lock22
    <2> QED
      BY <2>1, <2>9, <2>10
  <1>12. CASE Reads2
    <2>1. In # <<>> /\ In' = Tail(In) /\ Out' = Out
      BY <1>3, <1>12, QueueStep, Zenon DEF Reads2
    <2>2. cPc = "read" /\ cWritten' = 0
      BY <1>12 DEF Reads2
    <2>3. CASE Head(In).t = "data" /\ Head(In).nl /\ cPc' = "hard"
      <3>1. Ends(In)
        BY <1>1, <2>1, <2>3, TailQueue, Zenon
      <3>2. ~Has(Out, {"data"}) /\ ~Busy /\ EndLast(In)
        BY <2>2, <3>1, Zenon DEF Lock22
      <3>3. ~Has(In', {"data", "hreq"})
        BY <1>1, <2>1, <2>3, <3>2, TailQueue, Zenon
      <3>4. Calm'
        BY <1>1, <2>1, <3>2, <3>3, Zenon DEF Calm
      <3> QED
        BY <3>4, CalmLocks
    <2>4. CASE cPc' = "read"
      BY <1>1, <2>1, <2>2, <2>4 DEF Lock22, Idle
    <2>5. CASE Head(In).t = "close" /\ cPc' = "close"
      <3>1. Has(In, {"close"})
        <4>1. Head(In).t \in {"close"}
          BY <2>5
        <4> QED
          BY <1>1, <2>1, <4>1, TailQueue, Zenon
      <3>2. CloseLast(In) /\ Served({"reset", "exit"})
        BY <3>1, Zenon DEF CloseInv
      <3>3. In' = <<>>
        BY <1>1, <2>1, <2>5, <3>2, TailQueue, Zenon
      <3>4. ~Has(In', {"hreq"})
        BY <3>3, EmptyQueue, Zenon
      <3>5. Served(Closing)
        BY <3>2 DEF Served, Closing
      <3>6. Served(Closing)'
        BY <1>1, <3>5, Zenon
      <3> QED
        BY <2>5, <3>4, <3>6 DEF Lock22, Idle
    <2> QED
      BY <1>12, <2>3, <2>4, <2>5, Zenon DEF Reads2
  <1>13. CASE Answers2
    <2>1. /\ "data" \notin Control /\ "hreq" \notin Control
          /\ cPc = "read" /\ cPc' = "read" /\ cWritten' = 0
      BY <1>13 DEF Answers2, Control
    <2>2. Grown(Out, Out', Control)
      BY <1>13, Zenon DEF Answers2, ClientMoves
    <2>3. /\ Has(Out', {"data"}) => Has(Out, {"data"})
          /\ Ends(Out') => Ends(Out)
          /\ EndLast(Out) => EndLast(Out')
      BY <1>1, <2>1, <2>2, GrownQueue, Zenon
    <2> QED
      BY <1>1, <2>1, <2>3 DEF Lock22, Idle
  <1>14. CASE Eof2
    <2>1. cPc' = "reconnect" /\ In' = <<>> /\ Gone(cLink, "c")
      BY <1>3, <1>14 DEF Eof2
    <2>2. ~Has(In', {"hreq"})
      BY <2>1, EmptyQueue, Zenon
    <2>3. ~links[cLink].up \/ Served(Closing)
      BY <1>3, <2>1 DEF Gone, WireInv, EndsOK, Held, Served
    <2>4. ~links'[cLink].up \/ Served(Closing)'
      BY <1>1, <1>2, <2>3, Zenon
    <2> QED
      BY <1>2, <2>1, <2>2, <2>4 DEF Lock22, Idle
  <1>15. CASE Closes2
    <2>1. cPc = "close" /\ cPc' = "reconnect" /\ "data" \notin {"close"}
      BY <1>15 DEF Closes2
    <2>2. Grown(Out, Out', {"close"})
      BY <1>15, Zenon DEF Closes2, ClientMoves
    <2>3. Has(Out', {"data"}) => Has(Out, {"data"})
      BY <1>1, <2>1, <2>2, GrownQueue, Zenon
    <2> QED
      BY <1>1, <1>2, <2>1, <2>3 DEF Lock22, Idle
  <1> QED
    BY <1>5, <1>6, <1>7, <1>8, <1>9, <1>10, <1>11, <1>12, <1>13, <1>14, <1>15 DEF Works2

\* The two sides of the script.
LEMMA ScriptSides ==
    /\ \A p \in Script : p[1] = "c" =>
        \/ p[2] = "start"  /\ p[3] = "!" /\ p[4] = "hello"    /\ p[5] = "sent"
        \/ p[2] = "sent"   /\ p[3] = "?" /\ p[4] = "flight"   /\ p[5] = "finish"
        \/ p[2] = "finish" /\ p[3] = "!" /\ p[4] = "finish"   /\ p[5] = "wait"
        \/ p[2] = "wait"   /\ p[3] = "?" /\ p[4] = "finished" /\ p[5] = "over"
        \/ p[2] = "sent"   /\ p[3] = "?" /\ p[4] = "short"    /\ p[5] = "agree"
        \/ p[2] = "agree"  /\ p[3] = "!" /\ p[4] = "finish"   /\ p[5] = "over"
    /\ \A p \in Script : p[1] = "s" =>
        \/ p[2] = "start"  /\ p[3] = "?" /\ p[4] = "hello"    /\ p[5] \in {"reply", "resume"}
        \/ p[2] = "reply"  /\ p[3] = "!" /\ p[4] = "flight"   /\ p[5] = "wait"
        \/ p[2] = "wait"   /\ p[3] = "?" /\ p[4] = "finish"   /\ p[5] = "last"
        \/ p[2] = "last"   /\ p[3] = "!" /\ p[4] = "finished" /\ p[5] = "over"
        \/ p[2] = "resume" /\ p[3] = "!" /\ p[4] = "short"    /\ p[5] = "settle"
        \/ p[2] = "settle" /\ p[3] = "?" /\ p[4] = "finish"   /\ p[5] = "over"
  BY DEF Script

\* A record alone on its way.
LEMMA OneRecord ==
    ASSUME NEW r \in Record
    PROVE  /\ Only(Append(<<>>, r), r.t)
           /\ Append(<<>>, r) # <<>>
           /\ DOMAIN Append(<<>>, r) = {1} /\ Append(<<>>, r)[1] = r
  <1>1. Append(<<>>, r) = <<r>>
    OBVIOUS
  <1>2. Len(<<r>>) = 1 /\ <<r>>[1] = r /\ DOMAIN <<r>> = {1} /\ <<r>> # <<>>
    OBVIOUS
  <1> QED
    BY <1>1, <1>2 DEF Only

\* The handshake on the client's side: a step of the script keeps both sides aligned.
LEMMA ClientAligned ==
    ASSUME WireInv, cLink # 0, ClientStep, Aligned,
           NEW p \in Script, NEW conf, NEW resume, NEW result,
           Follows(p, cLink, "c", conf, resume, result)
    PROVE  Greeting' \/ Shaking' \/ Shaken'
  <1>1. /\ cLink' = cLink /\ sLink' = sLink /\ sPc' = sPc /\ ssl'["s"] = ssl["s"]
        /\ Waiting(cLink)' <=> Waiting(cLink)
    BY ClientStepKeeps DEF ClientStep
  <1>2. /\ cLink \in 1..Len(links) /\ WireOK /\ "c" \in Side /\ Peer("c") = "s"
        /\ In = links[cLink].sent["s"] /\ Out = links[cLink].sent["c"]
        /\ In' = links'[cLink].sent["s"] /\ Out' = links'[cLink].sent["c"]
        /\ Arrived(cLink, "c") = In
    BY <1>1 DEF WireInv, WireOK, Side, Peer, In, Out, Arrived
  <1>3. In \in Seq(Record) /\ Out \in Seq(Record)
    BY ClientStepKeeps
  <1>4. "s" \in links[cLink].open
    <2>1. Held(cLink)
      BY DEF Aligned, Greeting, Shaking, Shaken, Held
    <2> QED
      BY <1>2, <2>1 DEF WireInv, EndsOK, WireOK
  <1>5. p[1] = "c" /\ p[2] = ssl["c"] /\ p[5] = ssl'["c"]
    BY DEF Follows
  <1>6. \/ ssl["c"] = "start"  /\ p[3] = "!" /\ p[4] = "hello"    /\ ssl'["c"] = "sent"
        \/ ssl["c"] = "sent"   /\ p[3] = "?" /\ p[4] = "flight"   /\ ssl'["c"] = "finish"
        \/ ssl["c"] = "finish" /\ p[3] = "!" /\ p[4] = "finish"   /\ ssl'["c"] = "wait"
        \/ ssl["c"] = "wait"   /\ p[3] = "?" /\ p[4] = "finished" /\ ssl'["c"] = "over"
        \/ ssl["c"] = "sent"   /\ p[3] = "?" /\ p[4] = "short"    /\ ssl'["c"] = "agree"
        \/ ssl["c"] = "agree"  /\ p[3] = "!" /\ p[4] = "finish"   /\ ssl'["c"] = "over"
    BY <1>5, ScriptSides
  <1>7. ASSUME p[3] = "!", Out = <<>>, p[4] \in {"hello", "finish"}
        PROVE  In' = In /\ Only(Out', p[4]) /\ Out' # <<>> /\ DOMAIN Out' = {1} /\ Out'[1].t = p[4]
    <2>1. PICK n \in Int : links[cLink].up /\ Sends(cLink, "c", Rec(p[4], n))
      BY <1>7, Zenon DEF Follows
    <2>2. Rec(p[4], n) \in Record /\ Rec(p[4], n).t = p[4]
      BY <1>7, RecordTypes DEF Kinds
    <2>3. In' = In /\ Out' = Append(<<>>, Rec(p[4], n))
      BY <1>2, <1>4, <1>7, <2>1, Zenon DEF Sends, Fits
    <2> QED
      BY <2>2, <2>3, OneRecord
  <1>8. ASSUME p[3] = "?"
        PROVE  In # <<>> /\ Head(In).t = p[4] /\ In' = Tail(In) /\ Out' = Out
    <2>1. Takes(cLink, "c") /\ Head(In).t = p[4]
      BY <1>2, <1>8 DEF Follows
    <2> QED
      BY <1>2, <2>1 DEF Takes
  <1>9. \A k : Only(In, k) /\ In # <<>> => Tail(In) = <<>> /\ Head(In).t = k
    BY <1>3, TailQueue, Zenon
  <1>10. CASE ssl["c"] = "start" /\ p[3] = "!" /\ p[4] = "hello" /\ ssl'["c"] = "sent"
    <2>1. Greeting /\ Out = <<>>
      BY <1>10 DEF Aligned, Greeting, Shaking, Shaken
    <2>2. In' = In /\ Only(Out', "hello")
      BY <1>7, <1>10, <2>1
    <2>3. Greeting'
      BY <1>1, <1>10, <2>1, <2>2 DEF Greeting
    <2> QED
      BY <2>3
  <1>11. CASE ssl["c"] = "sent" /\ p[3] = "?" /\ p[4] = "flight" /\ ssl'["c"] = "finish"
    <2>1. In # <<>> /\ Head(In).t = "flight" /\ In' = Tail(In) /\ Out' = Out
      BY <1>8, <1>11
    <2>2. /\ sLink = cLink /\ sPc = "handshake" /\ ssl["s"] = "wait"
          /\ Only(In, "flight") /\ Out = <<>>
      BY <1>9, <1>11, <2>1 DEF Aligned, Greeting, Shaking, Shaken
    <2>3. In' = <<>> /\ Out' = <<>>
      BY <1>9, <2>1, <2>2
    <2>4. Shaking'
      BY <1>1, <1>11, <2>2, <2>3 DEF Shaking
    <2> QED
      BY <2>4
  <1>12. CASE ssl["c"] = "finish" /\ p[3] = "!" /\ p[4] = "finish" /\ ssl'["c"] = "wait"
    <2>1. /\ sLink = cLink /\ sPc = "handshake" /\ ssl["s"] = "wait" /\ In = <<>> /\ Out = <<>>
      BY <1>12 DEF Aligned, Greeting, Shaking, Shaken
    <2>2. In' = <<>> /\ Only(Out', "finish")
      BY <1>7, <1>12, <2>1
    <2>3. Shaking'
      BY <1>1, <1>12, <2>1, <2>2 DEF Shaking
    <2> QED
      BY <2>3
  <1>13. CASE ssl["c"] = "wait" /\ p[3] = "?" /\ p[4] = "finished" /\ ssl'["c"] = "over"
    <2>1. In # <<>> /\ Head(In).t = "finished" /\ In' = Tail(In) /\ Out' = Out
      BY <1>8, <1>13
    <2>2. sLink = cLink /\ sPc = "read" /\ Only(In, "finished") /\ Out = <<>>
      BY <1>13, <2>1 DEF Aligned, Greeting, Shaking, Shaken
    <2>3. In' = <<>> /\ Out' = <<>>
      BY <1>9, <2>1, <2>2
    <2>4. ~Has(In', {"data"}) /\ DOMAIN Out' = {}
      BY <2>3, EmptyQueue
    <2>5. Shaken'
      BY <1>1, <1>13, <2>2, <2>4 DEF Shaken
    <2> QED
      BY <2>5
  <1>14. CASE ssl["c"] = "sent" /\ p[3] = "?" /\ p[4] = "short" /\ ssl'["c"] = "agree"
    <2>1. In # <<>> /\ Head(In).t = "short" /\ In' = Tail(In) /\ Out' = Out
      BY <1>8, <1>14
    <2>2. /\ sLink = cLink /\ sPc = "handshake" /\ ssl["s"] = "settle"
          /\ Only(In, "short") /\ Out = <<>>
      BY <1>9, <1>14, <2>1 DEF Aligned, Greeting, Shaking, Shaken
    <2>3. In' = <<>> /\ Out' = <<>>
      BY <1>9, <2>1, <2>2
    <2>4. Shaking'
      BY <1>1, <1>14, <2>2, <2>3 DEF Shaking
    <2> QED
      BY <2>4
  <1>15. CASE ssl["c"] = "agree" /\ p[3] = "!" /\ p[4] = "finish" /\ ssl'["c"] = "over"
    <2>1. /\ sLink = cLink /\ sPc = "handshake" /\ ssl["s"] = "settle" /\ In = <<>> /\ Out = <<>>
      BY <1>15 DEF Aligned, Greeting, Shaking, Shaken
    <2>2. In' = <<>> /\ Out' # <<>> /\ DOMAIN Out' = {1} /\ Out'[1].t = "finish"
      BY <1>7, <1>15, <2>1
    <2>3. ~Has(In', {"data"})
      BY <2>2, EmptyQueue
    <2>4. \A i \in DOMAIN Out' : Out'[i].t = IF i = 1 THEN "finish" ELSE "rehello"
      BY <2>2
    <2>5. Shaking'
      BY <1>1, <1>15, <2>1, <2>2, <2>3, <2>4 DEF Shaking
    <2> QED
      BY <2>5
  <1> QED
    BY <1>6, <1>10, <1>11, <1>12, <1>13, <1>14, <1>15

\* Behind its handshake the client sends nothing but the wish to renegotiate.
LEMMA OverAligned ==
    ASSUME WireInv, cLink # 0, ClientStep, Aligned, ssl["c"] = "over", ssl'["c"] = "over",
           Out' = Out \/ \E r \in Record : r.t = "rehello" /\ Out' = Append(Out, r)
    PROVE  Greeting' \/ Shaking' \/ Shaken'
  <1>1. /\ cLink' = cLink /\ sLink' = sLink /\ sPc' = sPc /\ ssl'["s"] = ssl["s"]
        /\ Out \in Seq(Record)
        /\ Has(In', {"data"}) => Has(In, {"data"})
    BY ClientStepKeeps, Zenon DEF ClientStep
  <1>2. \/ Out' = Out
        \/ /\ Len(Out) \in Nat /\ DOMAIN Out = 1..Len(Out) /\ DOMAIN Out' = 1..(Len(Out) + 1)
           /\ \A i \in 1..Len(Out) : Out'[i] = Out[i]
           /\ Out'[Len(Out) + 1].t = "rehello" /\ Out' # <<>>
    <2>1. CASE \E r \in Record : r.t = "rehello" /\ Out' = Append(Out, r)
      <3>1. PICK r \in Record : r.t = "rehello" /\ Out' = Append(Out, r)
        BY <2>1
      <3>2. /\ Len(Out) \in Nat /\ DOMAIN Out = 1..Len(Out) /\ DOMAIN Append(Out, r) = 1..(Len(Out) + 1)
            /\ \A i \in 1..Len(Out) : Append(Out, r)[i] = Out[i]
            /\ Append(Out, r)[Len(Out) + 1] = r /\ Append(Out, r) # <<>>
        BY <1>1
      <3>3. Out' = Append(Out, r) /\ r.t = "rehello"
        BY <3>1
      <3> QED
        BY <3>2, <3>3, Zenon
    <2> QED
      BY <2>1
  <1>3. \/ Shaking /\ ssl["s"] = "settle" /\ ~Has(In, {"data"}) /\ Out # <<>>
           /\ \A i \in DOMAIN Out : Out[i].t = IF i = 1 THEN "finish" ELSE "rehello"
        \/ Shaken /\ ~Has(In, {"data"}) /\ \A i \in DOMAIN Out : Out[i].t = "rehello"
    BY DEF Aligned, Greeting, Shaking, Shaken
  <1>4. CASE Shaking /\ ssl["s"] = "settle" /\ ~Has(In, {"data"}) /\ Out # <<>>
             /\ \A i \in DOMAIN Out : Out[i].t = IF i = 1 THEN "finish" ELSE "rehello"
    <2>1. Len(Out) # 0
      BY <1>1, <1>4
    <2>2. Out' # <<>> /\ \A i \in DOMAIN Out' : Out'[i].t = IF i = 1 THEN "finish" ELSE "rehello"
      BY <1>2, <1>4, <2>1
    <2>3. Shaking'
      BY <1>1, <1>4, <2>2 DEF Shaking
    <2> QED
      BY <2>3
  <1>5. CASE Shaken /\ ~Has(In, {"data"}) /\ \A i \in DOMAIN Out : Out[i].t = "rehello"
    <2>1. \A i \in DOMAIN Out' : Out'[i].t = "rehello"
      BY <1>2, <1>5
    <2>2. Shaken'
      BY <1>1, <1>5, <2>1 DEF Shaken
    <2> QED
      BY <2>2
  <1> QED
    BY <1>3, <1>4, <1>5

\* ssl_client2 keeps in step with ssl_server.
LEMMA Client2Lock21 ==
    ASSUME WireInv, WrittenInv, cLink # 0, Lock1, Lock21, ClientStep, Works2,
           cProg = "ssl_client2"
    PROVE  Lock21'
  <1> SUFFICES ASSUME cPc' \in Idle, cWritten' = 0,
                      links'[cLink].up, ~(Served(Parting)' /\ ~Has(In', {"data"}))
               PROVE  Aligned'
    BY DEF Lock21, ClientStep
  <1>1. /\ In \in Seq(Record) /\ Out \in Seq(Record)
        /\ (\A P : Served(P)' <=> Served(P)) /\ (\A T : Has(In', T) => Has(In, T))
        /\ Waiting(cLink)' <=> Waiting(cLink)
    BY ClientStepKeeps, Zenon
  <1>2. /\ cLink' = cLink /\ links'[cLink].up = links[cLink].up
        /\ sLink' = sLink /\ sPc' = sPc /\ ssl'["s"] = ssl["s"]
    BY DEF ClientStep
  <1>3. /\ cLink \in 1..Len(links) /\ WireOK /\ "c" \in Side /\ Peer("c") = "s"
        /\ In = links[cLink].sent["s"] /\ Out = links[cLink].sent["c"]
        /\ In' = links'[cLink].sent["s"] /\ Out' = links'[cLink].sent["c"]
        /\ Arrived(cLink, "c") = In
    BY <1>2 DEF WireInv, WireOK, Side, Peer, In, Out, Arrived
  <1>4. cPc \in Idle /\ cWritten = 0 => Aligned
    BY <1>1, <1>2, Zenon DEF Lock21
  <1>5. Aligned => /\ cPc \notin HardPcs
                   /\ cPc \in OverPcs => ssl["c"] = "over"
    BY DEF Aligned, HardPcs, OverPcs
  <1>6. /\ cPc' \notin HardPcs /\ (cPc' \in OverPcs => ssl'["c"] = "over")
        /\ Greeting' \/ Shaking' \/ Shaken'
        => Aligned'
    BY DEF Aligned, HardPcs, OverPcs
  <1>7. In' = In /\ Out' = Out /\ ssl'["c"] = ssl["c"] /\ Aligned => Greeting' \/ Shaking' \/ Shaken'
    <2>1. SUFFICES ASSUME In' = In, Out' = Out, ssl'["c"] = ssl["c"], Aligned
                   PROVE  Greeting' \/ Shaking' \/ Shaken'
      OBVIOUS
    <2>2. (Greeting => Greeting') /\ (Shaken => Shaken')
      BY <1>1, <1>2, <2>1 DEF Greeting, Shaken
    <2>3. Shaking => Shaking'
      BY <1>1, <1>2, <2>1 DEF Shaking
    <2> QED
      BY <2>1, <2>2, <2>3 DEF Aligned
  <1>8. CASE Rests2
    <2>1. /\ In' = In /\ Out' = Out /\ ssl'["c"] = ssl["c"] /\ cPc' = cPc
          /\ cPc \in Idle /\ cWritten = 0
      BY <1>3, <1>8 DEF Rests2
    <2> QED
      BY <1>4, <1>5, <1>6, <1>7, <2>1
  <1>9. CASE GoesOn2
    <2>1. In' = In /\ Out' = Out /\ cPc \in Idle /\ cWritten = 0
      BY <1>3, <1>9 DEF GoesOn2
    <2>2. Aligned /\ cPc \notin HardPcs
      BY <1>4, <1>5, <2>1
    <2>3. /\ ssl'["c"] = ssl["c"] /\ cPc' \notin HardPcs /\ (cPc' \in OverPcs => cPc \in OverPcs)
      BY <1>9, <2>2 DEF GoesOn2
    <2> QED
      BY <1>5, <1>6, <1>7, <2>1, <2>2, <2>3
  <1>10. CASE Shakes2
    <2>1. cPc \in CHandshakes /\ cPc \in Idle /\ cWritten = 0
      BY <1>10 DEF Shakes2, CHandshakes, Idle
    <2>2. Aligned /\ cPc \notin HardPcs
      BY <1>4, <1>5, <2>1
    <2>3. PICK p \in Script, result \in {"more", "ok"} :
            /\ Follows(p, cLink, "c", CConf(cOpt), cSaved, result)
            /\ \/ result = "more" /\ cPc' = cPc
               \/ result = "ok" /\ cPc' \in {"session", "send"}
      BY <1>10 DEF Shakes2
    <2>4. Greeting' \/ Shaking' \/ Shaken'
      BY <2>2, <2>3, ClientAligned, Zenon
    <2>5. cPc' \notin HardPcs /\ (cPc' \in OverPcs => ssl'["c"] = "over")
      <3>1. ssl'["c"] = p[5] /\ result = IF p[5] = "over" THEN "ok" ELSE "more"
        BY <2>3, Zenon DEF Follows
      <3> QED
        BY <2>1, <2>2, <2>3, <3>1 DEF HardPcs, OverPcs, CHandshakes
    <2> QED
      BY <1>6, <2>4, <2>5
  <1>11. CASE Asks2
    <2>1. /\ cPc \in Idle /\ cWritten = 0 /\ ssl' = ssl /\ cPc \in OverPcs /\ cPc' \notin HardPcs
      BY <1>11 DEF Asks2, Idle, OverPcs, HardPcs
    <2>2. Aligned /\ ssl["c"] = "over" /\ ssl'["c"] = "over"
      BY <1>4, <1>5, <2>1
    <2>3. Rec("rehello", 0) \in Record /\ Rec("rehello", 0).t = "rehello"
      BY PlainRecords
    <2>4. Out' = Out \/ Out' = Append(Out, Rec("rehello", 0))
      BY <1>3, <1>11, Zenon DEF Asks2, Sends
    <2>5. Greeting' \/ Shaking' \/ Shaken'
      BY <2>2, <2>3, <2>4, OverAligned, Zenon
    <2> QED
      BY <1>6, <2>1, <2>2, <2>5
  <1>12. CASE Answered2
    <2>1. /\ cPc \in Idle /\ cWritten = 0 /\ ssl' = ssl /\ cPc \in OverPcs /\ cPc' \notin HardPcs
      BY <1>12 DEF Answered2, Idle, OverPcs, HardPcs
    <2>2. Aligned /\ ssl["c"] = "over" /\ ssl'["c"] = "over"
      BY <1>4, <1>5, <2>1
    <2>3. Out' = Out
      BY <1>12, Zenon DEF Answered2, ClientMoves, Grown
    <2>4. Greeting' \/ Shaking' \/ Shaken'
      BY <2>2, <2>3, OverAligned, Zenon
    <2> QED
      BY <1>6, <2>1, <2>2, <2>4
  <1>13. CASE Reads2
    <2>1. In # <<>> /\ In' = Tail(In)
      BY <1>3, <1>13, QueueStep, Zenon DEF Reads2
    <2>2. Head(In).t = "data" /\ Head(In).nl
      BY <1>13 DEF Reads2, Idle
    <2>3. Has(In, {"data"})
      <3>1. Head(In).t \in {"data"}
        BY <2>2
      <3> QED
        BY <1>1, <2>1, <3>1, TailQueue, Zenon
    <2>4. Served(Parting) /\ EndLast(In)
      BY <2>3, Zenon DEF Lock1
    <2>5. ~Has(In', {"data", "hreq"})
      BY <1>1, <2>1, <2>2, <2>4, TailQueue, Zenon
    <2>6. ~Has(In', {"data"})
      BY <2>5, EndsHasData, Zenon
    <2> QED
      BY <1>1, <2>4, <2>6, Zenon
  <1>14. CASE Leaves2 \/ Piece2 \/ Answers2 \/ Eof2 \/ Closes2
    BY <1>14 DEF Leaves2, Piece2, Answers2, Eof2, Closes2, CUnlinked, Idle
  <1> QED
    BY <1>8, <1>9, <1>10, <1>11, <1>12, <1>13, <1>14 DEF Works2

\* ssl_client2 keeps in step with both servers.
LEMMA Client2Lock ==
    ASSUME WireInv, OptInv, WrittenInv, NoEarlyNewline, LockInv, cProg = "ssl_client2", Client2,
           UNCHANGED <<cProg, sProg, sPc, sLink>>
    PROVE  LockInv'
  <1>1. CASE cLink' = 0
    BY <1>1 DEF LockInv
  <1>2. CASE cLink # 0 /\ Stays2
    <2>1. Locked
      BY <1>2, Zenon DEF LockInv
    <2>2. ClientStep /\ Works2
      BY <1>2 DEF ClientStep, Stays2, ClientMoves
    <2>3. CloseInv' /\ (Lock1 => Lock1')
      BY <1>2, <2>1, <2>2, ClientStepKeeps, Zenon DEF Locked
    <2>4. sProg = "ssl_server2" => Lock22'
      BY <1>2, <2>1, <2>2, Client2Lock22, Zenon DEF Locked
    <2>5. sProg = "ssl_server" => Lock1' /\ Lock21'
      BY <1>2, <2>1, <2>2, <2>3, Client2Lock21, Zenon DEF Locked
    <2>6. cProg' = "ssl_client2" /\ sProg' = sProg /\ cProg' # "ssl_client1"
      OBVIOUS
    <2>7. Locked'
      BY <2>3, <2>4, <2>5, <2>6, Zenon DEF Locked
    <2> QED
      BY <2>7, Zenon DEF LockInv
  <1> QED
    BY <1>1, <1>2, Client2Steps, Zenon
------------------------------------------------------------------------------
(* Requests and responses: the server's steps on the client's connection.  *)

\* The server takes what has arrived and sends nothing but records of the kinds T.
ServerMoves(T) ==
    /\ links'[cLink].up = links[cLink].up /\ Shrunk(Out, Out') /\ Grown(In, In', T)

\* What a call on the connection does for the server.
LEMMA ServerIo ==
    ASSUME WireInv, cLink # 0, cLink' = cLink, NEW T, NEW r \in Record, r.t \in T,
           UNCHANGED links \/ Sends(cLink, "s", r) \/ Takes(cLink, "s") \/ Swaps(cLink, "s", r)
    PROVE  ServerMoves(T)
  <1>1. cLink \in 1..Len(links) /\ WireOK /\ "s" \in Side /\ Peer("s") = "c"
    BY DEF WireInv, WireOK, Side, Peer
  <1>2. /\ In = links[cLink].sent["s"] /\ Out = links[cLink].sent["c"]
        /\ In' = links'[cLink].sent["s"] /\ Out' = links'[cLink].sent["c"]
        /\ Arrived(cLink, "s") = Out
    BY <1>1 DEF In, Out, Arrived
  <1>3. CASE UNCHANGED links
    <2>1. links'[cLink].up = links[cLink].up /\ In' = In /\ Out' = Out
      BY <1>2, <1>3
    <2> QED
      BY <2>1, Zenon DEF ServerMoves, Shrunk, Grown
  <1>4. CASE Sends(cLink, "s", r)
    <2>1. links'[cLink].up = links[cLink].up /\ Grown(In, In', T) /\ Out' = Out
      BY <1>1, <1>2, <1>4, QueueStep, Zenon
    <2> QED
      BY <2>1, Zenon DEF ServerMoves, Shrunk
  <1>5. CASE Takes(cLink, "s")
    <2>1. links'[cLink].up = links[cLink].up /\ In' = In /\ Out # <<>> /\ Out' = Tail(Out)
      BY <1>1, <1>2, <1>5, QueueStep, Zenon
    <2> QED
      BY <2>1, Zenon DEF ServerMoves, Shrunk, Grown
  <1>6. CASE Swaps(cLink, "s", r)
    <2>1. links'[cLink].up = links[cLink].up /\ Grown(In, In', T) /\ Out # <<>> /\ Out' = Tail(Out)
      BY <1>1, <1>2, <1>6, QueueStep, Zenon
    <2> QED
      BY <2>1, Zenon DEF ServerMoves, Shrunk
  <1> QED
    BY <1>3, <1>4, <1>5, <1>6

\* The calls of the library.
LEMMA ServerCalls ==
    ASSUME WireInv, cLink # 0, cLink' = cLink
    PROVE  /\ \A T : UNCHANGED links => ServerMoves(T)
           /\ \A T : \A r \in Record : \A result :
                r.t \in T /\ SslWrite(cLink, "s", r, result) => ServerMoves(T)
           /\ Takes(cLink, "s") => /\ ServerMoves({}) /\ Out # <<>> /\ Out' = Tail(Out) /\ In' = In
           /\ \A result : SslRead(cLink, "s", result) => ServerMoves({})
           /\ \A b : SslReadControl(cLink, "s", b) =>
                ServerMoves(Control) /\ Out # <<>> /\ Out' = Tail(Out)
  <1>1. /\ cLink \in 1..Len(links) /\ links \in Seq(Link) /\ "s" \in Side /\ Peer("s") = "c"
        /\ In = links[cLink].sent["s"] /\ Out = links[cLink].sent["c"]
        /\ In' = links'[cLink].sent["s"] /\ Out' = links'[cLink].sent["c"]
        /\ WireOK /\ Arrived(cLink, "s") = Out
    BY DEF WireInv, WireOK, Side, In, Out, Peer, Arrived
  <1>2. \A T : UNCHANGED links => ServerMoves(T)
    BY <1>1 DEF ServerMoves, Shrunk, Grown
  <1>3. \A T : \A r \in Record : \A result :
            r.t \in T /\ SslWrite(cLink, "s", r, result) => ServerMoves(T)
    <2> TAKE T
    <2> TAKE r \in Record
    <2> TAKE result
    <2> HAVE r.t \in T /\ SslWrite(cLink, "s", r, result)
    <2>1. UNCHANGED links \/ Sends(cLink, "s", r)
      BY <1>1, WriteStep, Zenon
    <2> QED
      BY <2>1, ServerIo, Zenon
  <1>4. Takes(cLink, "s") => /\ ServerMoves({}) /\ Out # <<>> /\ Out' = Tail(Out) /\ In' = In
    <2> HAVE Takes(cLink, "s")
    <2>1. links'[cLink].up = links[cLink].up /\ In' = In /\ Out # <<>> /\ Out' = Tail(Out)
      BY <1>1, QueueStep, Zenon
    <2> QED
      BY <2>1, Zenon DEF ServerMoves, Shrunk, Grown
  <1>5. \A result : SslRead(cLink, "s", result) => ServerMoves({})
    <2> TAKE result
    <2> HAVE SslRead(cLink, "s", result)
    <2>1. UNCHANGED links \/ Takes(cLink, "s")
      BY <1>1, ReadStep, Zenon
    <2> QED
      BY <1>2, <1>4, <2>1, Zenon
  <1>6. \A b : SslReadControl(cLink, "s", b) => ServerMoves(Control) /\ Out # <<>> /\ Out' = Tail(Out)
    <2> TAKE b
    <2> HAVE SslReadControl(cLink, "s", b)
    <2>1. PICK t \in Control : Takes(cLink, "s") \/ Swaps(cLink, "s", Rec(t, 0))
      BY <1>1, ControlStep, Zenon DEF Control
    <2>2. Rec(t, 0) \in Record /\ Rec(t, 0).t \in Control
      BY PlainRecords DEF Control
    <2>3. ServerMoves(Control)
      BY <2>1, <2>2, ServerIo, Zenon
    <2>4. Out # <<>> /\ Out' = Tail(Out)
      BY <1>1, <2>1, <2>2, QueueStep, Zenon
    <2> QED
      BY <2>3, <2>4
  <1> QED
    BY <1>2, <1>3, <1>4, <1>5, <1>6, Zenon

\* The records a server sends in a handshake.
LEMMA ServerShakes ==
    ASSUME WireInv, cLink # 0, cLink' = cLink, NEW conf, NEW resume, NEW result,
           Version(conf) \in Int, SslHandshake(cLink, "s", conf, resume, result)
    PROVE  /\ ServerMoves({"flight", "short", "finished", "fatal"}) /\ ssl'["c"] = ssl["c"]
           /\ \/ \E p \in Script : Follows(p, cLink, "s", conf, resume, result)
              \/ result = "error" /\ ServerMoves({"fatal"})
  <1>1. /\ cLink \in 1..Len(links) /\ links \in Seq(Link) /\ "s" \in Side /\ DOMAIN ssl = Side
        /\ Peer("s") = "c" /\ "s" # "c"
    BY DEF WireInv, WireOK, Side, Peer
  <1>2. /\ ssl'["c"] = ssl["c"]
        /\ \/ \E p \in Script : Follows(p, cLink, "s", conf, resume, result)
           \/ Fails(cLink, "s", conf, result)
    BY <1>1, HandshakeStep, Zenon
  <1>3. /\ Rec("fatal", 0) \in Record /\ Rec("fatal", 0).t \in {"flight", "short", "finished", "fatal"}
        /\ Rec("fatal", 0).t \in {"fatal"}
    BY PlainRecords
  <1>4. CASE Fails(cLink, "s", conf, result)
    <2>1. result = "error" /\ (UNCHANGED links \/ Swaps(cLink, "s", Rec("fatal", 0)))
      BY <1>4, Zenon DEF Fails
    <2>2. ServerMoves({"flight", "short", "finished", "fatal"}) /\ ServerMoves({"fatal"})
      BY <1>3, <2>1, ServerIo, Zenon
    <2> QED
      BY <1>2, <2>1, <2>2, Zenon
  <1>5. CASE \E p \in Script : Follows(p, cLink, "s", conf, resume, result)
    <2>1. PICK p \in Script : Follows(p, cLink, "s", conf, resume, result)
      BY <1>5
    <2>2. CASE Takes(cLink, "s")
      BY <1>2, <1>3, <1>5, <2>2, ServerIo, Zenon
    <2>3. CASE p[3] = "!" /\ \E n \in Int : Sends(cLink, "s", Rec(p[4], n))
      <3>1. PICK n \in Int : Sends(cLink, "s", Rec(p[4], n))
        BY <2>3
      <3>2. p[4] \in {"flight", "short", "finished"}
        <4>1. p[1] = "s"
          BY <2>1, Zenon DEF Follows
        <4> QED
          BY <2>3, <4>1, ScriptSides
      <3>3. Rec(p[4], n) \in Record /\ Rec(p[4], n).t \in {"flight", "short", "finished", "fatal"}
        BY <3>2, RecordTypes DEF Kinds
      <3> QED
        BY <1>2, <1>5, <3>1, <3>3, ServerIo, Zenon
    <2> QED
      BY <2>1, <2>2, <2>3, Zenon DEF Follows
  <1> QED
    BY <1>2, <1>4, <1>5, Zenon
------------------------------------------------------------------------------
(* Requests and responses: the server's steps elsewhere.                   *)

\* A call on connection l leaves the other ones alone.
LEMMA CallElsewhere ==
    ASSUME WireInv, NEW l \in 1..Len(links), NEW x \in Side,
           \/ \E r \in Record, result \in {"ok", "error"} : SslWrite(l, x, r, result)
           \/ \E result : SslRead(l, x, result)
           \/ \E b : SslReadControl(l, x, b)
           \/ UNCHANGED links
    PROVE  \A m \in 1..Len(links) : m # l => links'[m] = links[m]
  <1>1. links \in Seq(Link)
    BY DEF WireInv, WireOK
  <1>2. Moves(l) \/ UNCHANGED links
    <2>1. CASE \E r \in Record, result \in {"ok", "error"} : SslWrite(l, x, r, result)
      BY <1>1, <2>1, WriteStep, Zenon DEF Sends
    <2>2. CASE \E result : SslRead(l, x, result)
      BY <1>1, <2>2, ReadStep, Zenon DEF Takes
    <2>3. CASE \E b : SslReadControl(l, x, b)
      BY <1>1, <2>3, ControlStep, Zenon DEF Takes, Swaps
    <2> QED
      BY <2>1, <2>2, <2>3
  <1> QED
    BY <1>2 DEF Moves

\* A step of a handshake on connection l leaves the other ones alone, too.
LEMMA HandshakeElsewhere ==
    ASSUME WireInv, NEW l \in 1..Len(links), NEW x \in Side, NEW conf, NEW resume, NEW result,
           x = "s" => Version(conf) \in Int, SslHandshake(l, x, conf, resume, result)
    PROVE  /\ \A m \in 1..Len(links) : m # l => links'[m] = links[m]
           /\ ssl'[Peer(x)] = ssl[Peer(x)]
  <1>1. links \in Seq(Link) /\ DOMAIN ssl = Side
    BY DEF WireInv, WireOK
  <1>2. /\ ssl'[Peer(x)] = ssl[Peer(x)]
        /\ \/ \E p \in Script : Follows(p, l, x, conf, resume, result)
           \/ Fails(l, x, conf, result)
    BY <1>1, HandshakeStep, Zenon
  <1>3. Moves(l) \/ UNCHANGED links
    BY <1>2, Zenon DEF Follows, Fails, Sends, Takes, Swaps
  <1> QED
    BY <1>2, <1>3 DEF Moves

\* The server is busy with another connection, or with none.
LEMMA ElsewhereLock ==
    ASSUME WireInv, LockInv, ClientRests, sLink # cLink, UNCHANGED <<sLink, backlog>>,
           ssl'["c"] = ssl["c"], \A m \in 1..Len(links) : m # sLink => links'[m] = links[m]
    PROVE  LockInv'
  <1> SUFFICES ASSUME cLink # 0 PROVE Locked'
    BY DEF LockInv, ClientRests
  <1>1. cLink' = cLink /\ sLink' = sLink /\ cLink \in 1..Len(links) /\ Locked
    BY DEF WireInv, WireOK, ClientRests, LockInv
  <1>2. links'[cLink] = links[cLink]
    BY <1>1
  <1>3. In' = In /\ Out' = Out /\ links'[cLink].up = links[cLink].up
    BY <1>1, <1>2 DEF In, Out
  <1>4. Waiting(cLink)' <=> Waiting(cLink)
    BY <1>1 DEF Waiting
  <1> QED
    BY <1>1, <1>3, <1>4, LockSame

\* The server accepts a connection, or fails to.
LEMMA AcceptLock ==
    ASSUME WireInv, LockInv, ClientRests, sPc = "accept", backlog # <<>>, backlog' = Tail(backlog),
           \/ sPc' = "handshake" /\ sLink' = Head(backlog)
           \/ sPc' = "exit" /\ sLink' = sLink,
           UNCHANGED <<links, ssl>>
    PROVE  LockInv'
  <1> SUFFICES ASSUME cLink # 0 PROVE Locked'
    BY DEF LockInv, ClientRests
  <1>1. /\ cLink' = cLink /\ cLink \in 1..Len(links) /\ Locked
        /\ sLink = 0 /\ ssl["s"] = "start"
    BY DEF WireInv, WireOK, ClientRests, LockInv, SPcOK, SUnlinked
  <1>2. In' = In /\ Out' = Out /\ links'[cLink].up = links[cLink].up /\ ssl'["c"] = ssl["c"]
    BY <1>1 DEF In, Out
  <1>3. /\ Waiting(Head(backlog))
        /\ \A l : Waiting(l)' <=> Waiting(l) /\ l # Head(backlog)
    BY WaitingSteps, Zenon DEF WireInv
  <1>4. Waiting(cLink)' <=> Waiting(cLink) /\ cLink # Head(backlog)
    BY <1>1, <1>3 DEF Waiting
  <1>5. CASE cLink # Head(backlog)
    <2>1. sLink # cLink /\ sLink' # cLink
      BY <1>1, <1>5
    <2> QED
      BY <1>1, <1>2, <1>4, <1>5, <2>1, LockSame
  <1>6. CASE cLink = Head(backlog) /\ sLink' = cLink
    <2>1. sPc' = "handshake" /\ sLink # cLink /\ Waiting(cLink)
      BY <1>1, <1>3, <1>6
    <2> QED
      BY <1>1, <1>6, <2>1, LockAccept
  <1>7. CASE cLink = Head(backlog) /\ sLink' # cLink
    BY <1>1, <1>2, <1>3, <1>4, <1>7, LockLeave
  <1> QED
    BY <1>5, <1>6, <1>7

\* The server leaves its connection and waits for the next client.
LEMMA ResetLock ==
    ASSUME WireInv, LockInv, ClientRests, SReset
    PROVE  LockInv'
  <1> SUFFICES ASSUME cLink # 0 PROVE Locked'
    BY DEF LockInv, ClientRests
  <1>1. /\ cLink' = cLink /\ cLink \in 1..Len(links) /\ Locked /\ DOMAIN ssl = Side
        /\ "c" \in links[cLink].open
    BY DEF WireInv, WireOK, EndsOK, ClientRests, LockInv
  <1>2. sPc = "reset" /\ backlog' = backlog /\ ssl' = [ssl EXCEPT !["s"] = "start"]
    BY DEF SReset, SGoto
  <1>3. /\ sLink' = 0
        /\ \A l \in 1..Len(links) : l # sLink => links'[l] = links[l]
        /\ sLink # 0 => Closes(sLink, "s")
    BY <1>1, WireReset DEF WireInv
  <1>4. Waiting(cLink)' <=> Waiting(cLink)
    BY <1>1, <1>2 DEF Waiting
  <1>5. CASE sLink # cLink
    <2>1. links'[cLink] = links[cLink] /\ ssl'["c"] = ssl["c"]
      BY <1>1, <1>2, <1>3, <1>5 DEF Side
    <2>2. In' = In /\ Out' = Out /\ links'[cLink].up = links[cLink].up
      BY <1>1, <2>1 DEF In, Out
    <2> QED
      BY <1>1, <1>3, <1>4, <1>5, <2>1, <2>2, LockSame
  <1>6. CASE sLink = cLink
    <2>1. Closes(cLink, "s") /\ ~Waiting(cLink)
      BY <1>3, <1>6 DEF WireInv, EndsOK
    <2>2. links'[cLink].open # {}
      BY <1>1, <2>1 DEF Closes
    <2>3. links'[cLink].sent["s"] = links[cLink].sent["s"] /\ links'[cLink].sent["c"] = <<>>
      BY <2>1, <2>2 DEF Closes, Peer
    <2>4. In' = In /\ Out' = <<>>
      BY <1>1, <2>3 DEF In, Out
    <2>5. ~Waiting(cLink)' /\ sLink' # cLink
      BY <1>3, <1>4, <2>1
    <2> QED
      BY <1>1, <1>2, <1>6, <2>4, <2>5, LockLeave
  <1> QED
    BY <1>5, <1>6

\* The server ends.
LEMMA ExitLock ==
    ASSUME WireInv, LockInv, ClientRests, sPc = "exit", SNetFree
    PROVE  LockInv'
  <1> SUFFICES ASSUME cLink # 0 PROVE Locked'
    BY DEF LockInv, ClientRests
  <1>1. /\ cLink' = cLink /\ cLink \in 1..Len(links) /\ Locked /\ "c" \in links[cLink].open
        /\ links[cLink] \in Link /\ links \in Seq(Link) /\ DOMAIN links = 1..Len(links)
    BY DEF WireInv, WireOK, EndsOK, ClientRests, LockInv
  <1>2. sLink' = 0 /\ backlog' = <<>> /\ ssl' = ssl
    BY DEF SNetFree
  <1>3. ~Waiting(cLink)'
    BY <1>2 DEF Waiting
  <1>4. cLink \in ToSet(backlog) <=> Waiting(cLink)
    BY Zenon DEF ToSet, Waiting
  <1>5. links'[cLink] = IF cLink = sLink \/ cLink \in ToSet(backlog) THEN Shut(links[cLink], "s") ELSE links[cLink]
    BY <1>1, Zenon DEF SNetFree
  <1>6. CASE ~(cLink = sLink \/ Waiting(cLink))
    <2>1. links'[cLink] = links[cLink]
      BY <1>4, <1>5, <1>6
    <2>2. In' = In /\ Out' = Out /\ links'[cLink].up = links[cLink].up /\ ssl'["c"] = ssl["c"]
      BY <1>1, <1>2, <2>1 DEF In, Out
    <2> QED
      BY <1>1, <1>2, <1>3, <1>6, <2>2, LockSame
  <1>7. CASE cLink = sLink \/ Waiting(cLink)
    <2>1. links'[cLink] = Shut(links[cLink], "s")
      BY <1>4, <1>5, <1>7
    <2>2. /\ Shut(links[cLink], "s").open = links[cLink].open \ {"s"}
          /\ Shut(links[cLink], "s").sent["c"] = <<>>
          /\ Shut(links[cLink], "s").open # {} =>
                Shut(links[cLink], "s").sent["s"] = links[cLink].sent["s"]
      BY <1>1, ShutLink DEF Side, Peer
    <2>3. In' = In /\ Out' = <<>>
      BY <1>1, <2>1, <2>2 DEF In, Out
    <2>4. sLink' # cLink
      BY <1>2
    <2> QED
      BY <1>1, <1>3, <1>7, <2>3, <2>4, LockLeave
  <1> QED
    BY <1>6, <1>7
------------------------------------------------------------------------------
(* Requests and responses: the server at work on the client's connection.  *)

\* What every step of the server leaves alone while it works on the connection.
ServerStep ==
    /\ ClientRests /\ UNCHANGED <<sLink, backlog>> /\ ssl'["c"] = ssl["c"]
    /\ sLink = cLink /\ sPc \in SLinked
    /\ links'[cLink].up = links[cLink].up /\ Shrunk(Out, Out')

\* The client's part of the invariant; a server that works has not closed yet.
LEMMA ServerStepKeeps ==
    ASSUME WireInv, cLink # 0, CloseInv, ServerStep
    PROVE  /\ In \in Seq(Record) /\ Out \in Seq(Record)
           /\ ~Waiting(cLink) /\ ~Waiting(cLink)'
           /\ Busy <=> sPc \in {"renegotiate", "write"}
           /\ Busy' <=> sPc' \in {"renegotiate", "write"}
           /\ \A P : Served(P) <=> sPc \in P
           /\ \A P : Served(P)' <=> sPc' \in P
           /\ \A T : Has(Out', T) => Has(Out, T)
           /\ Ends(Out') => Ends(Out)
           /\ EndLast(Out) => EndLast(Out')
           /\ \A T : Grown(In, In', T) /\ ("close" \notin T \/ sPc' = "reset") => CloseInv'
  <1>1. cLink' = cLink /\ sLink' = sLink /\ sLink = cLink /\ sPc \in SLinked
    BY DEF ServerStep, ClientRests
  <1>2. In \in Seq(Record) /\ Out \in Seq(Record)
    BY QueueStep DEF WireInv, WireOK, In, Out, Side
  <1>3. ~Waiting(cLink) /\ ~Waiting(cLink)'
    BY <1>1 DEF ServerStep, WireInv, EndsOK, Waiting
  <1>4. /\ Busy <=> sPc \in {"renegotiate", "write"}
        /\ Busy' <=> sPc' \in {"renegotiate", "write"}
    BY <1>1 DEF Busy
  <1>5. /\ \A P : Served(P) <=> sPc \in P
        /\ \A P : Served(P)' <=> sPc' \in P
    BY <1>1, <1>3 DEF Served
  <1>6. /\ \A T : Has(Out', T) => Has(Out, T)
        /\ Ends(Out') => Ends(Out)
        /\ EndLast(Out) => EndLast(Out')
    BY <1>2, ShrunkQueue, Zenon DEF ServerStep
  <1>7. ~Has(In, {"close"})
    <2>1. sPc \notin {"reset", "exit"}
      BY <1>1 DEF SLinked
    <2> QED
      BY <1>5, <2>1, Zenon DEF CloseInv
  <1>8. \A T : Grown(In, In', T) /\ ("close" \notin T \/ sPc' = "reset") => CloseInv'
    <2> TAKE T
    <2> HAVE Grown(In, In', T) /\ ("close" \notin T \/ sPc' = "reset")
    <2>1. /\ CloseLast(In')
          /\ "close" \notin T => ~Has(In', {"close"})
      BY <1>2, <1>7, GrownQueue, Zenon
    <2>2. sPc' = "reset" => Served({"reset", "exit"})'
      <3>1. "reset" \in {"reset", "exit"}
        OBVIOUS
      <3> QED
        BY <1>5, <3>1, Zenon
    <2> QED
      BY <2>1, <2>2, Zenon DEF CloseInv
  <1> QED
    BY <1>2, <1>3, <1>4, <1>5, <1>6, <1>8, Zenon

\* What ssl_server2 does on the connection.
PlainKinds == {"flight", "short", "finished", "fatal"} \cup Control
Attends ==
    /\ sPc \in {"handshake", "read"} /\ sPc' \in {"handshake", "read", "close_notify", "reset"}
    /\ ServerMoves(PlainKinds)
Requested ==
    /\ sPc = "read" /\ sPc' = "renegotiate" /\ In' = In
    /\ Out # <<>> /\ Out' = Tail(Out) /\ Head(Out).t = "data" /\ Head(Out).nl
GoesOn == sPc \in {"renegotiate", "write"} /\ sPc' \in {"write", "reset"} /\ In' = In /\ Out' = Out
Wishes == sPc = "renegotiate" /\ sPc' = "write" /\ links[cLink].up /\ ServerMoves({"hreq"})
Responds ==
    /\ sPc = "write" /\ links[cLink].up /\ Out' = Out
    /\ \E r \in Record : /\ r.t = "data" /\ (In' = In \/ In' = Append(In, r))
                         /\ \/ r.nl /\ sPc' \in {"read", "close_notify"}
                            \/ ~r.nl /\ sPc' = "write"
Parts == sPc = "close_notify" /\ sPc' = "reset" /\ ServerMoves({"close"})

Serves2 == Attends \/ Requested \/ GoesOn \/ Wishes \/ Responds \/ Parts

\* The records ssl_server2 sends outside of a response.
LEMMA PlainQueue ==
    ASSUME NEW q \in Seq(Record), NEW p, Grown(q, p, PlainKinds) \/ Grown(q, p, {"close"})
    PROVE  /\ Has(p, {"data"}) => Has(q, {"data"})
           /\ Has(p, {"hreq"}) => Has(q, {"hreq"})
           /\ Has(p, {"data", "hreq"}) => Has(q, {"data", "hreq"})
           /\ Ends(p) => Ends(q)
           /\ EndLast(q) => EndLast(p)
  <1>1. "data" \notin PlainKinds /\ "hreq" \notin PlainKinds /\ "data" \notin {"close"} /\ "hreq" \notin {"close"}
    BY DEF PlainKinds, Control
  <1> QED
    BY <1>1, GrownQueue, Zenon

\* ssl_server2 keeps in step with ssl_client1.
LEMMA Server2Lock12 ==
    ASSUME WireInv, cLink # 0, CloseInv, ServerStep, Serves2, Lock12
    PROVE  Lock12'
  <1>1. /\ In \in Seq(Record) /\ Out \in Seq(Record) /\ cPc' = cPc
        /\ Busy <=> sPc \in {"renegotiate", "write"}
        /\ Busy' <=> sPc' \in {"renegotiate", "write"}
        /\ \A T : Has(Out', T) => Has(Out, T)
    BY ServerStepKeeps, Zenon DEF ServerStep, ClientRests
  <1> SUFFICES ASSUME cPc \notin {"read", "close", "exit"}
               PROVE  ~Has(Out', {"data"}) /\ ~Busy' /\ ~Has(In', {"hreq"})
    BY <1>1, Zenon DEF Lock12
  <1>2. ~Has(Out, {"data"}) /\ ~Busy /\ ~Has(In, {"hreq"})
    BY Zenon DEF Lock12
  <1>3. ~Requested
    <2> SUFFICES ASSUME Requested PROVE FALSE
      OBVIOUS
    <2>1. Out # <<>> /\ Head(Out).t \in {"data"}
      BY DEF Requested
    <2> QED
      BY <1>1, <1>2, <2>1, TailQueue, Zenon
  <1>4. (Attends \/ Parts) /\ ~Busy'
    BY <1>1, <1>2, <1>3 DEF Serves2, Attends, GoesOn, Wishes, Responds, Parts
  <1>5. Grown(In, In', PlainKinds) \/ Grown(In, In', {"close"})
    BY <1>4, Zenon DEF Attends, Parts, ServerMoves
  <1> QED
    BY <1>1, <1>2, <1>4, <1>5, PlainQueue, Zenon

\* ssl_server2 keeps in step with ssl_client2.
LEMMA Server2Lock22 ==
    ASSUME WireInv, cLink # 0, CloseInv, ServerStep, Serves2, Lock22
    PROVE  Lock22'
  <1>1. /\ In \in Seq(Record) /\ Out \in Seq(Record)
        /\ Busy <=> sPc \in {"renegotiate", "write"}
        /\ Busy' <=> sPc' \in {"renegotiate", "write"}
        /\ \A P : Served(P) <=> sPc \in P
        /\ \A P : Served(P)' <=> sPc' \in P
        /\ \A T : Has(Out', T) => Has(Out, T)
        /\ Ends(Out') => Ends(Out)
        /\ EndLast(Out) => EndLast(Out')
    BY ServerStepKeeps, Zenon
  <1>2. cPc' = cPc /\ cWritten' = cWritten /\ cLink' = cLink /\ links'[cLink].up = links[cLink].up
    BY DEF ServerStep, ClientRests
  <1>3. /\ Ends(In) => Has(In, {"data"})
        /\ Ends(Out) => Has(Out, {"data"})
        /\ Has(In, {"data"}) => Has(In, {"data", "hreq"})
        /\ Has(In, {"hreq"}) => Has(In, {"data", "hreq"})
        /\ ~Ends(In) => EndLast(In)
    BY EndsHasData, Zenon
  <1>4. CASE Attends \/ Parts
    <2>1. Grown(In, In', PlainKinds) \/ Grown(In, In', {"close"})
      BY <1>4, Zenon DEF Attends, Parts, ServerMoves
    <2>2. /\ Has(In', {"hreq"}) => Has(In, {"hreq"})
          /\ Has(In', {"data", "hreq"}) => Has(In, {"data", "hreq"})
          /\ Ends(In') => Ends(In)
          /\ EndLast(In) => EndLast(In')
      BY <1>1, <2>1, PlainQueue, Zenon
    <2>3. ~Busy' /\ (Served(Closing) => Served(Closing)')
      <3>1. /\ sPc' \notin {"renegotiate", "write"}
            /\ sPc \in Closing => sPc' \in Closing
        BY <1>4 DEF Attends, Parts, Closing
      <3> QED
        BY <1>1, <3>1, Zenon
    <2> QED
      BY <1>1, <1>2, <2>2, <2>3 DEF Lock22
  <1>5. CASE Requested
    <2>1. /\ sPc = "read" /\ sPc' = "renegotiate" /\ In' = In
          /\ Out # <<>> /\ Out' = Tail(Out) /\ Head(Out).t = "data" /\ Head(Out).nl
      BY <1>5 DEF Requested
    <2>2. Ends(Out)
      BY <1>1, <2>1, TailQueue, Zenon
    <2>3. EndLast(Out) => ~Has(Out', {"data", "hreq"})
      BY <1>1, <2>1, TailQueue, Zenon
    <2>4. ~Has(Out', {"data", "hreq"}) => ~Has(Out', {"data"}) /\ ~Ends(Out')
      BY EndsHasData, Zenon
    <2>5. ~Served(Closing)
      <3>1. sPc \notin Closing
        BY <2>1 DEF Closing
      <3> QED
        BY <1>1, <3>1, Zenon
    <2>6. cPc \in {"close", "reconnect"} => ~links[cLink].up
      BY <1>3, <2>2, <2>5 DEF Lock22
    <2>7. ~(cPc \in Idle /\ cWritten = 0) /\ ~(cPc = "send" /\ cWritten # 0)
      BY <1>3, <2>2 DEF Lock22
    <2>8. cPc = "read" => ~Has(Out', {"data"}) /\ ~Ends(Out') /\ ~Ends(In')
      BY <1>3, <2>1, <2>2, <2>3, <2>4 DEF Lock22
    <2>9. cPc \in {"close", "reconnect"} => ~Has(In', {"hreq"})
      BY <2>1 DEF Lock22
    <2> QED
      BY <1>2, <2>6, <2>7, <2>8, <2>9 DEF Lock22
  <1>6. CASE GoesOn \/ Wishes \/ Responds
    <2>1. Busy /\ ~Served(Closing)
      <3>1. sPc \in {"renegotiate", "write"} /\ sPc \notin Closing
        BY <1>6 DEF GoesOn, Wishes, Responds, Closing
      <3> QED
        BY <1>1, <3>1, Zenon
    <2>2. ~(cPc \in Idle /\ cWritten = 0) /\ ~(cPc = "send" /\ cWritten # 0)
      BY <2>1 DEF Lock22
    <2>3. cPc \in {"close", "reconnect"} => ~links[cLink].up /\ ~Has(In, {"hreq"})
      BY <2>1 DEF Lock22
    <2>4. cPc = "read" => ~Has(Out, {"data"}) /\ ~Ends(In)
      BY <2>1 DEF Lock22
    <2>5. cPc = "read" => ~Has(Out', {"data"}) /\ ~Ends(Out')
      BY <1>1, <1>3, <2>4
    <2>6. CASE GoesOn
      <3>1. In' = In
        BY <2>6 DEF GoesOn
      <3> QED
        BY <1>2, <2>2, <2>3, <2>4, <2>5, <3>1 DEF Lock22
    <2>7. CASE Wishes
      <3>1. links[cLink].up /\ Grown(In, In', {"hreq"}) /\ "data" \notin {"hreq"}
        BY <2>7 DEF Wishes, ServerMoves
      <3>2. Ends(In') => Ends(In)
        BY <1>1, <3>1, GrownQueue, Zenon
      <3> QED
        BY <1>2, <2>2, <2>3, <2>4, <2>5, <3>1, <3>2 DEF Lock22
    <2>8. CASE Responds
      <3>1. PICK r \in Record : /\ r.t = "data" /\ (In' = In \/ In' = Append(In, r))
                                /\ \/ r.nl /\ sPc' \in {"read", "close_notify"}
                                   \/ ~r.nl /\ sPc' = "write"
        BY <2>8, Zenon DEF Responds
      <3>2. links[cLink].up
        BY <2>8 DEF Responds
      <3>3. /\ ~r.nl => (Ends(In') => Ends(In))
            /\ ~Ends(In) => EndLast(In')
        <4>1. /\ Ends(Append(In, r)) <=> Ends(In) \/ (r.t = "data" /\ r.nl)
              /\ EndLast(In) /\ (~Ends(In) \/ r.t \notin {"data", "hreq"}) => EndLast(Append(In, r))
          BY <1>1, AppendQueue, Zenon
        <4> QED
          BY <1>3, <3>1, <4>1, Zenon
      <3>4. r.nl => ~Busy'
        <4>1. r.nl => sPc' \notin {"renegotiate", "write"}
          BY <3>1
        <4> QED
          BY <1>1, <4>1, Zenon
      <3> QED
        BY <1>2, <2>2, <2>3, <2>4, <2>5, <3>2, <3>3, <3>4 DEF Lock22
    <2> QED
      BY <1>6, <2>6, <2>7, <2>8
  <1> QED
    BY <1>4, <1>5, <1>6 DEF Serves2

\* What ssl_server does on the connection.
Greets1 ==
    /\ sPc = "handshake"
    /\ \E p \in Script, result \in {"more", "ok"} : \E conf, resume :
        /\ Follows(p, cLink, "s", conf, resume, result)
        /\ sPc' = IF result = "ok" THEN "read" ELSE "handshake"
Refuses1 == sPc = "handshake" /\ sPc' = "reset" /\ ServerMoves({"fatal"})
Reads1 ==
    /\ sPc = "read" /\ sPc' = "write" /\ ServerMoves({})
    /\ Gone(cLink, "s") \/ (Out # <<>> /\ Head(Out).t # "rehello")
Answers1 == sPc = "read" /\ sPc' = "read" /\ ServerMoves(Control) /\ Out # <<>> /\ Out' = Tail(Out)
Writes1 ==
    /\ sPc = "write" /\ sPc' \in {"close_notify", "exit"}
    /\ \/ In' = In
       \/ sPc' = "close_notify" /\ \E r \in Record : r.t = "data" /\ In' = Append(In, r)

Serves1 == Greets1 \/ Refuses1 \/ Reads1 \/ Answers1 \/ Writes1 \/ Parts

\* The server side of the handshake: a step of the script keeps both sides aligned.
LEMMA ServerAligned ==
    ASSUME WireInv, cLink # 0, CloseInv, ServerStep, Aligned, sPc = "handshake",
           NEW p \in Script, NEW conf, NEW resume, NEW result,
           Follows(p, cLink, "s", conf, resume, result),
           sPc' = IF result = "ok" THEN "read" ELSE "handshake"
    PROVE  Shaking' \/ Shaken'
  <1>1. /\ cLink' = cLink /\ sLink' = sLink /\ sLink = cLink /\ ssl'["c"] = ssl["c"]
    BY DEF ServerStep, ClientRests
  <1>2. /\ cLink \in 1..Len(links) /\ WireOK /\ "s" \in Side /\ Peer("s") = "c"
        /\ In = links[cLink].sent["s"] /\ Out = links[cLink].sent["c"]
        /\ In' = links'[cLink].sent["s"] /\ Out' = links'[cLink].sent["c"]
        /\ Arrived(cLink, "s") = Out
    BY <1>1 DEF WireInv, WireOK, Side, Peer, In, Out, Arrived
  <1>3. In \in Seq(Record) /\ Out \in Seq(Record) /\ ~Waiting(cLink)
    BY ServerStepKeeps, Zenon
  <1>4. "c" \in links[cLink].open
    BY DEF WireInv, EndsOK
  <1>5. /\ p[1] = "s" /\ p[2] = ssl["s"] /\ p[5] = ssl'["s"]
        /\ result = IF p[5] = "over" THEN "ok" ELSE "more"
    BY Zenon DEF Follows
  <1>6. /\ \/ ssl["s"] = "start"  /\ p[3] = "?" /\ p[4] = "hello"    /\ ssl'["s"] \in {"reply", "resume"}
           \/ ssl["s"] = "reply"  /\ p[3] = "!" /\ p[4] = "flight"   /\ ssl'["s"] = "wait"
           \/ ssl["s"] = "wait"   /\ p[3] = "?" /\ p[4] = "finish"   /\ ssl'["s"] = "last"
           \/ ssl["s"] = "last"   /\ p[3] = "!" /\ p[4] = "finished" /\ ssl'["s"] = "over"
           \/ ssl["s"] = "resume" /\ p[3] = "!" /\ p[4] = "short"    /\ ssl'["s"] = "settle"
           \/ ssl["s"] = "settle" /\ p[3] = "?" /\ p[4] = "finish"   /\ ssl'["s"] = "over"
        /\ sPc' = IF ssl'["s"] = "over" THEN "read" ELSE "handshake"
    BY <1>5, ScriptSides
  <1>7. ASSUME p[3] = "!", In = <<>>, p[4] \in {"flight", "short", "finished"}
        PROVE  Out' = Out /\ Only(In', p[4])
    <2>1. PICK n \in Int : links[cLink].up /\ Sends(cLink, "s", Rec(p[4], n))
      BY <1>7, Zenon DEF Follows
    <2>2. Rec(p[4], n) \in Record /\ Rec(p[4], n).t = p[4]
      BY <1>7, RecordTypes DEF Kinds
    <2>3. Out' = Out /\ In' = Append(<<>>, Rec(p[4], n))
      BY <1>2, <1>4, <1>7, <2>1, Zenon DEF Sends, Fits
    <2> QED
      BY <2>2, <2>3, OneRecord
  <1>8. ASSUME p[3] = "?"
        PROVE  Out # <<>> /\ Head(Out).t = p[4] /\ Out' = Tail(Out) /\ In' = In
    <2>1. Takes(cLink, "s") /\ Head(Out).t = p[4]
      BY <1>2, <1>8 DEF Follows
    <2> QED
      BY <1>2, <2>1 DEF Takes
  <1>9. \A k : Only(Out, k) /\ Out # <<>> => Tail(Out) = <<>> /\ Head(Out).t = k
    BY <1>3, TailQueue, Zenon
  <1>10. CASE ssl["s"] = "start" /\ p[3] = "?" /\ p[4] = "hello" /\ ssl'["s"] \in {"reply", "resume"}
    <2>1. Out # <<>> /\ Out' = Tail(Out) /\ In' = In
      BY <1>8, <1>10
    <2>2. ssl["c"] = "sent" /\ Only(Out, "hello") /\ In = <<>>
      BY <1>10, <2>1 DEF Aligned, Greeting, Shaking, Shaken
    <2>3. Out' = <<>> /\ In' = <<>>
      BY <1>9, <2>1, <2>2
    <2>4. Shaking'
      BY <1>1, <1>6, <1>10, <2>2, <2>3 DEF Shaking
    <2> QED
      BY <2>4
  <1>11. CASE ssl["s"] = "reply" /\ p[3] = "!" /\ p[4] = "flight" /\ ssl'["s"] = "wait"
    <2>1. ssl["c"] = "sent" /\ In = <<>> /\ Out = <<>>
      BY <1>3, <1>11 DEF Aligned, Greeting, Shaking, Shaken
    <2>2. Out' = <<>> /\ Only(In', "flight")
      BY <1>7, <1>11, <2>1
    <2>3. Shaking'
      BY <1>1, <1>6, <1>11, <2>1, <2>2 DEF Shaking
    <2> QED
      BY <2>3
  <1>12. CASE ssl["s"] = "wait" /\ p[3] = "?" /\ p[4] = "finish" /\ ssl'["s"] = "last"
    <2>1. Out # <<>> /\ Out' = Tail(Out) /\ In' = In
      BY <1>8, <1>12
    <2>2. ssl["c"] = "wait" /\ In = <<>> /\ Only(Out, "finish")
      BY <1>3, <1>12, <2>1 DEF Aligned, Greeting, Shaking, Shaken
    <2>3. Out' = <<>> /\ In' = <<>>
      BY <1>9, <2>1, <2>2
    <2>4. Shaking'
      BY <1>1, <1>6, <1>12, <2>2, <2>3 DEF Shaking
    <2> QED
      BY <2>4
  <1>13. CASE ssl["s"] = "last" /\ p[3] = "!" /\ p[4] = "finished" /\ ssl'["s"] = "over"
    <2>1. ssl["c"] = "wait" /\ In = <<>> /\ Out = <<>>
      BY <1>3, <1>13 DEF Aligned, Greeting, Shaking, Shaken
    <2>2. Out' = <<>> /\ Only(In', "finished")
      BY <1>7, <1>13, <2>1
    <2>3. Shaken'
      BY <1>1, <1>6, <1>13, <2>1, <2>2 DEF Shaken
    <2> QED
      BY <2>3
  <1>14. CASE ssl["s"] = "resume" /\ p[3] = "!" /\ p[4] = "short" /\ ssl'["s"] = "settle"
    <2>1. ssl["c"] = "sent" /\ In = <<>> /\ Out = <<>>
      BY <1>3, <1>14 DEF Aligned, Greeting, Shaking, Shaken
    <2>2. Out' = <<>> /\ Only(In', "short")
      BY <1>7, <1>14, <2>1
    <2>3. Shaking'
      BY <1>1, <1>6, <1>14, <2>1, <2>2 DEF Shaking
    <2> QED
      BY <2>3
  <1>15. CASE ssl["s"] = "settle" /\ p[3] = "?" /\ p[4] = "finish" /\ ssl'["s"] = "over"
    <2>1. Out # <<>> /\ Out' = Tail(Out) /\ In' = In
      BY <1>8, <1>15
    <2>2. /\ ssl["c"] = "over" /\ ~Has(In, {"data"})
          /\ \A i \in DOMAIN Out : Out[i].t = IF i = 1 THEN "finish" ELSE "rehello"
      BY <1>3, <1>15, <2>1 DEF Aligned, Greeting, Shaking, Shaken
    <2>3. /\ Len(Out) \in Nat /\ DOMAIN Out = 1..Len(Out) /\ DOMAIN Tail(Out) = 1..(Len(Out) - 1)
          /\ \A i \in 1..(Len(Out) - 1) : Tail(Out)[i] = Out[i + 1]
      BY <1>3, <2>1
    <2>4. \A i \in DOMAIN Out' : Out'[i].t = "rehello"
      BY <2>1, <2>2, <2>3
    <2>5. Shaken'
      BY <1>1, <1>6, <1>15, <2>1, <2>2, <2>4 DEF Shaken
    <2> QED
      BY <2>5
  <1> QED
    BY <1>6, <1>10, <1>11, <1>12, <1>13, <1>14, <1>15

\* ssl_server sends its response and nothing else a client could take for one.
LEMMA Server1Lock1 ==
    ASSUME WireInv, cLink # 0, CloseInv, ServerStep, Serves1, Lock1,
           sPc = "handshake" => ServerMoves({"flight", "short", "finished", "fatal"})
    PROVE  Lock1' /\ (sPc \in {"handshake", "read"} => ~Has(In', {"data"}))
  <1>1. /\ In \in Seq(Record)
        /\ \A P : Served(P) <=> sPc \in P
        /\ \A P : Served(P)' <=> sPc' \in P
    BY ServerStepKeeps, Zenon
  <1>2. ~Has(In, {"hreq"}) /\ (Has(In, {"data"}) => Served(Parting) /\ EndLast(In))
    BY Zenon DEF Lock1
  <1>3. sPc \notin Parting => ~Has(In, {"data"}) /\ ~Ends(In)
    BY <1>1, <1>2, EndsHasData, Zenon
  <1>4. CASE sPc \in {"handshake", "read"}
    <2>1. PICK T : Grown(In, In', T) /\ "data" \notin T /\ "hreq" \notin T
      <3>1. /\ "data" \notin {"flight", "short", "finished", "fatal"} /\ "hreq" \notin {"flight", "short", "finished", "fatal"}
            /\ "data" \notin {} /\ "hreq" \notin {} /\ "data" \notin Control /\ "hreq" \notin Control
        BY DEF Control
      <3>2. CASE sPc = "handshake"
        BY <3>1, <3>2, Zenon DEF ServerMoves
      <3>3. CASE sPc = "read"
        <4>1. Reads1 \/ Answers1
          BY <3>3 DEF Serves1, Greets1, Refuses1, Writes1, Parts
        <4> QED
          BY <3>1, <4>1, Zenon DEF Reads1, Answers1, ServerMoves
      <3> QED
        BY <1>4, <3>2, <3>3
    <2>2. sPc \notin Parting
      BY <1>4 DEF Parting
    <2>3. ~Has(In', {"hreq"}) /\ ~Has(In', {"data"})
      BY <1>1, <1>2, <1>3, <2>1, <2>2, GrownQueue, Zenon
    <2> QED
      BY <2>3, Zenon DEF Lock1
  <1>5. CASE Writes1
    <2>1. sPc = "write" /\ sPc \notin Parting /\ (In' # In => sPc' \in Parting)
      BY <1>5 DEF Writes1, Parting
    <2>2. Grown(In, In', {"data"})
      <3>1. \A r : r.t = "data" => r.t \in {"data"}
        OBVIOUS
      <3> QED
        BY <1>5, <3>1, Zenon DEF Writes1, Grown
    <2>3. "hreq" \notin {"data"}
      OBVIOUS
    <2>4. ~Has(In', {"hreq"}) /\ EndLast(In')
      BY <1>1, <1>2, <1>3, <2>1, <2>2, <2>3, GrownQueue, Zenon
    <2>5. Has(In', {"data"}) => In' # In
      BY <1>3, <2>1
    <2>6. Lock1'
      BY <1>1, <2>1, <2>4, <2>5, Zenon DEF Lock1
    <2> QED
      BY <2>1, <2>6
  <1>6. CASE Parts
    <2>1. /\ sPc = "close_notify" /\ sPc' \in Parting /\ Grown(In, In', {"close"})
          /\ "data" \notin {"close"} /\ "hreq" \notin {"close"}
      BY <1>6 DEF Parts, ServerMoves, Parting
    <2>2. /\ Has(In', {"hreq"}) => Has(In, {"hreq"})
          /\ Has(In', {"data"}) => Has(In, {"data"})
          /\ EndLast(In) => EndLast(In')
      BY <1>1, <2>1, GrownQueue, Zenon
    <2>3. Lock1'
      BY <1>1, <1>2, <2>1, <2>2, Zenon DEF Lock1
    <2> QED
      BY <2>1, <2>3
  <1> QED
    BY <1>4, <1>5, <1>6 DEF Serves1, Greets1, Refuses1, Reads1, Answers1

\* ssl_server keeps in step with ssl_client2.
LEMMA Server1Lock21 ==
    ASSUME WireInv, cLink # 0, CloseInv, ServerStep, Serves1, Lock1, Lock21,
           sPc = "handshake" => ServerMoves({"flight", "short", "finished", "fatal"})
    PROVE  Lock21'
  <1>1. cPc' = cPc /\ cWritten' = cWritten /\ cLink' = cLink /\ sLink' = sLink /\ sLink = cLink
        /\ links'[cLink].up = links[cLink].up /\ ssl'["c"] = ssl["c"]
    BY DEF ServerStep, ClientRests
  <1>2. /\ In \in Seq(Record) /\ Out \in Seq(Record) /\ ~Waiting(cLink)
        /\ \A P : Served(P) <=> sPc \in P
        /\ \A P : Served(P)' <=> sPc' \in P
    BY ServerStepKeeps, Zenon
  <1> SUFFICES ASSUME cPc \in Idle, cWritten = 0, links[cLink].up
               PROVE  (Served(Parting)' /\ ~Has(In', {"data"})) \/ Aligned'
    BY <1>1, Zenon DEF Lock21
  <1>3. (Served(Parting) /\ ~Has(In, {"data"})) \/ Aligned
    BY Zenon DEF Lock21
  <1>4. sPc \in {"handshake", "read"} => ~Has(In', {"data"})
    BY Server1Lock1, Zenon
  <1>5. CASE Served(Parting) /\ ~Has(In, {"data"})
    <2>1. sPc \in Parting
      BY <1>2, <1>5, Zenon
    <2>2. sPc' \in Parting /\ Grown(In, In', {"close"}) /\ "data" \notin {"close"}
      BY <2>1 DEF Serves1, Greets1, Refuses1, Reads1, Answers1, Writes1, Parts, Parting, ServerMoves
    <2>3. ~Has(In', {"data"})
      BY <1>2, <1>5, <2>2, GrownQueue, Zenon
    <2> QED
      BY <1>2, <2>2, <2>3, Zenon
  <1>6. CASE Aligned
    <2>1. sPc \in {"handshake", "read"}
      BY <1>2, <1>6 DEF Aligned, Greeting, Shaking, Shaken
    <2>2. Greeting' \/ Shaking' \/ Shaken' => Aligned'
      BY <1>1, <1>6 DEF Aligned
    <2>3. CASE Greets1
      <3>0. PICK p \in Script, result \in {"more", "ok"} : \E conf, resume :
                /\ Follows(p, cLink, "s", conf, resume, result)
                /\ sPc' = IF result = "ok" THEN "read" ELSE "handshake"
        BY <2>3, Zenon DEF Greets1
      <3>1. PICK conf, resume :
                /\ Follows(p, cLink, "s", conf, resume, result)
                /\ sPc' = IF result = "ok" THEN "read" ELSE "handshake"
        BY <3>0, Zenon
      <3>2. sPc = "handshake"
        BY <2>3 DEF Greets1
      <3>3. Shaking' \/ Shaken'
        BY <1>6, <3>1, <3>2, ServerAligned, Zenon
      <3> QED
        BY <2>2, <3>3
    <2>4. CASE Refuses1
      <3>1. sPc' \in Parting
        BY <2>4 DEF Refuses1, Parting
      <3> QED
        BY <1>2, <1>4, <2>1, <3>1, Zenon
    <2>5. CASE Reads1 \/ Answers1
      <3>1. sPc = "read"
        BY <2>5 DEF Reads1, Answers1
      <3>2. Shaken
        BY <1>2, <1>6, <3>1 DEF Aligned, Greeting, Shaking
      <3>3. ~Gone(cLink, "s")
        BY DEF Gone, Peer, WireInv, EndsOK
      <3>4. Out # <<>> => /\ Head(Out) = Out[1] /\ 1 \in DOMAIN Out
                          /\ Len(Out) \in Nat /\ DOMAIN Out = 1..Len(Out) /\ DOMAIN Tail(Out) = 1..(Len(Out) - 1)
                          /\ \A i \in 1..(Len(Out) - 1) : Tail(Out)[i] = Out[i + 1]
        BY <1>2
      <3>5. Out # <<>>
        BY <2>5, <3>3 DEF Reads1, Answers1
      <3>6. ssl["c"] = "over" /\ \A i \in DOMAIN Out : Out[i].t = "rehello"
        BY <3>2, <3>5 DEF Shaken
      <3>7. Answers1
        BY <2>5, <3>3, <3>4, <3>5, <3>6 DEF Reads1
      <3>8. sPc' = "read" /\ Out' = Tail(Out)
        BY <3>7 DEF Answers1
      <3>9. \A i \in DOMAIN Out' : Out'[i].t = "rehello"
        BY <3>4, <3>5, <3>6, <3>8
      <3>10. Shaken'
        BY <1>1, <1>4, <2>1, <3>6, <3>8, <3>9 DEF Shaken
      <3> QED
        BY <2>2, <3>10
    <2> QED
      BY <2>1, <2>3, <2>4, <2>5 DEF Serves1, Writes1, Parts
  <1> QED
    BY <1>3, <1>5, <1>6

\* A step of a server on the connection keeps what the pair of programs keeps to.
LEMMA ServesLock ==
    ASSUME WireInv, cLink # 0, Locked, ServerStep,
           \/ sProg = "ssl_server2" /\ Serves2
           \/ /\ sProg = "ssl_server" /\ Serves1
              /\ sPc = "handshake" => ServerMoves({"flight", "short", "finished", "fatal"})
    PROVE  Locked'
  <1>1. CloseInv /\ cProg' = cProg /\ sProg' = sProg
    BY Zenon DEF Locked, ServerStep, ClientRests
  <1>2. \A T : Grown(In, In', T) /\ ("close" \notin T \/ sPc' = "reset") => CloseInv'
    BY <1>1, ServerStepKeeps, Zenon
  <1>3. /\ "close" \notin PlainKinds /\ "close" \notin {"hreq"} /\ "close" \notin {"data"} /\ "close" \notin {}
        /\ "close" \notin {"flight", "short", "finished", "fatal"} /\ "close" \notin Control
        /\ "close" \notin {"fatal"}
        /\ \A r : r.t = "data" => r.t \in {"data"}
    BY DEF PlainKinds, Control
  <1>4. CASE sProg = "ssl_server2" /\ Serves2
    <2>1. CloseInv'
      BY <1>2, <1>3, <1>4, Zenon
         DEF Serves2, Attends, Requested, GoesOn, Wishes, Responds, Parts, ServerMoves, Grown
    <2>2. cProg = "ssl_client1" => Lock12'
      BY <1>1, <1>4, Server2Lock12, Zenon DEF Locked
    <2>3. cProg = "ssl_client2" => Lock22'
      BY <1>1, <1>4, Server2Lock22, Zenon DEF Locked
    <2>4. sProg # "ssl_server"
      BY <1>4
    <2> QED
      BY <1>1, <2>1, <2>2, <2>3, <2>4, Zenon DEF Locked
  <1>5. CASE /\ sProg = "ssl_server" /\ Serves1
             /\ sPc = "handshake" => ServerMoves({"flight", "short", "finished", "fatal"})
    <2>1. CloseInv'
      <3>1. CASE sPc = "handshake"
        BY <1>2, <1>3, <1>5, <3>1, Zenon DEF ServerMoves
      <3>2. CASE sPc # "handshake"
        BY <1>2, <1>3, <1>5, <3>2, Zenon
           DEF Serves1, Greets1, Refuses1, Reads1, Answers1, Writes1, Parts, ServerMoves, Grown
      <3> QED
        BY <3>1, <3>2
    <2>2. Lock1 /\ Lock1'
      BY <1>1, <1>5, Server1Lock1, Zenon DEF Locked
    <2>3. cProg = "ssl_client2" => Lock21'
      BY <1>1, <1>5, <2>2, Server1Lock21, Zenon DEF Locked
    <2>4. sProg # "ssl_server2"
      BY <1>5
    <2> QED
      BY <1>1, <2>1, <2>2, <2>3, <2>4, Zenon DEF Locked
  <1> QED
    BY <1>4, <1>5

\* What ssl_server2 does on the client's connection.
LEMMA Server2Serves ==
    ASSUME WireInv, OptInv, cLink # 0, ClientRests, sLink = cLink,
           S2Handshake \/ S2Read \/ S2Renegotiate \/ S2Write \/ S2Close
    PROVE  ServerStep /\ Serves2
  <1>1. /\ cLink' = cLink /\ cLink \in 1..Len(links) /\ links \in Seq(Link) /\ "s" \in Side
        /\ Arrived(cLink, "s") = Out
    BY DEF ClientRests, WireInv, WireOK, Side, Arrived, Peer, Out
  <1>2. /\ \A T : UNCHANGED links => ServerMoves(T)
        /\ \A T : \A r \in Record : \A result :
                r.t \in T /\ SslWrite(cLink, "s", r, result) => ServerMoves(T)
        /\ Takes(cLink, "s") => ServerMoves({}) /\ Out # <<>> /\ Out' = Tail(Out) /\ In' = In
        /\ \A result : SslRead(cLink, "s", result) => ServerMoves({})
        /\ \A b : SslReadControl(cLink, "s", b) => ServerMoves(Control)
    BY <1>1, ServerCalls, Zenon
  <1>3. \A T, K : T \subseteq K /\ ServerMoves(T) => ServerMoves(K)
    BY Zenon DEF ServerMoves, Grown
  <1>4. /\ {} \subseteq PlainKinds /\ Control \subseteq PlainKinds
        /\ {"flight", "short", "finished", "fatal"} \subseteq PlainKinds
    BY DEF PlainKinds
  <1>5. UNCHANGED links => In' = In /\ Out' = Out /\ links'[cLink].up = links[cLink].up
    BY <1>1 DEF In, Out
  <1>6. CASE S2Handshake
    <2>1. sPc = "handshake" /\ UNCHANGED <<sLink, backlog>>
      BY <1>6 DEF S2Handshake, sRest2
    <2>2. CASE \E result \in {"more", "ok", "error"} :
                /\ SslHandshake(sLink, "s", SConf(sOpt), FALSE, result)
                /\ sPc' \in {"handshake", "close_notify", "read", "reset"}
      <3>1. PICK result \in {"more", "ok", "error"} :
                /\ SslHandshake(cLink, "s", SConf(sOpt), FALSE, result)
                /\ sPc' \in {"handshake", "close_notify", "read", "reset"}
        BY <2>2, Zenon
      <3>2. Version(SConf(sOpt)) \in Int
        BY ConfiguredVersions, Zenon
      <3>3. ServerMoves({"flight", "short", "finished", "fatal"}) /\ ssl'["c"] = ssl["c"]
        BY <1>1, <3>1, <3>2, ServerShakes, Zenon
      <3>4. ServerMoves(PlainKinds)
        BY <1>3, <1>4, <3>3, Zenon
      <3> QED
        BY <2>1, <3>1, <3>3, <3>4 DEF ServerStep, SLinked, Serves2, Attends, ServerMoves
    <2>3. CASE UNCHANGED <<links, ssl>> /\ sPc' = "reset"
      <3>1. ServerMoves(PlainKinds)
        BY <1>2, <2>3, Zenon
      <3> QED
        BY <2>1, <2>3, <3>1 DEF ServerStep, SLinked, Serves2, Attends, ServerMoves
    <2> QED
      BY <1>6, <2>2, <2>3 DEF S2Handshake, SGoto, STimedOut, SslTimeout
  <1>7. CASE S2Read \/ S2Renegotiate \/ S2Write \/ S2Close
    <2>1. /\ sPc \in {"read", "renegotiate", "write", "close_notify"}
          /\ UNCHANGED <<sLink, backlog, ssl>>
      BY <1>7 DEF S2Read, SReadAt, S2Renegotiate, S2Write, S2Close, SGoto, sIo, sRest2
    <2>2. ServerMoves({}) \/ (\E T : ServerMoves(T)) => ServerStep
      BY <2>1 DEF ServerStep, SLinked, ServerMoves
    <2>3. CASE S2Read
      <3>1. \/ (\E result : SslRead(cLink, "s", result)) /\ sPc' \in {"close_notify", "reset"}
            \/ UNCHANGED links /\ sPc' = "reset"
            \/ /\ Arrived(cLink, "s") # <<>> /\ SslRead(cLink, "s", Head(Arrived(cLink, "s")))
               /\ Head(Arrived(cLink, "s")).t = "data"
               /\ \/ Head(Arrived(cLink, "s")).nl /\ sPc' = "renegotiate"
                  \/ sPc' \in {"read", "reset"}
            \/ (\E b : SslReadControl(cLink, "s", b)) /\ sPc' = "read"
        <4>1. sPc = "read" /\ SReadAt("reset", "read")
          BY <2>3 DEF S2Read, SReadAt
        <4> QED
          BY <4>1 DEF SReadAt, SGoto, STimedOut, SslTimeout
      <3>2. sPc = "read"
        BY <2>3 DEF S2Read, SReadAt
      <3>3. CASE (\E result : SslRead(cLink, "s", result)) /\ sPc' \in {"close_notify", "reset", "read"}
        <4>1. ServerMoves({}) /\ ServerMoves(PlainKinds)
          BY <1>2, <1>3, <1>4, <3>3, Zenon
        <4> QED
          BY <2>2, <3>2, <3>3, <4>1 DEF Serves2, Attends
      <3>4. CASE UNCHANGED links /\ sPc' = "reset"
        <4>1. ServerMoves({}) /\ ServerMoves(PlainKinds)
          BY <1>2, <3>4, Zenon
        <4> QED
          BY <2>2, <3>2, <3>4, <4>1 DEF Serves2, Attends
      <3>5. CASE (\E b : SslReadControl(cLink, "s", b)) /\ sPc' = "read"
        <4>1. ServerMoves(Control) /\ ServerMoves(PlainKinds)
          BY <1>2, <1>3, <1>4, <3>5, Zenon
        <4> QED
          BY <2>2, <3>2, <3>5, <4>1 DEF Serves2, Attends
      <3>6. CASE /\ Arrived(cLink, "s") # <<>> /\ SslRead(cLink, "s", Head(Arrived(cLink, "s")))
                 /\ Head(Arrived(cLink, "s")).t = "data"
                 /\ Head(Arrived(cLink, "s")).nl /\ sPc' = "renegotiate"
        <4>1. Takes(cLink, "s")
          BY <1>1, <3>6, ReadStep, Zenon
        <4>2. ServerMoves({}) /\ Out # <<>> /\ Out' = Tail(Out) /\ In' = In
          BY <1>2, <4>1, Zenon
        <4>3. Head(Out).t = "data" /\ Head(Out).nl /\ sPc' = "renegotiate"
          BY <1>1, <3>6
        <4>4. Requested
          BY <3>2, <4>2, <4>3, Zenon DEF Requested
        <4> QED
          BY <2>2, <4>2, <4>4, Zenon DEF Serves2
      <3> QED
        BY <3>1, <3>3, <3>4, <3>5, <3>6, Zenon
    <2>4. CASE S2Renegotiate
      <3>1. /\ sPc = "renegotiate"
            /\ \/ sPc' \in {"write", "reset"} /\ UNCHANGED links
               \/ sPc' = "write" /\ SslWrite(cLink, "s", Rec("hreq", 0), "ok")
               \/ sPc' = "reset" /\ SslWrite(cLink, "s", Rec("hreq", 0), "error")
        BY <2>4 DEF S2Renegotiate, SGoto
      <3>2. Rec("hreq", 0) \in Record /\ Rec("hreq", 0).t \in {"hreq"}
        BY PlainRecords
      <3>3. "ok" # "error"
        OBVIOUS
      <3>4. /\ SslWrite(cLink, "s", Rec("hreq", 0), "ok") => links[cLink].up /\ ServerMoves({"hreq"})
            /\ SslWrite(cLink, "s", Rec("hreq", 0), "error") => UNCHANGED links
        BY <1>1, <1>2, <3>2, <3>3, WriteStep, Zenon
      <3>5. CASE sPc' \in {"write", "reset"} /\ UNCHANGED links
        <4>1. ServerMoves({}) /\ In' = In /\ Out' = Out
          BY <1>2, <1>5, <3>5, Zenon
        <4> QED
          BY <2>2, <3>1, <3>5, <4>1 DEF Serves2, GoesOn
      <3>6. CASE sPc' = "write" /\ links[cLink].up /\ ServerMoves({"hreq"})
        BY <2>2, <3>1, <3>6 DEF Serves2, Wishes
      <3>7. sPc' = "reset" => sPc' \in {"write", "reset"}
        OBVIOUS
      <3> QED
        BY <3>1, <3>4, <3>5, <3>6, <3>7, Zenon
    <2>5. CASE S2Write
      <3>1. ResponseLen \in Int /\ sWritten \in Int
        BY ResponseAssumption DEF OptInv
      <3>2. PICK n : n = Min({ResponseLen - sWritten, MaxContent})
        OBVIOUS
      <3>3. PICK r \in Record : r = Data(n, sWritten + n = ResponseLen)
        BY <3>1, <3>2, PieceRecord
      <3>4. r.t = "data" /\ (r.nl <=> sWritten + n = ResponseLen)
        BY <3>3 DEF Data
      <3>5. /\ sPc = "write"
            /\ \/ /\ SslWrite(cLink, "s", r, "ok")
                  /\ sPc' = IF sWritten + n # ResponseLen THEN "write" ELSE IF sLeft' > 0 THEN "read" ELSE "close_notify"
               \/ SslWrite(cLink, "s", r, "error") /\ sPc' = "reset"
        BY <2>5, <3>2, <3>3, Zenon DEF S2Write, SGoto
      <3>6. "ok" # "error" /\ r.t \in {"data"}
        BY <3>4
      <3>7. /\ SslWrite(cLink, "s", r, "ok") => links[cLink].up /\ Sends(cLink, "s", r) /\ ServerMoves({"data"})
            /\ SslWrite(cLink, "s", r, "error") => UNCHANGED links
        BY <1>1, <1>2, <3>6, WriteStep, Zenon
      <3>8. CASE UNCHANGED links /\ sPc' = "reset"
        <4>1. ServerMoves({}) /\ In' = In /\ Out' = Out
          BY <1>2, <1>5, <3>8, Zenon
        <4> QED
          BY <2>2, <3>5, <3>8, <4>1 DEF Serves2, GoesOn
      <3>9. CASE /\ links[cLink].up /\ Sends(cLink, "s", r) /\ ServerMoves({"data"})
                 /\ sPc' = IF sWritten + n # ResponseLen THEN "write" ELSE IF sLeft' > 0 THEN "read" ELSE "close_notify"
        <4>1. Out' = Out /\ (In' = In \/ In' = Append(In, r))
          BY <1>1, <3>9 DEF Sends, In, Out, Peer
        <4>2. \/ r.nl /\ sPc' \in {"read", "close_notify"}
              \/ ~r.nl /\ sPc' = "write"
          BY <3>4, <3>9
        <4>3. Responds
          BY <3>4, <3>5, <3>9, <4>1, <4>2, Zenon DEF Responds
        <4> QED
          BY <2>2, <3>9, <4>3, Zenon DEF Serves2
      <3> QED
        BY <3>5, <3>7, <3>8, <3>9, Zenon
    <2>6. CASE S2Close
      <3>1. /\ sPc = "close_notify" /\ sPc' = "reset"
            /\ \E result \in {"ok", "error"} : SslWrite(cLink, "s", Rec("close", 0), result)
        BY <2>6 DEF S2Close, SGoto
      <3>2. Rec("close", 0) \in Record /\ Rec("close", 0).t \in {"close"}
        BY PlainRecords
      <3>3. ServerMoves({"close"})
        BY <1>2, <3>1, <3>2, Zenon
      <3> QED
        BY <2>2, <3>1, <3>3 DEF Serves2, Parts
    <2> QED
      BY <1>7, <2>3, <2>4, <2>5, <2>6
  <1> QED
    BY <1>6, <1>7

\* What ssl_server does on the client's connection.
LEMMA Server1Serves ==
    ASSUME WireInv, OptInv, cLink # 0, ClientRests, sLink = cLink,
           S1Handshake \/ S1Read \/ S1Write \/ S1Close
    PROVE  /\ ServerStep /\ Serves1
           /\ sPc = "handshake" => ServerMoves({"flight", "short", "finished", "fatal"})
  <1>1. /\ cLink' = cLink /\ cLink \in 1..Len(links) /\ links \in Seq(Link) /\ "s" \in Side
        /\ Arrived(cLink, "s") = Out
    BY DEF ClientRests, WireInv, WireOK, Side, Arrived, Peer, Out
  <1>2. /\ \A T : UNCHANGED links => ServerMoves(T)
        /\ \A T : \A r \in Record : \A result :
                r.t \in T /\ SslWrite(cLink, "s", r, result) => ServerMoves(T)
        /\ \A result : SslRead(cLink, "s", result) => ServerMoves({})
        /\ \A b : SslReadControl(cLink, "s", b) => ServerMoves(Control) /\ Out # <<>> /\ Out' = Tail(Out)
    BY <1>1, ServerCalls, Zenon
  <1>3. UNCHANGED links => In' = In /\ Out' = Out /\ links'[cLink].up = links[cLink].up
    BY <1>1 DEF In, Out
  <1>4. CASE S1Handshake
    <2>1. PICK result \in {"more", "ok", "error"} :
            /\ sPc = "handshake" /\ SslHandshake(cLink, "s", SConf1, FALSE, result)
            /\ sPc' = (CASE result = "more" -> "handshake" [] result = "ok" -> "read" [] OTHER -> "reset")
            /\ UNCHANGED <<sLink, backlog>>
      BY <1>4, Zenon DEF S1Handshake, SGoto
    <2>2. Version(SConf1) \in Int
      BY ConfiguredVersions, Zenon
    <2>3. /\ ServerMoves({"flight", "short", "finished", "fatal"}) /\ ssl'["c"] = ssl["c"]
          /\ \/ \E p \in Script : Follows(p, cLink, "s", SConf1, FALSE, result)
             \/ result = "error" /\ ServerMoves({"fatal"})
      BY <1>1, <2>1, <2>2, ServerShakes, Zenon
    <2>4. ServerStep
      BY <2>1, <2>3 DEF ServerStep, SLinked, ServerMoves
    <2>5. CASE result = "error" /\ ServerMoves({"fatal"})
      <3>1. sPc' = "reset"
        BY <2>1, <2>5
      <3>2. Refuses1
        BY <2>1, <2>5, <3>1, Zenon DEF Refuses1
      <3> QED
        BY <2>3, <2>4, <3>2, Zenon DEF Serves1
    <2>6. CASE \E p \in Script : Follows(p, cLink, "s", SConf1, FALSE, result)
      <3>1. PICK p \in Script : Follows(p, cLink, "s", SConf1, FALSE, result)
        BY <2>6
      <3>2. result = IF p[5] = "over" THEN "ok" ELSE "more"
        BY <3>1, Zenon DEF Follows
      <3>3. result \in {"more", "ok"} /\ sPc' = IF result = "ok" THEN "read" ELSE "handshake"
        BY <2>1, <3>2
      <3>4. Greets1
        BY <2>1, <3>1, <3>3, Zenon DEF Greets1
      <3> QED
        BY <2>3, <2>4, <3>4, Zenon DEF Serves1
    <2> QED
      BY <2>3, <2>5, <2>6
  <1>5. CASE S1Read \/ S1Write \/ S1Close
    <2>1. /\ sPc \in {"read", "write", "close_notify"} /\ sPc # "handshake"
          /\ UNCHANGED <<sLink, backlog, ssl>>
      BY <1>5 DEF S1Read, S1Write, S1Close, SGoto, sIo
    <2>2. (\E T : ServerMoves(T)) => ServerStep
      BY <2>1 DEF ServerStep, SLinked, ServerMoves
    <2>3. CASE S1Read
      <3>1. sPc = "read"
        BY <2>3 DEF S1Read
      <3>2. \/ (\E result : SslRead(cLink, "s", result)) /\ sPc' = "write"
            \/ (\E b : SslReadControl(cLink, "s", b)) /\ sPc' = "read"
        <4>1. \/ /\ \E r \in {Rec("eof", 0), Rec("error", 0), Rec("close", 0)} : SslRead(sLink, "s", r)
                 /\ sPc' = "write"
              \/ SslRead(sLink, "s", Head(Arrived(sLink, "s"))) /\ sPc' = "write"
              \/ SslReadControl(sLink, "s", SConf1.renegotiation) /\ sPc' = sPc
          BY <2>3, Zenon DEF S1Read, SGoto
        <4> QED
          BY <3>1, <4>1, Zenon
      <3>3. CASE (\E result : SslRead(cLink, "s", result)) /\ sPc' = "write"
        <4>1. PICK result : SslRead(cLink, "s", result)
          BY <3>3
        <4>2. Gone(cLink, "s") \/ (Out # <<>> /\ Head(Out).t # "rehello")
          BY <1>1, <4>1 DEF SslRead
        <4>3. Reads1
          BY <1>2, <3>1, <3>3, <4>1, <4>2, Zenon DEF Reads1
        <4> QED
          BY <1>2, <2>1, <2>2, <4>1, <4>3, Zenon DEF Serves1
      <3>4. CASE (\E b : SslReadControl(cLink, "s", b)) /\ sPc' = "read"
        <4>1. ServerMoves(Control) /\ Out # <<>> /\ Out' = Tail(Out)
          BY <1>2, <3>4, Zenon
        <4>2. Answers1
          BY <3>1, <3>4, <4>1, Zenon DEF Answers1
        <4> QED
          BY <2>1, <2>2, <4>1, <4>2, Zenon DEF Serves1
      <3> QED
        BY <3>2, <3>3, <3>4
    <2>4. CASE S1Write
      <3>1. ResponseLen \in Int
        BY ResponseAssumption
      <3>2. PICK r \in Record : r = Data(ResponseLen, TRUE) /\ r.t = "data"
        BY <3>1, RecordTypes, Zenon
      <3>3. /\ sPc = "write"
            /\ \/ SslWrite(cLink, "s", r, "ok") /\ sPc' = "close_notify"
               \/ SslWrite(cLink, "s", r, "error") /\ sPc' = "exit"
        BY <2>4, <3>2 DEF S1Write, SGoto
      <3>4. "ok" # "error" /\ r.t \in {"data"} /\ sPc' \in {"close_notify", "exit"}
        BY <3>2, <3>3
      <3>5. /\ SslWrite(cLink, "s", r, "ok") => Sends(cLink, "s", r)
            /\ SslWrite(cLink, "s", r, "error") => UNCHANGED links
            /\ ServerMoves({"data"})
        BY <1>1, <1>2, <3>3, <3>4, WriteStep, Zenon
      <3>6. Sends(cLink, "s", r) => In' = In \/ In' = Append(In, r)
        BY <1>1 DEF Sends, In
      <3>7. Writes1
        BY <1>3, <3>2, <3>3, <3>4, <3>5, <3>6, Zenon DEF Writes1
      <3> QED
        BY <2>1, <2>2, <3>5, <3>7, Zenon DEF Serves1
    <2>5. CASE S1Close
      <3>1. /\ sPc = "close_notify" /\ sPc' = "reset"
            /\ \E result \in {"ok", "error"} : SslWrite(cLink, "s", Rec("close", 0), result)
        BY <2>5 DEF S1Close, SGoto
      <3>2. Rec("close", 0) \in Record /\ Rec("close", 0).t \in {"close"}
        BY PlainRecords
      <3>3. ServerMoves({"close"})
        BY <1>2, <3>1, <3>2, Zenon
      <3>4. Parts
        BY <3>1, <3>3, Zenon DEF Parts
      <3> QED
        BY <2>1, <2>2, <3>3, <3>4, Zenon DEF Serves1
    <2> QED
      BY <1>5, <2>3, <2>4, <2>5
  <1> QED
    BY <1>4, <1>5

\* ssl_server keeps requests and responses in step.
LEMMA Server1Lock ==
    ASSUME WireInv, OptInv, LockInv, sProg = "ssl_server", Server1, ClientRests
    PROVE  LockInv'
  <1>1. /\ cLink' = cLink /\ sLink \in 0..Len(links) /\ Len(links) \in Nat
        /\ cLink # 0 => Locked
    BY DEF WireInv, WireOK, ClientRests, LockInv
  <1>2. CASE S1Begin \/ S1LoadCert \/ S1Bind \/ S1Seed \/ S1Config
    <2>1. UNCHANGED <<links, backlog, sLink, ssl>>
      BY <1>2 DEF S1Begin, S1LoadCert, S1Bind, SNetBind, S1Seed, S1Config, sRest, wire
    <2>2. sPc \in SUnlinked
      BY <1>2 DEF S1Begin, S1LoadCert, S1Bind, SNetBind, S1Seed, S1Config, SCall, SGoto, SUnlinked
    <2>3. sLink = 0
      BY <2>2 DEF WireInv, SPcOK
    <2>4. CASE cLink = 0
      BY <1>1, <2>4 DEF LockInv
    <2>5. CASE cLink # 0
      <3>1. sLink # cLink
        BY <2>3, <2>5
      <3> QED
        BY <2>1, <3>1, ElsewhereLock
    <2> QED
      BY <2>4, <2>5
  <1>3. CASE S1Reset
    BY <1>3, ResetLock, Zenon DEF S1Reset
  <1>4. CASE S1Accept
    <2>1. /\ sPc = "accept" /\ backlog # <<>> /\ backlog' = Tail(backlog)
          /\ \/ sPc' = "handshake" /\ sLink' = Head(backlog)
             \/ sPc' = "exit" /\ sLink' = sLink
          /\ UNCHANGED <<links, ssl>>
      BY <1>4 DEF S1Accept, SNetAccept, SGoto
    <2> QED
      BY <2>1, AcceptLock
  <1>5. CASE S1Exit
    BY <1>5, ExitLock, Zenon DEF S1Exit, SGoto
  <1>6. CASE S1Handshake \/ S1Read \/ S1Write \/ S1Close
    <2>1. sPc \in SLinked /\ UNCHANGED <<sLink, backlog>>
      BY <1>6 DEF S1Handshake, S1Read, S1Write, S1Close, SGoto, sIo, SLinked
    <2>2. sLink \in 1..Len(links)
      BY <1>1, <2>1 DEF WireInv, SPcOK
    <2>3. CASE sLink = cLink
      <3>1. cLink # 0
        BY <1>1, <2>2, <2>3
      <3>2. /\ ServerStep /\ Serves1
            /\ sPc = "handshake" => ServerMoves({"flight", "short", "finished", "fatal"})
        BY <1>6, <2>3, <3>1, Server1Serves, Zenon
      <3>3. Locked'
        BY <1>1, <3>1, <3>2, ServesLock, Zenon
      <3> QED
        BY <3>3, Zenon DEF LockInv
    <2>4. CASE sLink # cLink
      <3>1. CASE S1Handshake
        <4>1. PICK result : SslHandshake(sLink, "s", SConf1, FALSE, result)
          BY <3>1, Zenon DEF S1Handshake
        <4>2. Version(SConf1) \in Int /\ "s" \in Side /\ Peer("s") = "c"
          BY ConfiguredVersions DEF Side, Peer
        <4>3. /\ \A m \in 1..Len(links) : m # sLink => links'[m] = links[m]
              /\ ssl'[Peer("s")] = ssl[Peer("s")]
          BY <2>2, <4>1, <4>2, HandshakeElsewhere, Zenon
        <4>4. ssl'["c"] = ssl["c"]
          BY <4>2, <4>3
        <4> QED
          BY <2>1, <2>4, <4>3, <4>4, ElsewhereLock, Zenon
      <3>2. CASE S1Read \/ S1Write \/ S1Close
        <4>1. ssl' = ssl
          BY <3>2 DEF S1Read, S1Write, S1Close, sIo
        <4>2. Data(ResponseLen, TRUE) \in Record /\ Rec("close", 0) \in Record
          <5>1. ResponseLen \in Int
            BY ResponseAssumption
          <5>2. Data(ResponseLen, TRUE) \in Record
            BY <5>1, RecordTypes, Zenon
          <5> QED
            BY <5>2, PlainRecords
        <4>3. \/ \E r \in Record, result \in {"ok", "error"} : SslWrite(sLink, "s", r, result)
              \/ \E result : SslRead(sLink, "s", result)
              \/ \E b : SslReadControl(sLink, "s", b)
          BY <3>2, <4>2, Zenon DEF S1Write, S1Read, S1Close
        <4>4. "s" \in Side
          BY DEF Side
        <4>5. \A m \in 1..Len(links) : m # sLink => links'[m] = links[m]
          BY <2>2, <4>3, <4>4, CallElsewhere, Zenon
        <4> QED
          BY <2>1, <2>4, <4>1, <4>5, ElsewhereLock, Zenon
      <3> QED
        BY <1>6, <3>1, <3>2
    <2> QED
      BY <2>3, <2>4
  <1> QED
    BY <1>2, <1>3, <1>4, <1>5, <1>6 DEF Server1

\* ssl_server2 keeps requests and responses in step.
LEMMA Server2Lock ==
    ASSUME WireInv, OptInv, LockInv, sProg = "ssl_server2", Server2, ClientRests
    PROVE  LockInv'
  <1>1. /\ cLink' = cLink /\ sLink \in 0..Len(links) /\ Len(links) \in Nat
        /\ cLink # 0 => Locked
    BY DEF WireInv, WireOK, ClientRests, LockInv
  <1>2. CASE cLink = 0
    BY <1>1, <1>2 DEF LockInv
  <1>3. CASE cLink # 0 /\ S2Prepares
    <2>1. UNCHANGED <<links, backlog, ssl, sLink>> /\ sPc \in SUnlinked
      BY <1>3, Server2Prepares
    <2>2. sLink # cLink
      BY <1>3, <2>1 DEF WireInv, SPcOK
    <2> QED
      BY <2>1, <2>2, ElsewhereLock
  <1>4. CASE cLink # 0 /\ S2Want
    <2>1. UNCHANGED <<links, backlog, ssl, sLink, sPc>>
      BY <1>4 DEF S2Want, sVars1, wire
    <2>2. In' = In /\ Out' = Out /\ links'[cLink].up = links[cLink].up
      BY <1>1, <2>1 DEF In, Out
    <2>3. Waiting(cLink)' <=> Waiting(cLink)
      BY <1>1, <2>1 DEF Waiting
    <2>4. Locked'
      BY <1>1, <1>4, <2>1, <2>2, <2>3, LockSame
    <2> QED
      BY <2>4, Zenon DEF LockInv
  <1>5. CASE S2Reset
    BY <1>5, ResetLock, Zenon DEF S2Reset
  <1>6. CASE S2Accept
    <2>1. /\ sPc = "accept" /\ backlog # <<>> /\ backlog' = Tail(backlog)
          /\ \/ sPc' = "handshake" /\ sLink' = Head(backlog)
             \/ sPc' = "exit" /\ sLink' = sLink
          /\ UNCHANGED <<links, ssl>>
      BY <1>6 DEF S2Accept, SNetAccept, SGoto
    <2> QED
      BY <2>1, AcceptLock
  <1>7. CASE S2Exit
    BY <1>7, ExitLock, Zenon DEF S2Exit, SGoto
  <1>8. CASE cLink # 0 /\ (S2Handshake \/ S2Read \/ S2Renegotiate \/ S2Write \/ S2Close)
    <2>1. sPc \in SLinked /\ UNCHANGED <<sLink, backlog>>
      BY <1>8 DEF S2Handshake, S2Read, SReadAt, S2Renegotiate, S2Write, S2Close, SGoto, sIo, sRest2, SLinked
    <2>2. sLink \in 1..Len(links)
      BY <1>1, <2>1 DEF WireInv, SPcOK
    <2>3. CASE sLink = cLink
      <3>1. ServerStep /\ Serves2
        BY <1>8, <2>3, Server2Serves, Zenon
      <3>2. Locked'
        BY <1>1, <1>8, <3>1, ServesLock, Zenon
      <3> QED
        BY <3>2, Zenon DEF LockInv
    <2>4. CASE sLink # cLink
      <3>1. "s" \in Side /\ Peer("s") = "c"
        BY DEF Side, Peer
      <3>2. CASE \E result : SslHandshake(sLink, "s", SConf(sOpt), FALSE, result)
        <4>1. PICK result : SslHandshake(sLink, "s", SConf(sOpt), FALSE, result)
          BY <3>2, Zenon
        <4>2. Version(SConf(sOpt)) \in Int
          BY ConfiguredVersions, Zenon
        <4>3. /\ \A m \in 1..Len(links) : m # sLink => links'[m] = links[m]
              /\ ssl'[Peer("s")] = ssl[Peer("s")]
          BY <2>2, <3>1, <4>1, <4>2, HandshakeElsewhere, Zenon
        <4>4. ssl'["c"] = ssl["c"]
          BY <3>1, <4>3
        <4> QED
          BY <2>1, <2>4, <4>3, <4>4, ElsewhereLock, Zenon
      <3>3. CASE /\ UNCHANGED ssl
                 /\ \/ \E r \in Record, result \in {"ok", "error"} : SslWrite(sLink, "s", r, result)
                    \/ \E result : SslRead(sLink, "s", result)
                    \/ \E b : SslReadControl(sLink, "s", b)
                    \/ UNCHANGED links
        <4>1. \A m \in 1..Len(links) : m # sLink => links'[m] = links[m]
          BY <2>2, <3>1, <3>3, CallElsewhere, Zenon
        <4> QED
          BY <2>1, <2>4, <3>3, <4>1, ElsewhereLock, Zenon
      <3>4. CASE S2Handshake
        <4>1. \/ \E result : SslHandshake(sLink, "s", SConf(sOpt), FALSE, result)
              \/ UNCHANGED links /\ UNCHANGED <<sLeft, ssl, hello, refused>>
          BY <3>4, Zenon DEF S2Handshake, STimedOut, SslTimeout
        <4>2. UNCHANGED <<sLeft, ssl, hello, refused>> => UNCHANGED ssl
          OBVIOUS
        <4> QED
          BY <3>2, <3>3, <4>1, <4>2, Zenon
      <3>5. CASE S2Read \/ S2Renegotiate \/ S2Close
        <4>1. Rec("hreq", 0) \in Record /\ Rec("close", 0) \in Record
          BY PlainRecords
        <4>2. UNCHANGED ssl
          BY <3>5 DEF S2Read, SReadAt, S2Renegotiate, S2Close, sIo
        <4>3. \/ \E r \in Record, result \in {"ok", "error"} : SslWrite(sLink, "s", r, result)
              \/ \E result : SslRead(sLink, "s", result)
              \/ \E b : SslReadControl(sLink, "s", b)
              \/ UNCHANGED links
          BY <3>5, <4>1, Zenon DEF S2Read, SReadAt, S2Renegotiate, S2Close, STimedOut, SslTimeout
        <4> QED
          BY <3>3, <4>2, <4>3, Zenon
      <3>6. CASE S2Write
        <4>1. ResponseLen \in Int /\ sWritten \in Int
          BY ResponseAssumption DEF OptInv
        <4>2. PICK n : n = Min({ResponseLen - sWritten, MaxContent})
          OBVIOUS
        <4>3. PICK r \in Record : r = Data(n, sWritten + n = ResponseLen)
          BY <4>1, <4>2, PieceRecord
        <4>4. SslWrite(sLink, "s", r, "ok") \/ SslWrite(sLink, "s", r, "error")
          BY <3>6, <4>2, <4>3, Zenon DEF S2Write
        <4>5. UNCHANGED ssl
          BY <3>6 DEF S2Write, sIo
        <4>6. \E result \in {"ok", "error"} : SslWrite(sLink, "s", r, result)
          BY <4>4
        <4> QED
          BY <3>3, <4>5, <4>6, Zenon
      <3> QED
        BY <1>8, <3>4, <3>5, <3>6
    <2> QED
      BY <2>3, <2>4
  <1> QED
    BY <1>2, <1>3, <1>4, <1>5, <1>6, <1>7, <1>8 DEF Server2, S2Prepares

\* Every step keeps requests and responses in step.
LEMMA NextLock ==
    ASSUME WireInv, OptInv, WrittenInv, PlaceInv, InStep, [Next]_vars
    PROVE  InStep'
  <1> SUFFICES ASSUME NoEarlyNewline' PROVE LockInv'
    BY DEF InStep
  <1>0. ASSUME UNCHANGED <<cProg, cOpt>>
        PROVE  LockInv
    BY <1>0 DEF InStep, NoEarlyNewline, RecordEnds, Newlines, RequestLen
  <1>1. CASE Client
    <2>1. /\ \/ cProg = "ssl_client1" /\ Client1
             \/ cProg = "ssl_client2" /\ Client2
          /\ UNCHANGED <<cProg, sProg, sPc, sLink>>
      BY <1>1 DEF Client, sAll, sVars1
    <2>2. CASE cProg = "ssl_client1"
      <3>1. LockInv
        BY <2>2 DEF InStep, NoEarlyNewline
      <3> QED
        BY <2>1, <2>2, <3>1, Client1Lock
    <2>3. CASE cProg = "ssl_client2" /\ cPc \notin Starting
      <3>1. Client2 /\ Keeps(cOpt', cOpt)
        BY <2>1, <2>3, Client2Options
      <3>2. cOpt'.request_size = cOpt.request_size /\ cOpt'.max_frag_len = cOpt.max_frag_len
        BY <3>1 DEF Keeps
      <3>3. RequestLen' = RequestLen /\ RecordEnds' = RecordEnds /\ Newlines' = Newlines
        BY <3>2 DEF RequestLen, RecordEnds, Newlines
      <3>4. NoEarlyNewline
        BY <2>1, <3>3 DEF NoEarlyNewline
      <3> QED
        BY <2>1, <2>3, <3>1, <3>4, Client2Lock DEF InStep
    <2>4. CASE cProg = "ssl_client2" /\ cPc \in Starting
      <3>1. C2Prepares
        BY <2>1, <2>4, Client2Options
      <3>2. cLink' = cLink
        BY <3>1, Client2Prepares
      <3>3. cLink = 0
        BY <2>4 DEF PlaceInv, Starting, Idle
      <3> QED
        BY <3>2, <3>3 DEF LockInv
    <2> QED
      BY <2>1, <2>2, <2>3, <2>4
  <1>2. CASE Server
    <2>1. /\ \/ sProg = "ssl_server" /\ Server1
             \/ sProg = "ssl_server2" /\ Server2
          /\ UNCHANGED <<cProg, sProg, cAll>>
      BY <1>2, Zenon DEF Server
    <2>2. ClientRests
      BY <2>1 DEF ClientRests, cAll, cVars1, cVars2
    <2>3. LockInv
      BY <1>0, <2>1 DEF cAll, cVars2
    <2> QED
      BY <2>1, <2>2, <2>3, Server1Lock, Server2Lock, Zenon
  <1>3. CASE Network \/ Quiet \/ UNCHANGED vars
    <2>1. ssl' = ssl
      <3>1. CASE Network
        <4>1. UNCHANGED <<backlog, listening, ssl, hello, refused>> \/ UNCHANGED <<listening, ssl, hello, refused>>
          BY <3>1, Zenon DEF Network, Break, Stray, StrayLeaves
        <4> QED
          BY <4>1
      <3>2. CASE Quiet \/ UNCHANGED vars
        BY <3>2 DEF Quiet, vars, wire
      <3> QED
        BY <1>3, <3>1, <3>2
    <2>2. UNCHANGED <<cProg, sProg, cAll, sAll>>
      <3>1. CASE Quiet \/ UNCHANGED vars
        BY <3>1 DEF Quiet, vars
      <3> QED
        BY <1>3, <3>1, Zenon DEF Network
    <2>3. ClientRests /\ UNCHANGED <<cLink, sLink, sPc>> /\ LockInv
      BY <1>0, <2>2 DEF ClientRests, cAll, cVars1, cVars2, sAll, sVars1
    <2> SUFFICES ASSUME cLink # 0 PROVE Locked'
      BY <2>3 DEF LockInv
    <2>4. cLink' = cLink /\ cLink \in 1..Len(links) /\ Locked /\ WireOK /\ EndsOK
      BY <2>3 DEF WireInv, WireOK, LockInv
    <2>5. ASSUME links'[cLink] = links[cLink], Waiting(cLink)' <=> Waiting(cLink)
          PROVE  Locked'
      <3>1. In' = In /\ Out' = Out /\ links'[cLink].up = links[cLink].up
        BY <2>4, <2>5 DEF In, Out
      <3> QED
        BY <2>1, <2>3, <2>4, <2>5, <3>1, LockSame
    <2>6. CASE Break /\ UNCHANGED <<cLink, sLink>>
      <3>1. backlog' = backlog
        <4>1. UNCHANGED <<backlog, listening, ssl, hello, refused>>
          BY <2>6, Zenon DEF Break
        <4> QED
          BY <4>1
      <3>2. Waiting(cLink)' <=> Waiting(cLink)
        BY <2>4, <3>1 DEF Waiting
      <3>3. \/ links'[cLink] = links[cLink]
            \/ ~links'[cLink].up /\ links'[cLink].sent["c"] = <<>> /\ links'[cLink].sent["s"] = <<>>
        BY <2>4, <2>6, WireBreak, Zenon
      <3>4. CASE ~links'[cLink].up /\ links'[cLink].sent["c"] = <<>> /\ links'[cLink].sent["s"] = <<>>
        <4>1. In' = <<>> /\ Out' = <<>>
          BY <2>4, <3>4 DEF In, Out
        <4> QED
          BY <2>3, <2>4, <3>2, <3>4, <4>1, LockBreak
      <3> QED
        BY <2>5, <3>2, <3>3, <3>4, Zenon
    <2>7. CASE Stray /\ UNCHANGED <<cLink, sLink>>
      <3>1. links'[cLink] = links[cLink]
        BY <2>4, <2>7, StrayWire, Zenon
      <3>2. backlog' = Append(backlog, Len(links) + 1)
        BY <2>7, Zenon DEF Stray
      <3>3. \A l : Waiting(l)' <=> Waiting(l) \/ l = Len(links) + 1
        BY <2>4, <3>2, WaitingSteps, Zenon
      <3>4. cLink # Len(links) + 1 /\ cLink' = cLink
        BY <2>4 DEF WireOK
      <3>5. Waiting(cLink)' <=> Waiting(cLink)
        BY <3>3, <3>4 DEF Waiting
      <3> QED
        BY <2>5, <3>1, <3>5
    <2>8. CASE UNCHANGED <<links, backlog>>
      <3>1. Waiting(cLink)' <=> Waiting(cLink)
        BY <2>4, <2>8 DEF Waiting
      <3> QED
        BY <2>5, <2>8, <3>1
    <2>9. Quiet \/ UNCHANGED vars => UNCHANGED <<links, backlog>>
      BY DEF Quiet, vars, wire
    <2>10. UNCHANGED <<cLink, sLink>>
      BY <2>3
    <2>11. CASE StrayLeaves /\ UNCHANGED <<cLink, sLink>>
      <3>1. links'[cLink] = links[cLink] /\ backlog' = backlog
        BY <2>4, <2>11, StrayLeavesWire, Zenon
      <3>2. Waiting(cLink)' <=> Waiting(cLink)
        BY <2>4, <3>1 DEF Waiting
      <3> QED
        BY <2>5, <3>1, <3>2
    <2> QED
      BY <1>3, <2>6, <2>7, <2>8, <2>9, <2>10, <2>11, Zenon DEF Network
  <1> QED
    BY <1>1, <1>2, <1>3 DEF Next
------------------------------------------------------------------------------
(* The programs and where they are while they have a connection.           *)

\* The programs are those of the scenario.
LEMMA InitPlace ==
    ASSUME Init
    PROVE  PlaceInv
  <1>1. /\ cProg \in {"ssl_client1", "ssl_client2"} /\ sProg \in {"ssl_server", "ssl_server2"}
    BY ScenariosAssumption, Zenon DEF Init
  <1>2. cPc = "begin" /\ cLink = 0 /\ sLink = 0
    BY DEF Init, Init1, SInit1
  <1> QED
    BY <1>1, <1>2 DEF PlaceInv

\* The sections of the client.
LEMMA ClientPlace ==
    ASSUME PlaceInv, Client
    PROVE  PlaceInv'
  <1>1. UNCHANGED <<cProg, sProg, sPc, sLink>>
    BY DEF Client, sAll, sVars1
  <1>2. /\ cProg \in {"ssl_client1", "ssl_client2"} /\ sProg \in {"ssl_server", "ssl_server2"}
        /\ sLink # 0 => sPc \in SLinked \cup {"reset", "exit"}
    BY DEF PlaceInv
  <1>3. CASE cProg = "ssl_client1" /\ Client1
    <2>1. cPc # "renegotiating"
      BY <1>3 DEF PlaceInv
    <2>2. cPc' # "renegotiating"
      BY <1>3, <2>1 DEF Client1, C1Begin, C1LoadCa, C1Connect, C1Config, C1Handshake, C1Write, C1Read,
         C1Close, C1Exit, CGoto, CCall, CNetConnect
    <2> QED
      BY <1>1, <1>2, <1>3, <2>2 DEF PlaceInv
  <1>4. CASE cProg = "ssl_client2" /\ Client2
    <2>1. cLink # 0 => cPc \in Idle \cup {"read", "close", "reconnect", "exit"}
      BY <1>4 DEF PlaceInv
    <2>2. CASE C2Prepares
      <3>1. /\ cLink' = cLink
            /\ \/ cPc \in CUnlinked
               \/ cPc = "config" /\ cPc' \in {"setup", "exit"}
               \/ cPc = "setup" /\ cPc' \in {"handshake", "exit"}
        BY <2>2, Client2Prepares
      <3>2. cLink' # 0 => cPc' \in Idle \cup {"read", "close", "reconnect", "exit"}
        BY <2>1, <3>1 DEF CUnlinked, Idle
      <3> QED
        BY <1>1, <1>2, <1>4, <3>2 DEF PlaceInv
    <2>3. CASE C2Connect \/ C2ReconnectConnect
      <3>1. cPc' \in {"exit", "config", "reconnect_handshake"}
        BY <2>3 DEF C2Connect, C2ReconnectConnect, CConnectAt, CNetConnect, CGoto
      <3>2. cPc' \in Idle \cup {"read", "close", "reconnect", "exit"}
        BY <3>1 DEF Idle
      <3> QED
        BY <1>1, <1>2, <1>4, <3>2 DEF PlaceInv
    <2>4. CASE C2Want
      <3>1. cPc' = cPc /\ cLink' = cLink
        BY <2>4 DEF C2Want, cVars1
      <3> QED
        BY <1>1, <1>2, <1>4, <2>1, <3>1 DEF PlaceInv
    <2>5. CASE C2Handshake \/ C2HardHandshake \/ C2ReconnectHandshake
      <3>1. cPc' \in {"handshake", "hard_handshake", "reconnect_handshake", "session", "send", "exit"}
        BY <2>5 DEF C2Handshake, C2HardHandshake, C2ReconnectHandshake, CHandshakeAt, CGoto
      <3>2. cPc' \in Idle \cup {"read", "close", "reconnect", "exit"}
        BY <3>1 DEF Idle
      <3> QED
        BY <1>1, <1>2, <1>4, <3>2 DEF PlaceInv
    <2>6. CASE C2Session \/ C2Renegotiate \/ C2Send \/ C2Read \/ C2Hard \/ C2Again \/ C2Close
      <3>1. cPc' \in {"renegotiate", "renegotiating", "send", "read", "close", "reconnect", "hard",
                      "hard_handshake", "again", "exit"}
        BY <2>6 DEF C2Session, C2Renegotiate, C2Send, C2Read, CReadAt, C2Hard, C2Again, C2Close, CGoto
      <3>2. cPc' \in Idle \cup {"read", "close", "reconnect", "exit"}
        BY <3>1 DEF Idle
      <3> QED
        BY <1>1, <1>2, <1>4, <3>2 DEF PlaceInv
    <2>7. CASE C2Reconnect \/ C2Exit
      <3>1. cLink' = 0 \/ cPc' = "exit"
        BY <2>7 DEF C2Reconnect, C2Exit, CNetFree, CGoto
      <3> QED
        BY <1>1, <1>2, <1>4, <3>1 DEF PlaceInv
    <2> QED
      BY <1>4, <2>2, <2>3, <2>4, <2>5, <2>6, <2>7 DEF Client2, C2Prepares
  <1> QED
    BY <1>3, <1>4, Zenon DEF Client

\* The sections of the server.
LEMMA ServerPlace ==
    ASSUME WireInv, PlaceInv, Server
    PROVE  PlaceInv'
  <1>1. UNCHANGED <<cProg, sProg, cPc, cLink>>
    BY DEF Server, cAll, cVars1
  <1>2. SUFFICES sLink' # 0 => sPc' \in SLinked \cup {"reset", "exit"}
    BY <1>1 DEF PlaceInv
  <1>3. sPc \in SUnlinked => sLink = 0
    BY DEF WireInv, SPcOK
  <1>4. sLink # 0 => sPc \in SLinked \cup {"reset", "exit"}
    BY DEF PlaceInv
  <1>5. CASE Server1
    <2>1. CASE S1Begin \/ S1LoadCert \/ S1Bind \/ S1Seed \/ S1Config
      <3>1. sPc \in SUnlinked /\ sLink' = sLink
        BY <2>1 DEF S1Begin, S1LoadCert, S1Bind, SNetBind, S1Seed, S1Config, SCall, SGoto, SUnlinked
      <3> QED
        BY <1>3, <3>1
    <2>2. CASE S1Reset \/ S1Exit
      BY <2>2 DEF S1Reset, SReset, S1Exit, SNetFree
    <2>3. CASE S1Accept \/ S1Handshake \/ S1Read \/ S1Write \/ S1Close
      <3>1. sPc' \in {"handshake", "read", "write", "close_notify", "reset", "exit"}
        BY <2>3 DEF S1Accept, SNetAccept, S1Handshake, S1Read, S1Write, S1Close, SGoto
      <3> QED
        BY <3>1 DEF SLinked
    <2> QED
      BY <1>5, <2>1, <2>2, <2>3 DEF Server1
  <1>6. CASE Server2
    <2>1. CASE S2Prepares
      <3>1. sPc \in SUnlinked /\ sLink' = sLink
        BY <2>1, Server2Prepares
      <3> QED
        BY <1>3, <3>1
    <2>2. CASE S2Reset \/ S2Exit
      BY <2>2 DEF S2Reset, SReset, S2Exit, SNetFree
    <2>3. CASE S2Want
      BY <1>4, <2>3 DEF S2Want, sVars1
    <2>4. CASE S2Accept \/ S2Handshake \/ S2Read \/ S2Renegotiate \/ S2Write \/ S2Close
      <3>1. sPc' \in {"handshake", "read", "renegotiate", "write", "close_notify", "reset", "exit"}
        BY <2>4 DEF S2Accept, SNetAccept, S2Handshake, S2Read, SReadAt, S2Renegotiate, S2Write, S2Close, SGoto
      <3> QED
        BY <3>1 DEF SLinked
    <2> QED
      BY <1>6, <2>1, <2>2, <2>3, <2>4 DEF Server2, S2Prepares
  <1> QED
    BY <1>5, <1>6, Zenon DEF Server

\* Every step leaves the programs where they can be.
LEMMA NextPlace ==
    ASSUME WireInv, PlaceInv, [Next]_vars
    PROVE  PlaceInv'
  <1>1. CASE Network \/ Quiet \/ UNCHANGED vars
    <2>1. UNCHANGED <<cProg, sProg, cAll, sAll>>
      <3>1. CASE Quiet \/ UNCHANGED vars
        BY <3>1 DEF Quiet, vars
      <3> QED
        BY <1>1, <3>1, Zenon DEF Network
    <2>2. UNCHANGED <<cProg, sProg, cPc, cLink, sPc, sLink>>
      BY <2>1 DEF cAll, cVars1, sAll, sVars1
    <2> QED
      BY <2>2 DEF PlaceInv
  <1> QED
    BY <1>1, ClientPlace, ServerPlace, Zenon DEF Next
------------------------------------------------------------------------------
(* The properties.                                                         *)

\* What is under way to either side.
LEMMA UnderWayQueues ==
    \A t : /\ UnderWay(cLink, "c", t) <=> cLink # 0 /\ Has(In, {t})
           /\ UnderWay(cLink, "s", t) <=> cLink # 0 /\ Has(Out, {t})
  <1>1. Arrived(cLink, "c") = In /\ Arrived(cLink, "s") = Out
    BY DEF Arrived, Peer, In, Out
  <1> QED
    BY <1>1 DEF UnderWay, Has

\* A connection that is down has nothing under way.
LEMMA DownIsEmpty ==
    ASSUME WireInv, cLink # 0, ~links[cLink].up
    PROVE  In = <<>> /\ Out = <<>> /\ \A T : ~Has(In, T) /\ ~Has(Out, T)
  <1>1. In = <<>> /\ Out = <<>>
    BY DEF WireInv, WireOK, EndsOK, In, Out
  <1> QED
    BY <1>1, EmptyQueue

\* Requests and responses alternate.
LEMMA LockStepHolds ==
    ASSUME WireInv, InStep, PlaceInv
    PROVE  LockStep
  <1> SUFFICES ASSUME LockInv, cProg = "ssl_client2", cPc = "send", cWritten = 0, cLink # 0
               PROVE  ~Has(In, {"data"}) /\ (sProg = "ssl_server2" => ~Has(Out, {"data"}))
    BY UnderWayQueues, Zenon DEF LockStep, InStep
  <1>1. Locked /\ "send" \in Idle
    BY DEF LockInv, Idle
  <1>2. CASE sProg = "ssl_server2"
    <2>1. ~Has(In, {"data", "hreq"}) /\ ~Has(Out, {"data"})
      BY <1>1, <1>2 DEF Locked, Lock22
    <2>2. ~Has(In, {"data"})
      BY <2>1, EndsHasData, Zenon
    <2> QED
      BY <2>1, <2>2
  <1>3. CASE sProg = "ssl_server"
    <2>1. ~links[cLink].up \/ ~Has(In, {"data"}) \/ Aligned
      BY <1>1, <1>3 DEF Locked, Lock21
    <2>2. ~links[cLink].up => ~Has(In, {"data"})
      BY DownIsEmpty, Zenon
    <2>3. Aligned => ~Has(In, {"data"})
      BY DEF Aligned, Greeting, Shaking, Shaken
    <2> QED
      BY <1>3, <2>1, <2>2, <2>3
  <1> QED
    BY <1>2, <1>3 DEF PlaceInv

\* A wish to renegotiate meets a peer that reads.
LEMMA RenegotiateHolds ==
    ASSUME WireInv, WrittenInv, InStep, PlaceInv
    PROVE  RenegotiateWhilePeerWaits
  <1> SUFFICES ASSUME LockInv
               PROVE  /\ ServerAsksReader
                      /\ cLink = sLink /\ UnderWay(sLink, "s", "rehello") /\ cPc = "renegotiating" =>
                              sPc \in {"handshake", "read", "close_notify", "reset"}
    BY DEF RenegotiateWhilePeerWaits, InStep
  <1>1. cLink # 0 => Locked
    BY DEF LockInv
  <1>2. ASSUME cLink # 0, Has(In, {"hreq"})
        PROVE  cPc \in {"read", "close", "exit"}
    <2>1. sProg = "ssl_server2"
      BY <1>1, <1>2 DEF PlaceInv, Locked, Lock1
    <2>2. CASE cProg = "ssl_client1"
      BY <1>1, <1>2, <2>1, <2>2, Zenon DEF Locked, Lock12
    <2>3. CASE cProg = "ssl_client2"
      <3>1. Has(In, {"data", "hreq"})
        BY <1>2, EndsHasData, Zenon
      <3>2. Lock22
        BY <1>1, <1>2, <2>1, <2>3, Zenon DEF Locked
      <3>3. cPc \in Idle \cup {"read", "close", "reconnect", "exit"}
        BY <1>2, <2>3 DEF PlaceInv
      <3>4. cPc \in Idle => cPc = "send" \/ cWritten = 0
        BY DEF WrittenInv, Idle
      <3>5. cPc \notin Idle /\ cPc # "reconnect"
        BY <1>2, <3>1, <3>2, <3>4 DEF Lock22
      <3> QED
        BY <3>3, <3>5
    <2> QED
      BY <2>2, <2>3 DEF PlaceInv
  <1>3. ASSUME cLink # 0, cLink = sLink, Has(Out, {"rehello"}), cPc = "renegotiating"
        PROVE  sPc \in {"handshake", "read", "close_notify", "reset"}
    <2>1. cProg = "ssl_client2" /\ cPc \in Idle /\ cWritten = 0 /\ links[cLink].up
      <3>1. links[cLink].up
        BY <1>3, DownIsEmpty, Zenon
      <3> QED
        BY <1>3, <3>1 DEF PlaceInv, WrittenInv, Idle
    <2>2. CASE sProg = "ssl_server2"
      <3>1. ~Busy
        BY <1>1, <1>3, <2>1, <2>2 DEF Locked, Lock22
      <3>2. sPc \in SLinked \cup {"reset", "exit"} /\ sPc # "exit"
        BY <1>3, <2>2 DEF PlaceInv, WireInv, SPcOK
      <3> QED
        BY <1>3, <3>1, <3>2 DEF Busy, SLinked
    <2>3. CASE sProg = "ssl_server"
      <3>1. ~Waiting(cLink)
        BY <1>3 DEF WireInv, EndsOK
      <3>2. Served(Parting) \/ Aligned
        BY <1>1, <1>3, <2>1, <2>3 DEF Locked, Lock21
      <3> QED
        BY <1>3, <3>1, <3>2 DEF Served, Parting, Aligned, Greeting, Shaking, Shaken
    <2> QED
      BY <2>2, <2>3 DEF PlaceInv
  <1>4. UnderWay(cLink, "c", "hreq") => cPc \in {"read", "close", "exit"}
    BY <1>2, UnderWayQueues, Zenon
  <1>5. cLink = sLink /\ UnderWay(sLink, "s", "rehello") /\ cPc = "renegotiating" =>
            sPc \in {"handshake", "read", "close_notify", "reset"}
    <2>1. cLink = sLink /\ UnderWay(sLink, "s", "rehello") => UnderWay(cLink, "s", "rehello")
      BY Zenon
    <2> QED
      BY <1>3, <2>1, UnderWayQueues, Zenon
  <1> QED
    BY <1>4, <1>5, Zenon DEF ServerAsksReader

(* The connections, the versions and the place of both programs stay in    *)
(* order, and so does what is under way between them if only the last      *)
(* record of a request ends with a newline: the inductive invariant of     *)
(* every pair of the programs in samples/mbedtls, whatever their arguments *)
(* are, whichever connections break and whoever else connects.             *)
THEOREM ExchangeInvariant == Spec => []IInv
  <1>1. Init => IInv
    BY InitOK, InitPlace, Zenon DEF IInv, InStep
  <1>2. IInv /\ [Next]_vars => IInv'
    <2> SUFFICES ASSUME IInv, [Next]_vars PROVE IInv'
      OBVIOUS
    <2>1. WireInv /\ OptInv /\ WrittenInv /\ InStep /\ SuiteInv /\ PlaceInv
      BY Zenon DEF IInv
    <2>2. WireInv'
      BY <2>1, NextWire, Zenon
    <2>3. OptInv' /\ WrittenInv'
      BY <2>1, NextOptions, Zenon
    <2>4. InStep'
      BY <2>1, NextLock, Zenon
    <2>5. SuiteInv'
      BY <2>1, NextSuite, Zenon
    <2>6. PlaceInv'
      BY <2>1, NextPlace, Zenon
    <2> QED
      BY <2>2, <2>3, <2>4, <2>5, <2>6, Zenon DEF IInv
  <1> QED
    BY <1>1, <1>2, PTL DEF Spec

(* LockStep holds for every pair of programs: when ssl_client2 starts to   *)
(* write a request, nothing of an earlier response is unread, and with     *)
(* ssl_server2 nothing of an earlier request either (the loops of steps 5  *)
(* to 7 of ssl_client2.c and 6 to 7 of ssl_server2.c), for all arguments   *)
(* with NoEarlyNewline, that is for all sizes of requests and records      *)
(* where no record before the last one ends with a newline.                *)
THEOREM RequestsAndResponsesAlternate == Spec => []LockStep
  <1>1. IInv => LockStep
    BY LockStepHolds, Zenon DEF IInv
  <1> QED
    BY <1>1, ExchangeInvariant, PTL

(* RenegotiateWhilePeerWaits holds for every pair of programs: a           *)
(* HelloRequest of ssl_server2 meets a client that reads or gives up, the  *)
(* ClientHello of a renegotiation a server that reads or is on its way to, *)
(* under the same condition NoEarlyNewline on the arguments.               *)
THEOREM RenegotiationsMeetAReader == Spec => []RenegotiateWhilePeerWaits
  <1>1. IInv => RenegotiateWhilePeerWaits
    BY RenegotiateHolds, Zenon DEF IInv
  <1> QED
    BY <1>1, ExchangeInvariant, PTL

(* ForcedSuiteIsCommon holds for every table of ciphersuites and all       *)
(* arguments: the side that forces a ciphersuite has narrowed its versions *)
(* so that the other side finds it, if it can use it at all.               *)
THEOREM ForcedSuiteFound == Spec => []ForcedSuiteIsCommon
  <1>1. IInv => ForcedSuiteIsCommon
    BY NoCommonSuite, Zenon DEF IInv
  <1> QED
    BY <1>1, ExchangeInvariant, PTL
==============================================================================
