---------------------------- MODULE MCWebClient ------------------------------
(***************************************************************************)
(* TLC instance of WebClient.  A piece of the stream has up to 3           *)
(* characters, a TLS record takes 2, the buffer 3.                         *)
(***************************************************************************)
EXTENDS WebClient

Reply(header, chunked, chunks, last, kind) ==
    [header |-> header, chunked |-> chunked, chunks |-> chunks, last |-> last, kind |-> kind]

\* A chunk with what is in front of its last digit.
Digit(n) == CHOOSE h \in DOMAIN Hex : Hex[h] = n
Chunk(lead, data) == [length |-> lead \o <<Digit(Len(data))>>, data |-> data]
X1 == Chunk(<<>>, <<"x">>)

Plain(body) == Reply(<<"s200", "other">>, FALSE, <<[length |-> <<>>, data |-> body]>>, <<>>, "wellformed")
Chunked(chunks) == Reply(<<"s200", "chunked", "other">>, TRUE, chunks, <<"n0">>, "wellformed")

Replies == {
    Plain(<<>>), Plain(<<"x", "cr", "lf">>), Plain(<<"x", "x", "x", "x">>),
    Chunked(<<>>), Chunked(<<Chunk(<<"n0">>, <<"x">>), Chunk(<<>>, <<"lf", "x">>)>>),
    Chunked(<<Chunk(<<>>, <<"cr", "lf">>), Chunk(<<"n0">>, <<"x">>)>>),
    Chunked(<<Chunk(<<"n0">>, <<"x", "x">>), Chunk(<<>>, <<"lf", "x">>)>>)}

Refusals == {
    Reply(<<"s404", "other">>, FALSE, <<X1>>, <<"n0">>, "refusal"),
    Reply(<<"nostatus">>, FALSE, <<X1>>, <<"n0">>, "refusal"),
    Reply(<<"s200", "chunked">>, TRUE, <<X1>>, <<"n1", "bad">>, "refusal")}

\* Replies that the parser should not take for good, and does or may.
BadFirstLines == {
    Reply(h, FALSE, <<X1>>, <<"n0">>, "malformed") : h \in {<<>>, <<"like200">>, <<"nonumber">>}}
BadChunks == {
    Reply(<<"s200", "chunked">>, TRUE, <<X1, Chunk(<<"cr", "lf">>, <<"x", "x">>)>>, <<"n0">>, "malformed")}

Ex(ssl, len, r) == [ssl |-> ssl, len |-> len, size |-> 3, reply |-> r]

MCExchanges ==
    {Ex(FALSE, 2, r) : r \in Replies \cup Refusals \cup BadFirstLines \cup BadChunks}
    \cup {Ex(TRUE, 2, Chunked(<<X1, Chunk(<<>>, <<"lf", "x">>)>>)), Ex(TRUE, 3, Plain(<<"x">>))}

StatusExchanges == {Ex(FALSE, 1, r) : r \in BadFirstLines}

File(name, ext, len, parse) == [name |-> name, ext |-> ext, len |-> len, parse |-> parse]
Card(files) == [d \in {"/"} |-> files]
MCCards == {
    Card(<<File("readme", "txt", 9, -1)>>),
    Card(<<File("ca", "pem", 2, 0), File("other", "der", 2, 1)>>),
    Card(<<File("ca", "pem", 2, 0), File("broken", "crt", 2, -1)>>),
    Card(<<File("bundle", "pem", 5, 0)>>)}
==============================================================================
