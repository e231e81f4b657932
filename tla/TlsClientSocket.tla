--------------------------- MODULE TlsClientSocket ---------------------------
(***************************************************************************)
(* Sockets of a client: CSocket of Circle, and CTLSSimpleClientSocket on   *)
(* CTLSSocket with its certificates from the SD card (tlssocket.cpp,       *)
(* tlssimpleclientsocket.cpp, x509certchain.cpp).  The server, the network *)
(* and mbed TLS are outside the repository and modelled from the results   *)
(* the code handles.                                                       *)
(***************************************************************************)
EXTENDS Integers, SequencesExt

CONSTANTS
    CertMax,       \* CERTIFICATE_MAX_SIZE
    MaxContent,    \* MBEDTLS_SSL_MAX_CONTENT_LEN
    FrameBuffer,   \* FRAME_BUFFER_SIZE
    Cards          \* contents of the card: [directory -> sequence of files]

ASSUME SocketAssumption == CertMax \in Nat /\ MaxContent \in Nat \ {0} /\ FrameBuffer \in Nat \ {0}

VARIABLES
    card,    \* the SD card
    sock,    \* m_pSocket: the socket object
    trusted, \* the server's certificate verifies with those on the card
    link,    \* the connection: "none", "open" or "closed" (by the server or by a fault)
    stream,  \* what the server has sent and the client has not received
    taken    \* bytes of the request that are sent

sockVars == <<card, sock, trusted, link, stream, taken>>

NoSocket == [kind |-> "none"]
NewSocket(kind) ==
    [kind |-> kind, certAdded |-> FALSE, auth |-> "none", connected |-> FALSE]

SockInit ==
    /\ card \in Cards /\ sock = NoSocket /\ trusted \in BOOLEAN
    /\ link = "none" /\ stream = <<>> /\ taken = 0
------------------------------------------------------------------------------
(* CX509CertificateChain.  A file is [name, ext, len, parse], where parse  *)
(* is what mbedtls_x509_crt_parse returns: 0, an error (< 0), or the       *)
(* number of certificates of a PEM file that could not be parsed.          *)

IoError == -1

\* AddCertificateFile() opens the file by the name it gets, in the current
\* directory of the card c.
AddCertificateFile(c, name) ==
    LET found == {i \in DOMAIN c["/"] : c["/"][i].name = name}
        file == c["/"][CHOOSE i \in found : TRUE]
    IN  IF found = {} \/ file.len = 0 THEN IoError
        ELSE IF file.len >= CertMax THEN IoError
        ELSE file.parse

\* AddCertificatePath() takes the files with one of three extensions; the first
\* that cannot be parsed ends it.
AddCertificatePath(c, path) ==
    LET Step(n, file) ==
            IF n < 0 \/ file.ext \notin {"pem", "crt", "der"} THEN n
            ELSE IF AddCertificateFile(c, file.name) < 0 THEN AddCertificateFile(c, file.name)
            ELSE n + 1
    IN  IF path \notin DOMAIN c THEN IoError ELSE FoldLeft(Step, 0, c[path])

\* AddCertificatePath() returns an int.
ASSUME ResultAssumption == \A c \in Cards : AddCertificatePath(c, "/") \in Int
------------------------------------------------------------------------------
\* The calls below are those that succeed; a caller whose call fails deletes the socket.

\* CTLSSimpleClientSocket::AddCertificatePath().
AddPath(path) ==
    /\ sock' = IF AddCertificatePath(card, path) <= 0 THEN sock ELSE [sock EXCEPT !.certAdded = TRUE]
    /\ UNCHANGED <<card, trusted, link, stream, taken>>

\* Variant with a mistake: the server need not be authenticated.
SetupOptional ==
    /\ sock' = [sock EXCEPT !.auth = "none"]
    /\ UNCHANGED <<card, trusted, link, stream, taken>>

\* Setup(): with certificates the server has to be authenticated.
Setup ==
    /\ sock' = [sock EXCEPT !.auth = IF sock.certAdded THEN "required" ELSE "none"]
    /\ UNCHANGED <<card, trusted, link, stream, taken>>

\* Connect(): the handshake fails if the server has to be authenticated and its
\* certificate does not verify.  m_bConnected is set behind the handshake.
Connect ==
    /\ sock.kind = "tls" /\ sock.auth = "required" => trusted
    /\ sock' = [sock EXCEPT !.connected = (sock.kind = "tls")]
    /\ link' = "open" /\ stream' = <<>> /\ taken' = 0
    /\ UNCHANGED <<card, trusted>>

\* Send(): mbedtls_ssl_write takes what fits into one record.
Send(n) ==
    /\ link = "open"
    /\ taken' = IF sock.kind = "tls" /\ n > MaxContent THEN MaxContent ELSE n
    /\ UNCHANGED <<card, sock, trusted, link, stream>>

\* Receive(): the first n characters that have arrived.  It fails at the end of
\* the connection (end of file is an error, too).
Receive(n) ==
    /\ n <= Len(stream)
    /\ stream' = SubSeq(stream, n + 1, Len(stream))
    /\ UNCHANGED <<card, sock, trusted, link, taken>>

AtEnd == stream = <<>> /\ link = "closed"

\* The destructor: ~CTLSSocket sends close_notify if it is connected, and
\* the connection is closed.
Delete ==
    /\ sock' = NoSocket /\ link' = "none" /\ stream' = <<>> /\ taken' = 0
    /\ UNCHANGED <<card, trusted>>
==============================================================================
