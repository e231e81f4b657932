----------------------------- MODULE SocketTable -----------------------------
(***************************************************************************)
(* The table of CAdaptedSocket objects (src/circle-mbedtls/adaptedsocket.  *)
(* cpp) behind the "file descriptors" of mbedtls_net_connect, _bind,       *)
(* _accept and _free (net_sockets.cpp), and the buffer through which       *)
(* _recv and _recv_timeout take a connection's bytes.  A socket object is  *)
(* named by its address, which the allocator may hand out again after a    *)
(* delete.  The bytes of a connection are numbered from 1.                 *)
(***************************************************************************)
EXTENDS Integers, Sequences, SequencesExt

CONSTANTS Contexts,  \* the mbedtls_net_context variables of the program
          Addrs,     \* the addresses the allocator has for socket objects
          Null,      \* the null pointer
          Frame,     \* FRAME_BUFFER_SIZE
          MaxSlots,  \* bound: length of s_SocketArray
          MaxBytes,  \* bound: bytes the peer of a connection sends
          MaxBusy    \* bound: number of connections in use at a time

ASSUME TableAssumption ==
    /\ Null \notin Addrs /\ Frame \in Nat \ {0}
    /\ MaxSlots \in Nat /\ MaxBytes \in Nat /\ MaxBusy \in Nat

VARIABLES
    s_SocketArray,  \* the slots: an address or Null; slot i has the handle i - 1
    live,           \* live[a]: "none", or what the socket object at a is:
                    \*   "open", "listen", "failed" after a failed connect or bind
    m_nHandle,      \* the field of the object at that address
    fd,             \* the field of each context; -1 after mbedtls_net_init
    conn,           \* conn[a]: the connection and its buffer, see NewConnection
    result          \* what the last call that transfers data returned

table == <<s_SocketArray, live, m_nHandle, fd>>
vars == <<table, conn, result>>

\* block is m_bBlock and rx the unread bytes of m_RxBuffer, from m_nRxBytesUsed
\* to m_nRxBytesValid.  The peer has sent the bytes 1..sent, queue is what Circle's
\* socket has of them, closed the end of the connection, got what the program has,
\* and eof says that it was told the end.
NewConnection ==
    [block |-> TRUE, rx |-> <<>>, queue |-> <<>>, sent |-> 0, closed |-> FALSE,
     got |-> <<>>, eof |-> FALSE]

Init ==
    /\ s_SocketArray = <<>>
    /\ live = [a \in Addrs |-> "none"]
    /\ m_nHandle = [a \in Addrs |-> -1]
    /\ fd = [c \in Contexts |-> -1]
    /\ conn = [a \in Addrs |-> NewConnection]
    /\ result = "none"

Live == {a \in Addrs : live[a] # "none"}

Get(n) == IF n < 0 THEN Null ELSE s_SocketArray[n + 1]

\* AddSocket: the first free slot, or a new one.
FirstFree(array) == SelectInSeq(array, LAMBDA a : a = Null)
AddedAt(array) == (IF FirstFree(array) = 0 THEN Len(array) + 1 ELSE FirstFree(array)) - 1

AddSocket(array, a) ==
    IF FirstFree(array) = 0 THEN Append(array, a) ELSE [array EXCEPT ![FirstFree(array)] = a]

\* The constructor registers the object and keeps the handle.
NewSocket(a, state) ==
    /\ live[a] = "none"
    /\ live' = [live EXCEPT ![a] = state]
    /\ m_nHandle' = [m_nHandle EXCEPT ![a] = AddedAt(s_SocketArray)]
    /\ conn' = [conn EXCEPT ![a] = NewConnection]
    /\ UNCHANGED result

\* mbedtls_net_connect and _bind: the context has the socket even if the
\* connect, or the bind and listen, fails then.
NetOpen(c, a, state) ==
    /\ fd[c] = -1
    /\ NewSocket(a, state)
    /\ s_SocketArray' = AddSocket(s_SocketArray, a)
    /\ Len(s_SocketArray') <= MaxSlots
    /\ fd' = [fd EXCEPT ![c] = AddedAt(s_SocketArray)]

NetConnect(c, a) == \E state \in {"open", "failed"} : NetOpen(c, a, state)
NetBind(c, a) == \E state \in {"listen", "failed"} : NetOpen(c, a, state)

\* mbedtls_net_accept: the constructor of the new socket registers it, and
\* Accept() registers it again and returns the second handle.  An Accept() that
\* fails (MBEDTLS_ERR_NET_ACCEPT_FAILED) changes nothing: a stuttering step.
NetAccept(b, c, a) ==
    /\ Get(fd[b]) # Null /\ live[Get(fd[b])] = "listen"
    /\ fd[c] = -1
    /\ NewSocket(a, "open")
    /\ LET once == AddSocket(s_SocketArray, a)
       IN  /\ s_SocketArray' = AddSocket(once, a)
           /\ fd' = [fd EXCEPT ![c] = AddedAt(once)]
    /\ Len(s_SocketArray') <= MaxSlots

\* Variant with a mistake: the fd stays in the context.
NetFreeKeepsFd(c) ==
    LET a == Get(fd[c])
    IN  /\ a # Null
        /\ s_SocketArray' = [s_SocketArray EXCEPT ![m_nHandle[a] + 1] = Null]
        /\ live' = [live EXCEPT ![a] = "none"]
        /\ m_nHandle' = [m_nHandle EXCEPT ![a] = -1]
        /\ conn' = [conn EXCEPT ![a] = NewConnection]
        /\ UNCHANGED <<fd, result>>

\* mbedtls_net_free deletes the object, whose destructor clears the slot of its
\* own handle; a context without a socket is left as it is.
NetFree(c) ==
    LET a == Get(fd[c])
    IN  /\ IF a = Null
           THEN UNCHANGED <<s_SocketArray, live, m_nHandle, conn>>
           ELSE /\ s_SocketArray' = [s_SocketArray EXCEPT ![m_nHandle[a] + 1] = Null]
                /\ live' = [live EXCEPT ![a] = "none"]
                /\ m_nHandle' = [m_nHandle EXCEPT ![a] = -1]
                /\ conn' = [conn EXCEPT ![a] = NewConnection]
        /\ fd' = [fd EXCEPT ![c] = -1]
        /\ UNCHANGED result
------------------------------------------------------------------------------
(* Transfer.  These calls return INVALID_CONTEXT if there is no socket.    *)

Returns(r) == result' = r /\ UNCHANGED table
ReturnsOnly(r) == Returns(r) /\ UNCHANGED conn

\* A connection is in use when something has been done with it.
MayUse(a) == Cardinality({b \in Addrs \ {a} : conn[b] # NewConnection}) < MaxBusy

\* mbedtls_net_set_block and _set_nonblock.
NetSetBlock(c, block) ==
    LET a == Get(fd[c])
    IN  \/ a = Null /\ ReturnsOnly("invalid")
        \/ a # Null /\ MayUse(a) /\ Returns("ok") /\ conn' = [conn EXCEPT ![a].block = block]

\* The external CSocket::Receive has a segment of n bytes, or fails at the end.
Segment(a, n) == n \in 1..Min({Frame, Len(conn[a].queue)})
AtEnd(a) == conn[a].queue = <<>> /\ (conn[a].closed \/ live[a] # "open")

\* The end of Receive() and ReceiveTimeout(): at most len of the unread bytes rx,
\* while queue is what the socket has then.
Take(a, len, rx, queue) ==
    LET n == Min({len, Len(rx)})
    IN  conn' = [conn EXCEPT ![a].rx = SubSeq(rx, n + 1, Len(rx)), ![a].queue = queue,
                             ![a].got = @ \o SubSeq(rx, 1, n)]

\* Variant with a mistake: too few unread bytes make it ask the socket again.
ReceiveRefills(a, len, nothing) ==
    LET k == conn[a]
    IN  \/ Len(k.rx) >= len /\ Take(a, len, k.rx, k.queue) /\ Returns("data")
        \/ /\ Len(k.rx) < len
           /\ \/ \E n \in 1..Len(k.queue) :
                    /\ Segment(a, n) /\ Returns("data")
                    /\ Take(a, len, SubSeq(k.queue, 1, n), SubSeq(k.queue, n + 1, Len(k.queue)))
              \/ AtEnd(a) /\ Returns("eof") /\ conn' = [conn EXCEPT ![a].eof = (live[a] = "open")]
              \/ k.queue = <<>> /\ ~AtEnd(a) /\ nothing # "wait" /\ ReturnsOnly(nothing)

\* Bytes left in the buffer come first, and the socket is asked for more only
\* if there are none.  nothing is what it returns when no data is available.
Receive(a, len, nothing) ==
    LET k == conn[a]
    IN  \/ k.rx # <<>> /\ Take(a, len, k.rx, k.queue) /\ Returns("data")
        \/ /\ k.rx = <<>>
           /\ \/ \E n \in 1..Len(k.queue) :
                    /\ Segment(a, n) /\ Returns("data")
                    /\ Take(a, len, SubSeq(k.queue, 1, n), SubSeq(k.queue, n + 1, Len(k.queue)))
              \/ AtEnd(a) /\ Returns("eof") /\ conn' = [conn EXCEPT ![a].eof = (live[a] = "open")]
              \/ k.queue = <<>> /\ ~AtEnd(a) /\ nothing # "wait" /\ ReturnsOnly(nothing)

\* mbedtls_net_recv: a socket that blocks waits for data.
NetRecv(c, len) ==
    LET a == Get(fd[c])
    IN  \/ a = Null /\ ReturnsOnly("invalid")
        \/ a # Null /\ Receive(a, len, IF conn[a].block THEN "wait" ELSE "want_read")

\* mbedtls_net_recv_timeout polls until the time is over, whatever m_bBlock is;
\* without a timeout it waits.
NetRecvTimeout(c, len, timeout) ==
    LET a == Get(fd[c])
    IN  \/ a = Null /\ ReturnsOnly("invalid")
        \/ a # Null /\ Receive(a, len, IF timeout = 0 THEN "wait" ELSE "timeout")

\* mbedtls_net_send.
NetSend(c) ==
    LET a == Get(fd[c])
    IN  \/ a = Null /\ ReturnsOnly("invalid")
        \/ a # Null /\ live[a] = "open" /\ ReturnsOnly("sent")
        \/ a # Null /\ (live[a] # "open" \/ conn[a].closed) /\ ReturnsOnly("send_failed")

\* The peer sends a byte; it closes the connection, and what has arrived may be
\* lost with it.
PeerSends(a) ==
    /\ live[a] = "open" /\ ~conn[a].closed /\ conn[a].sent < MaxBytes /\ MayUse(a)
    /\ conn' = [conn EXCEPT ![a].sent = @ + 1, ![a].queue = Append(@, conn[a].sent + 1)]
    /\ UNCHANGED <<table, result>>

PeerCloses(a) ==
    /\ live[a] = "open" /\ ~conn[a].closed /\ MayUse(a)
    /\ \E n \in 0..Len(conn[a].queue) :
        conn' = [conn EXCEPT ![a].closed = TRUE, ![a].queue = SubSeq(@, 1, n)]
    /\ UNCHANGED <<table, result>>
------------------------------------------------------------------------------
Next ==
    \/ \E c \in Contexts :
        \/ \E a \in Addrs : \/ NetConnect(c, a)
                            \/ NetBind(c, a)
                            \/ \E b \in Contexts : NetAccept(b, c, a)
        \/ NetFree(c)
        \/ \E block \in BOOLEAN : NetSetBlock(c, block)
        \/ \E len \in 1..Frame :
            NetRecv(c, len) \/ \E timeout \in 0..1 : NetRecvTimeout(c, len, timeout)
        \/ NetSend(c)
    \/ \E a \in Addrs : PeerSends(a) \/ PeerCloses(a)

Spec == Init /\ [][Next]_vars
------------------------------------------------------------------------------
TypeOK ==
    /\ Len(s_SocketArray) <= MaxSlots
    /\ \A i \in 1..Len(s_SocketArray) : s_SocketArray[i] \in Addrs \cup {Null}
    /\ live \in [Addrs -> {"none", "open", "listen", "failed"}]
    /\ m_nHandle \in [Addrs -> -1..(Len(s_SocketArray) - 1)]
    /\ fd \in [Contexts -> -1..(Len(s_SocketArray) - 1)]
    /\ \A a \in Addrs : conn[a].block \in BOOLEAN /\ conn[a].sent \in 0..MaxBytes

\* A context that has a file descriptor reaches an existing socket with it, and
\* no other context reaches the same one, although slots and addresses are
\* used again and Accept registers a socket twice (net_sockets.cpp:68-87).
ContextHasItsSocket ==
    /\ \A c \in Contexts : fd[c] >= 0 => Get(fd[c]) \in Live
    /\ \A b, c \in Contexts : fd[b] >= 0 /\ b # c => Get(fd[b]) # Get(fd[c])

\* StreamInOrder: the program gets the bytes of a connection in order, none
\* twice and none left out, whatever the sizes of the segments and of its own
\* buffers are and however it mixes the two ways to receive; "end of file" comes
\* after every byte that is buffered (adaptedsocket.cpp:160-246).
StreamInOrder ==
    \A a \in Live :
        LET k == conn[a]
        IN  /\ IsPrefix(k.got \o k.rx \o k.queue, [i \in 1..k.sent |-> i])
            /\ k.eof => k.rx = <<>> /\ k.queue = <<>>

\* adaptedsocket.h:71 says of the array "indexed using handle": a slot that is
\* not free has the existing socket with that handle.
IndexedByHandle ==
    \A i \in 1..Len(s_SocketArray) :
        s_SocketArray[i] # Null =>
            s_SocketArray[i] \in Live /\ m_nHandle[s_SocketArray[i]] = i - 1
==============================================================================
