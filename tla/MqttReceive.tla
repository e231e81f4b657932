----------------------------- MODULE MqttReceive -----------------------------
(***************************************************************************)
(* CMQTTReceivePacket (src/circle-mbedtls/mqttreceivepacket.cpp) under the *)
(* Receiver of CMQTTClient: how packets are cut out of the stream that the *)
(* socket delivers piecemeal.  A byte is the packet it belongs to and its  *)
(* offset there; the fixed header (control byte and encoded remaining      *)
(* length) is the first head bytes of a packet, the rest follows.          *)
(***************************************************************************)
EXTENDS Integers, Sequences, FiniteSets

CONSTANTS
    FrameSize,         \* FRAME_BUFFER_SIZE
    MaxPacketSize,     \* nMaxPacketSize
    MaxPacketsQueued,  \* nMaxPacketsQueued
    Kinds,             \* the packets a broker sends: [type, head, rest]
    MaxPackets         \* bound: packets in a run

BufferSize == MaxPacketSize * MaxPacketsQueued + FrameSize

ASSUME ReceiveAssumption ==
    /\ {FrameSize, MaxPacketSize, MaxPacketsQueued} \subseteq Nat \ {0}
    /\ MaxPackets \in Nat
    /\ Kinds \subseteq [type : {"Publish", "SubAck", "Other", "Invalid"}, head : 2..5, rest : Nat]
    /\ \A k \in Kinds : k.head + k.rest <= MaxPacketSize

VARIABLES
    sent,      \* the packets that the broker has sent
    wire,      \* the bytes that the socket has not delivered yet
    buffer,    \* m_pBuffer up to m_nInPtr
    outPtr,    \* m_nOutPtr
    state,     \* "receive", "handle" while Receiver has a packet, "closed",
               \*   "halted" once an assertion has failed (assertions are on)
    reason,    \* why the connection was closed
    handled    \* packets handled, or gone with an earlier connection

vars == <<sent, wire, buffer, outPtr, state, reason, handled>>

Size(k) == k.head + k.rest
Bytes(k, n) == [j \in 1..Size(k) |-> [pkt |-> n, off |-> j - 1]]

Init ==
    /\ sent = <<>> /\ wire = <<>>
    /\ buffer = <<>> /\ outPtr = 0
    /\ state = "receive" /\ reason = "none"
    /\ handled = 0

BrokerSends(k) ==
    /\ state \in {"receive", "handle"}
    /\ Len(sent) < MaxPackets
    /\ sent' = Append(sent, k)
    /\ wire' = wire \o Bytes(k, Len(sent) + 1)
    /\ UNCHANGED <<buffer, outPtr, state, reason, handled>>
------------------------------------------------------------------------------
Close(why) ==
    /\ state' = "closed"
    /\ reason' = why
    /\ wire' = <<>>

\* The packet at the front of the buffer.
Front(b) == sent[b[1].pkt]

\* Variant with a mistake: a packet is complete when more than it is there.
PacketCompleteBeyond(b) == b # <<>> /\ Len(b) > Size(Front(b))

\* All of the packet at the front is there.
PacketComplete(b) == b # <<>> /\ Len(b) >= Size(Front(b))

\* Variant with a mistake: the test also keeps a packet free.
RoomWithReserve == Len(buffer) <= BufferSize - FrameSize - MaxPacketSize

RoomLeft == Len(buffer) <= BufferSize - FrameSize

\* Receive: at most a frame is taken from the socket, then the buffer is
\* looked at, also when nothing was added.  A length field that is bad is
\* refused at its last byte: such a packet is an "Invalid" one without a rest.
Receive ==
    /\ state = "receive" /\ RoomLeft
    /\ \E n \in 0..FrameSize :
           LET b == buffer \o SubSeq(wire, 1, n)
           IN  /\ n <= Len(wire)
               /\ buffer' = b
               /\ outPtr' = IF PacketComplete(b) THEN Front(b).head ELSE outPtr
               /\ \/ /\ PacketComplete(b) /\ Front(b).type = "Invalid"
                     /\ Close("InvalidPacket")
                  \/ /\ PacketComplete(b) => Front(b).type # "Invalid"
                     /\ state' = IF PacketComplete(b) THEN "handle" ELSE "receive"
                     /\ wire' = SubSeq(wire, n + 1, Len(wire))
                     /\ UNCHANGED reason
    /\ UNCHANGED <<sent, handled>>

\* The socket reports that the peer is gone.
ReceiveDisconnect ==
    /\ state = "receive" /\ RoomLeft
    /\ Close("FromPeer")
    /\ UNCHANGED <<sent, buffer, outPtr, handled>>

ReceiveNoRoom ==
    /\ state = "receive" /\ ~RoomLeft
    /\ Close("InsufficientResources")
    /\ UNCHANGED <<sent, buffer, outPtr, handled>>

\* The bytes that the handler of a packet reads: all of them, but of a SUBACK
\* only the identifier and the first return code.
Consumed(k) == IF k.type = "SubAck" THEN 3 ELSE k.rest

\* Complete with b in the buffer: what follows the bytes that were read moves
\* to the front, unless the assertion fails that they are there.
Complete(b, next) ==
    LET out == outPtr + Consumed(Front(buffer))
    IN  /\ outPtr' = out
        /\ state' = IF Len(b) >= out THEN next ELSE "halted"
        /\ buffer' = SubSeq(b, out + 1, Len(b))

\* Receiver handles the packet: Complete, and before or after it perhaps an
\* answer that cannot be sent, an identifier that fits no request, or a
\* callback that disconnects.
Handled ==
    /\ Complete(buffer, "receive")
    /\ handled' = handled + 1
    /\ UNCHANGED <<wire, reason>>

HandledAndClosed(why) ==
    /\ Complete(buffer, "closed")
    /\ handled' = handled + 1
    /\ wire' = <<>> /\ reason' = why

\* A PUBLISH whose topic or identifier is bad is left in the buffer, without
\* Complete (m_nOutPtr is set anew by the next Receive).
PublishRefused ==
    /\ Front(buffer).type = "Publish"
    /\ \E why \in {"NotSupported", "InvalidPacket"} : Close(why)
    /\ UNCHANGED <<buffer, outPtr, handled>>

\* From OnMessage, which comes before Complete, the application may disconnect,
\* and connect again at once: Connect resets the buffer, and Complete then
\* finds less there than was read.
ReconnectFromHandler ==
    /\ Front(buffer).type = "Publish"
    /\ Complete(<<>>, "receive")
    /\ wire' = <<>> /\ reason' = "FromApplication"
    /\ handled' = Len(sent)

Handle ==
    /\ state = "handle"
    /\ \/ Handled
       \/ \E why \in {"SendFailed", "PacketIdentifier", "FromApplication"} :
              HandledAndClosed(why)
       \/ PublishRefused
       \/ ReconnectFromHandler
    /\ UNCHANGED sent

\* Variant with a mistake: the buffer is not reset.
ReconnectKeepsBuffer ==
    /\ state = "closed"
    /\ state' = "receive"
    /\ handled' = Len(sent)
    /\ UNCHANGED <<sent, wire, buffer, outPtr, reason>>

\* A later Connect.
Reconnect ==
    /\ state = "closed"
    /\ buffer' = <<>>
    /\ state' = "receive"
    /\ handled' = Len(sent)
    /\ UNCHANGED <<sent, wire, outPtr, reason>>

\* The processor stays halted.
Halted == state = "halted" /\ UNCHANGED vars

Next ==
    \/ \E k \in Kinds : BrokerSends(k)
    \/ Receive \/ ReceiveDisconnect \/ ReceiveNoRoom
    \/ Handle \/ Reconnect \/ Halted

Spec == Init /\ [][Next]_vars

\* The MQTT task comes round again, and what is sent arrives: a Receive that
\* changes nothing does not stand for one that finds data.
FairSpec == Spec /\ WF_vars(Receive \/ ReceiveNoRoom) /\ WF_vars(Handle)
------------------------------------------------------------------------------
TypeOK ==
    /\ outPtr \in 0..(2 * MaxPacketSize)
    /\ state \in {"receive", "handle", "closed", "halted"}
    /\ handled \in 0..Len(sent)

\* The stream stays in step: however the socket cuts it, the front of the
\* buffer is the first byte of the first packet that was not handled yet, also
\* on a connection that follows one that ended with bytes, whole packets or a
\* refused packet in the buffer (mqttreceivepacket.cpp:46-58, 88-118).
InStep ==
    state \in {"receive", "handle"} /\ buffer # <<>> =>
        buffer[1] = [pkt |-> handled + 1, off |-> 0]

\* The buffer never overflows (mqttreceivepacket.cpp:67-81).
WithinBuffer == Len(buffer) <= BufferSize

\* mqttclient.h:86-87 promises room for nMaxPacketsQueued packets: receiving is
\* given up for want of memory only with that many whole packets queued.
RoomForQueued ==
    reason = "InsufficientResources" /\ state = "closed" =>
        Cardinality({n \in 1..Len(sent) : \E i \in 1..Len(buffer) :
            buffer[i] = [pkt |-> n, off |-> Size(sent[n]) - 1]}) >= MaxPacketsQueued

\* Every packet that arrives is handled, or its connection ends, or the program
\* has stopped at an assertion: also the last one, after which nothing comes
\* that could push it through.
PacketsHandled ==
    (handled < Len(sent)) ~> (handled = Len(sent) \/ state \in {"closed", "halted"})

\* The assertion in Complete, "m_nInPtr >= m_nOutPtr" (mqttreceivepacket.cpp:48),
\* never fails.
CompleteAsserted == state # "halted"
==============================================================================
