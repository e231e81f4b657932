----------------------------- MODULE MqttClient -----------------------------
(***************************************************************************)
(* CMQTTClient (src/circle-mbedtls/mqttclient.cpp) with the sending half   *)
(* of CMQTTSendPacket.  Run() calls Receiver, Sender and KeepAliveHandler  *)
(* in turn and then the application's OnLoop; the application calls the    *)
(* client from its callbacks, so that one call or one handled packet is    *)
(* one step.                                                               *)
(*                                                                         *)
(* The connection is a pair of FIFO channels.  A packet that CMQTTReceive- *)
(* Packet refuses, or whose identifier or topic Receiver refuses, has a    *)
(* type of its own (see Refusal).  Ticks are counted in unsigned arithme-  *)
(* tic and compared as signed differences, as in the code.                 *)
(***************************************************************************)
EXTENDS Integers, Sequences, SequencesExt

CONSTANTS
    KeepAlive,      \* usKeepAliveSeconds in ticks, 0 when not wanted
    ResendTimeout,  \* MQTT_RESEND_TIMEOUT
    PingTimeout,    \* MQTT_PING_TIMEOUT
    SendTries,      \* MQTT_SEND_TRIES
    TickMod,        \* 2^32: ticks are unsigned
    IdMod,          \* 2^16: packet identifiers are u16
    SocketBuffer,   \* the packets that the socket takes before Send fails
    LoopTicks       \* the longest time between two rounds of Run()

ASSUME MqttAssumption ==
    /\ LoopTicks \in Nat /\ SocketBuffer \in Nat \ {0}
    /\ {KeepAlive, ResendTimeout, PingTimeout} \subseteq 0..(TickMod \div 2 - 1 - LoopTicks)
    /\ ResendTimeout > 0 /\ PingTimeout > 0 /\ SendTries \in Nat \ {0}
    /\ TickMod \in Nat /\ IdMod \in Nat /\ IdMod > 1

VARIABLES
    status,    \* m_ConnectStatus
    socket,    \* m_pSocket != 0
    timer,     \* m_bTimerRunning and m_nTimerElapsesAt
    nextId,    \* m_usNextPacketIdentifier
    queue,     \* m_RetransmissionQueue
    store,     \* m_PacketIdentifierStore
    now,       \* m_pTimer->GetTicks()
    toBroker,  \* packets sent and not yet received by the broker
    toClient,  \* packets of the broker that Receiver has not handled yet
    reason,    \* the argument of the last OnDisconnect callback
    received   \* the messages given to OnMessage, in order

clientVars == <<status, socket, timer, nextId, queue, store, reason, received>>
vars == <<clientVars, now, toBroker, toClient>>

Packet(type, id, qos, msg) == [type |-> type, id |-> id, qos |-> qos, msg |-> msg]

TimerOff == [on |-> FALSE, at |-> 0]
TimerIn(ticks) == [on |-> TRUE, at |-> (now + ticks) % TickMod]

\* (int) (a - b) > 0
After(a, b) == (a - b) % TickMod \in 1..(TickMod \div 2 - 1)

Init ==
    /\ status = "Disconnected" /\ socket = FALSE
    /\ timer = TimerOff
    /\ nextId = 1
    /\ queue = <<>> /\ store = {}
    /\ now = 0
    /\ toBroker = <<>> /\ toClient = <<>>
    /\ reason = "none"
    /\ received = <<>>
------------------------------------------------------------------------------
\* Variant with a mistake: without CleanupQueue.
CloseKeepsQueue(why) ==
    IF status = "Disconnected"
    THEN UNCHANGED <<status, socket, timer, queue, store, reason, toBroker, toClient>>
    ELSE /\ status' = "Disconnected"
         /\ socket' = FALSE
         /\ timer' = TimerOff
         /\ store' = {}
         /\ reason' = why
         /\ toBroker' = <<>> /\ toClient' = <<>>
         /\ UNCHANGED queue

\* CloseConnection does nothing when already disconnected.  Deleting the
\* socket drops what is under way in both directions.
CloseConnection(why) ==
    IF status = "Disconnected"
    THEN UNCHANGED <<status, socket, timer, queue, store, reason, toBroker, toClient>>
    ELSE /\ status' = "Disconnected"
         /\ socket' = FALSE
         /\ timer' = TimerOff
         /\ queue' = <<>>
         /\ store' = {}
         /\ reason' = why
         /\ toBroker' = <<>> /\ toClient' = <<>>

\* Variant with a mistake: no timeout for the answer to a ping.
PingWithoutTimeout(type) ==
    \/ /\ type = "PingReq"
       /\ status' = "WaitForPingResp"
       /\ timer' = TimerOff
    \/ /\ type \notin {"PingReq", "Disconnect"}
       /\ timer' = IF status = "Connected" /\ KeepAlive > 0
                   THEN TimerIn(KeepAlive) ELSE timer
       /\ UNCHANGED status

\* The keep alive handling of SendPacket: an ordinary packet restarts the
\* timer, but only in the state Connected; a PINGREQ starts the ping timeout.
KeepAliveOnSend(type) ==
    \/ /\ type = "PingReq"
       /\ status' = "WaitForPingResp"
       /\ timer' = TimerIn(PingTimeout)
    \/ /\ type \notin {"PingReq", "Disconnect"}
       /\ timer' = IF status = "Connected" /\ KeepAlive > 0
                   THEN TimerIn(KeepAlive) ELSE timer
       /\ UNCHANGED status

\* SendPacket succeeds: the socket took the whole packet (MSG_DONTWAIT).
Transmit(p) ==
    /\ status # "Disconnected"
    /\ Len(toBroker) < SocketBuffer
    /\ toBroker' = Append(toBroker, p)
    /\ KeepAliveOnSend(p.type)

\* Variant with a mistake: the packet goes to the front of the queue.
InsertFirst(q, entry) == <<entry>> \o q

\* InsertPacketIntoQueue keeps the queue sorted by the scheduled time.
Insert(q, entry) ==
    LET later == SelectInSeq(q, LAMBDA e : After(e.at, entry.at))
    IN  InsertAt(q, IF later = 0 THEN Len(q) + 1 ELSE later, entry)

QueueEntry(p, tries) ==
    [packet |-> p, tries |-> tries, at |-> (now + ResendTimeout) % TickMod]

\* Variant with a mistake: any packet is taken for the acknowledged one.
InQueueFirst(id) == IF queue = <<>> THEN 0 ELSE 1

\* RemovePacketFromQueue takes the first packet with the identifier.
InQueue(id) == SelectInSeq(queue, LAMBDA e : e.packet.id = id)

NextIdentifier ==
    LET i == (nextId + 1) % IdMod IN nextId' = IF i = 0 THEN 1 ELSE i
------------------------------------------------------------------------------
\* Connect: the steps before CONNECT is sent may fail.
Connect ==
    /\ status = "Disconnected"
    /\ status' = "ConnectPending"
    /\ socket' = TRUE
    /\ timer' = TimerOff
    /\ nextId' = 1
    /\ toBroker' = <<Packet("Connect", 0, 0, 0)>>
    /\ UNCHANGED <<queue, store, now, toClient, reason, received>>

ConnectFails ==
    /\ status = "Disconnected"
    /\ \/ /\ reason' \in {"InsufficientResources", "DNSError", "SSLSetupFailed", "ConnectFailed"}
          /\ UNCHANGED nextId
       \/ /\ reason' = "SendFailed"
          /\ nextId' = 1
    /\ UNCHANGED <<status, socket, timer, queue, store, received,
                   now, toBroker, toClient>>

\* Disconnect: the DISCONNECT packet is lost with the socket or read by the
\* broker before the end of the stream; neither makes a difference here.
Disconnect ==
    /\ CloseConnection("FromApplication")
    /\ UNCHANGED <<nextId, now, received>>

\* Subscribe, Unsubscribe and Publish: a packet whose acknowledgement is
\* awaited goes into the retransmission queue after it was sent.
Request(type, qos, msg) ==
    /\ NextIdentifier
    /\ LET p == Packet(type, nextId, qos, msg)
       IN  \/ /\ Transmit(p)
              /\ queue' = IF qos > 0 THEN Insert(queue, QueueEntry(p, SendTries - 1))
                          ELSE queue
              /\ UNCHANGED <<socket, store, reason, toClient>>
           \/ CloseConnection("SendFailed")
    /\ UNCHANGED <<now, received>>

Subscribe(msg) == Request("Subscribe", 1, msg)
Unsubscribe(msg) == Request("Unsubscribe", 1, msg)
Publish(qos, msg) == Request("Publish", qos, msg)
------------------------------------------------------------------------------
\* Receiver: one packet of the broker, of the given types.
Receive(types) ==
    /\ status # "Disconnected"
    /\ toClient # <<>>
    /\ Head(toClient).type \in types

\* What follows when the handler leaves the connection as it is.
Handled == toClient' = Tail(toClient) /\ UNCHANGED <<socket, reason>>

\* Packets that are refused as such: by the checks of Receive() and for want of
\* buffer space (mqttclient.cpp:426-436), PUBLISH for its topic or the
\* identifier zero (480-497), PUBREL for the identifier zero (606-611).
Refusal == [Invalid |-> "InvalidPacket", TooMuch |-> "InsufficientResources",
            ZeroId |-> "InvalidPacket", BadTopic |-> "NotSupported"]

ReceiveRefused ==
    /\ Receive(DOMAIN Refusal)
    /\ CloseConnection(Refusal[Head(toClient).type])
    /\ UNCHANGED <<nextId, now, received>>

ReceiveConnAck ==
    /\ Receive({"ConnAck"})
    /\ \/ /\ status # "ConnectPending"
          /\ CloseConnection("InvalidPacket")
       \/ /\ status = "ConnectPending" /\ Head(toClient).qos = 0
          /\ status' = "Connected"
          /\ Handled
          /\ UNCHANGED <<timer, queue, store, toBroker>>
       \/ /\ status = "ConnectPending" /\ Head(toClient).qos # 0
          /\ CloseConnection("Refused")
    /\ UNCHANGED <<nextId, now, received>>

\* PUBLISH: QoS 1 and 2 answer first; QoS 2 delivers only an identifier that
\* is not in the store.
ReceivePublish0 ==
    /\ Receive({"Publish"}) /\ Head(toClient).qos = 0
    /\ received' = Append(received, Head(toClient).msg)
    /\ Handled
    /\ UNCHANGED <<status, timer, nextId, queue, store, now, toBroker>>

ReceivePublish1 ==
    /\ Receive({"Publish"}) /\ Head(toClient).qos = 1
    /\ \/ /\ Transmit(Packet("PubAck", Head(toClient).id, 0, 0))
          /\ received' = Append(received, Head(toClient).msg)
          /\ Handled
          /\ UNCHANGED <<queue, store>>
       \/ CloseConnection("SendFailed") /\ UNCHANGED received
    /\ UNCHANGED <<nextId, now>>

\* Variant with a mistake: the identifier is not put into the store.
ReceivePublish2Unstored ==
    /\ Receive({"Publish"}) /\ Head(toClient).qos = 2
    /\ \/ /\ Transmit(Packet("PubRec", Head(toClient).id, 0, 0))
          /\ received' = IF Head(toClient).id \in store THEN received
                         ELSE Append(received, Head(toClient).msg)
          /\ Handled
          /\ UNCHANGED <<queue, store>>
       \/ CloseConnection("SendFailed") /\ UNCHANGED received
    /\ UNCHANGED <<nextId, now>>

ReceivePublish2 ==
    /\ Receive({"Publish"}) /\ Head(toClient).qos = 2
    /\ \/ /\ Transmit(Packet("PubRec", Head(toClient).id, 0, 0))
          /\ store' = store \cup {Head(toClient).id}
          /\ received' = IF Head(toClient).id \in store THEN received
                         ELSE Append(received, Head(toClient).msg)
          /\ Handled
          /\ UNCHANGED queue
       \/ CloseConnection("SendFailed") /\ UNCHANGED received
    /\ UNCHANGED <<nextId, now>>

\* Variant with a mistake: the identifier stays in the store.
ReceivePubRelKeepsId ==
    /\ Receive({"PubRel"})
    /\ \/ /\ Transmit(Packet("PubComp", Head(toClient).id, 0, 0))
          /\ Handled
          /\ UNCHANGED <<queue, store>>
       \/ CloseConnection("SendFailed")
    /\ UNCHANGED <<nextId, now, received>>

ReceivePubRel ==
    /\ Receive({"PubRel"})
    /\ \/ /\ Transmit(Packet("PubComp", Head(toClient).id, 0, 0))
          /\ store' = store \ {Head(toClient).id}
          /\ Handled
          /\ UNCHANGED queue
       \/ CloseConnection("SendFailed")
    /\ UNCHANGED <<nextId, now, received>>

\* PUBACK, SUBACK, UNSUBACK and PUBCOMP end the retransmission of a packet of
\* the right QoS; any other identifier closes the connection.
AckQoS(type) == IF type = "PubComp" THEN 2 ELSE 1

Expected(p) == /\ InQueue(p.id) # 0
               /\ queue[InQueue(p.id)].packet.qos = AckQoS(p.type)

ReceiveAck ==
    /\ Receive({"PubAck", "SubAck", "UnsubAck", "PubComp"})
    /\ LET p == Head(toClient)
       IN  \/ /\ p.type = "SubAck" /\ p.qos > 2
              /\ CloseConnection("SubscribeError")
           \/ /\ ~(p.type = "SubAck" /\ p.qos > 2) /\ Expected(p)
              /\ queue' = RemoveAt(queue, InQueue(p.id))
              /\ Handled
              /\ UNCHANGED <<status, timer, store, toBroker>>
           \/ /\ ~(p.type = "SubAck" /\ p.qos > 2) /\ ~Expected(p)
              /\ CloseConnection("PacketIdentifier")
    /\ UNCHANGED <<nextId, now, received>>

\* Variant with a mistake: the PUBLISH stays in the queue beside the PUBREL.
ReceivePubRecKeepsPublish ==
    /\ Receive({"PubRec"})
    /\ LET p == Head(toClient)
           known == InQueue(p.id) # 0 /\ queue[InQueue(p.id)].packet.qos = 2
       IN  \/ /\ known
              /\ LET rel == Packet("PubRel", p.id, 2, queue[InQueue(p.id)].packet.msg)
                 IN  /\ Transmit(rel)
                     /\ queue' = Insert(queue, QueueEntry(rel, SendTries - 1))
              /\ Handled
              /\ UNCHANGED store
           \/ known /\ CloseConnection("SendFailed")
           \/ ~known /\ CloseConnection("PacketIdentifier")
    /\ UNCHANGED <<nextId, now, received>>

\* PUBREC replaces the PUBLISH by a PUBREL with the same identifier and with
\* all its tries.
ReceivePubRec ==
    /\ Receive({"PubRec"})
    /\ LET p == Head(toClient)
           known == InQueue(p.id) # 0 /\ queue[InQueue(p.id)].packet.qos = 2
       IN  \/ /\ known
              /\ LET rel == Packet("PubRel", p.id, 2, queue[InQueue(p.id)].packet.msg)
                 IN  /\ Transmit(rel)
                     /\ queue' = Insert(RemoveAt(queue, InQueue(p.id)),
                                        QueueEntry(rel, SendTries - 1))
              /\ Handled
              /\ UNCHANGED store
           \/ known /\ CloseConnection("SendFailed")
           \/ ~known /\ CloseConnection("PacketIdentifier")
    /\ UNCHANGED <<nextId, now, received>>

ReceivePingResp ==
    /\ Receive({"PingResp"})
    /\ status' = "Connected"
    /\ timer' = IF KeepAlive > 0 THEN TimerIn(KeepAlive) ELSE timer
    /\ Handled
    /\ UNCHANGED <<nextId, queue, store, now, toBroker, received>>

\* Receive() on a connection that the broker has closed.
PeerCloses ==
    /\ status # "Disconnected" /\ toClient = <<>>
    /\ CloseConnection("FromPeer")
    /\ UNCHANGED <<nextId, now, received>>

Receiver ==
    \/ ReceiveRefused \/ ReceiveConnAck \/ ReceivePingResp
    \/ ReceivePublish0 \/ ReceivePublish1 \/ ReceivePublish2
    \/ ReceivePubRel \/ ReceivePubRec \/ ReceiveAck
------------------------------------------------------------------------------
\* Sender sends the packets again whose time has come, the first one of the
\* sorted queue first; a packet without a try left fails.
Due == queue # <<>> /\ ~After(Head(queue).at, now)

\* Variant with a mistake: the tries do not limit the resends.
SenderUnlimited ==
    /\ status # "Disconnected" /\ Due
    /\ LET e == Head(queue)
       IN  \/ /\ Transmit(e.packet)
              /\ queue' = Insert(Tail(queue), QueueEntry(e.packet,
                              IF e.tries = 0 THEN 0 ELSE e.tries - 1))
              /\ UNCHANGED <<socket, store, reason, toClient>>
           \/ CloseConnection("SendFailed")
    /\ UNCHANGED <<nextId, now, received>>

Sender ==
    /\ status # "Disconnected" /\ Due
    /\ LET e == Head(queue)
       IN  \/ /\ e.tries > 0
              /\ Transmit(e.packet)
              /\ queue' = Insert(Tail(queue), QueueEntry(e.packet, e.tries - 1))
              /\ UNCHANGED <<socket, store, reason, toClient>>
           \/ CloseConnection("SendFailed")
    /\ UNCHANGED <<nextId, now, received>>

\* KeepAliveHandler when the timer has elapsed.
TimerDue == timer.on /\ ~After(timer.at, now)

KeepAliveHandler ==
    /\ status # "Disconnected" /\ TimerDue
    /\ \/ /\ status = "Connected"
          /\ \/ Transmit(Packet("PingReq", 0, 0, 0))
                /\ UNCHANGED <<socket, queue, store, reason, toClient>>
             \/ CloseConnection("SendFailed")
       \/ status # "Connected" /\ CloseConnection("PingFailed")
    /\ UNCHANGED <<nextId, now, received>>

\* A tick passes.  Run() comes round at least every LoopTicks ticks, so that
\* nothing is overdue for longer.
Overdue(at) == ~After(at, now) /\ (now - at) % TickMod >= LoopTicks

Tick ==
    /\ status # "Disconnected"
    /\ queue # <<>> => ~Overdue(Head(queue).at)
    /\ timer.on => ~Overdue(timer.at)
    /\ now' = (now + 1) % TickMod
    /\ UNCHANGED <<clientVars, toBroker, toClient>>
------------------------------------------------------------------------------
\* The socket exists exactly while the client is not disconnected, with
\* nothing left over from an earlier connection (the assertions at
\* mqttclient.cpp:72-73, 124, 778 and 793).
SocketMatchesStatus ==
    /\ socket <=> status # "Disconnected"
    /\ status = "Disconnected" => queue = <<>> /\ store = {} /\ ~timer.on

\* The keep alive timer runs only in the states its handler expects, and the
\* answer to a ping is never awaited without it (mqttclient.cpp:753, 819-822):
\* a broker that does not answer is noticed.
TimerMatchesStatus ==
    /\ timer.on => status \in {"Connected", "WaitForPingResp"} /\ KeepAlive > 0
    /\ status = "WaitForPingResp" => timer.on

\* The queue is sorted by scheduled time also when the tick counter wraps:
\* Sender stops at the first packet that is not due (mqttclient.cpp:705).
QueueSorted ==
    \A i \in 1..Len(queue) : \A j \in 1..Len(queue) :
        i < j => ~After(queue[i].at, queue[j].at)

\* mqttclient.h:107 offers a "Keep alive period in seconds": with one, a
\* connected client has the timer running that makes it ping.
KeepAliveArmed == (status = "Connected" /\ KeepAlive > 0) => timer.on
==============================================================================
