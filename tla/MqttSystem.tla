----------------------------- MODULE MqttSystem -----------------------------
(***************************************************************************)
(* The MQTT client together with the application that uses it and with a   *)
(* broker.  The broker is not part of the repository: it is modelled from  *)
(* the packets that the client sends and understands.  It answers when it  *)
(* likes or never, may send a message again that it has no answer for, and *)
(* keeps the state of the session over a connection unless the client asks *)
(* for a clean one.  A Faulty broker also sends what it should not.        *)
(***************************************************************************)
EXTENDS MqttClient

CONSTANTS
    MaxOut,        \* bound: requests of the application
    MaxIn,         \* bound: messages of the broker
    MaxConnects,   \* bound: connections
    BrokerSends,   \* bound: how often the broker sends a packet on a connection
    BrokerBuffer,  \* bound: packets under way to the client
    InIds,         \* packet identifiers the broker uses for its messages
    CleanSession,  \* bCleanSession
    Faulty         \* the broker may send what it should not

ASSUME SystemAssumption ==
    /\ {MaxOut, MaxIn, MaxConnects, BrokerSends} \subseteq Nat
    /\ BrokerBuffer \in Nat \ {0} /\ InIds \in Nat \ {0}
    /\ {CleanSession, Faulty} \subseteq BOOLEAN

VARIABLES
    issued,    \* the application's requests; connection 0: the request failed
    connects,  \* the number of connections so far
    accepted,  \* the last connection that the broker accepted
    got,       \* how often the broker took each request
    recorded,  \* identifiers the broker has sent PUBREC and no PUBCOMP for
    out        \* the broker's messages

brokerVars == <<accepted, got, recorded, out>>
appVars == <<issued, connects>>
sysVars == <<vars, brokerVars, appVars>>

SystemInit ==
    /\ Init
    /\ issued = <<>> /\ connects = 0
    /\ accepted = 0
    /\ got = [m \in 1..MaxOut |-> 0]
    /\ recorded = {}
    /\ out = [m \in 1..MaxIn |-> [state |-> "new", qos |-> 0, sends |-> 0]]
------------------------------------------------------------------------------
\* The application.
AppConnect ==
    /\ connects < MaxConnects
    /\ Connect
    /\ connects' = connects + 1
    /\ UNCHANGED <<brokerVars, issued>>

AppConnectFails == ConnectFails /\ UNCHANGED <<brokerVars, appVars>>
AppDisconnect == status # "Disconnected" /\ Disconnect /\ UNCHANGED <<brokerVars, appVars>>

\* Bound on the rate of requests: an identifier comes round again only after
\* everything that belongs to its last use is settled.  The client hands out
\* the next of 65535 identifiers without a look at the queue.
NotUnderWay(id) ==
    /\ \A i \in 1..Len(toBroker) : toBroker[i].id # id
    /\ \A i \in 1..Len(toClient) : toClient[i].id # id

IdentifierFree == InQueue(nextId) = 0 /\ NotUnderWay(nextId)

Issue(type, qos) ==
    /\ Len(issued) < MaxOut /\ IdentifierFree
    /\ CASE type = "Subscribe" -> Subscribe(Len(issued) + 1)
         [] type = "Unsubscribe" -> Unsubscribe(Len(issued) + 1)
         [] type = "Publish" -> Publish(qos, Len(issued) + 1)
    /\ issued' = Append(issued,
           [qos |-> qos, conn |-> IF status' = "Disconnected" THEN 0 ELSE connects])
    /\ UNCHANGED <<brokerVars, connects>>

AppSubscribe == Issue("Subscribe", 1)
AppUnsubscribe == Issue("Unsubscribe", 1)
AppPublish == \E qos \in 0..2 : Issue("Publish", qos)
------------------------------------------------------------------------------
\* The broker reads a packet and answers it; refused says whether it refuses
\* a connection or a subscription.
BrokerOpen == status # "Disconnected" /\ accepted = connects

BrokerReads(types) ==
    /\ status # "Disconnected"
    /\ toBroker # <<>>
    /\ Head(toBroker).type \in types
    /\ toBroker' = Tail(toBroker)

BrokerSays(p) ==
    /\ Len(toClient) < BrokerBuffer
    /\ toClient' = Append(toClient, p)

\* A clean session forgets what the last one has left; otherwise messages
\* without an answer are sent again.
BrokerConnAck ==
    /\ BrokerReads({"Connect"})
    /\ \/ /\ BrokerSays(Packet("ConnAck", 0, 0, 0))
          /\ accepted' = connects
          /\ recorded' = IF CleanSession THEN {} ELSE recorded
          /\ out' = [m \in 1..MaxIn |->
                        IF CleanSession /\ out[m].state \in {"sent", "released"}
                        THEN [out[m] EXCEPT !.state = "dropped"]
                        ELSE [out[m] EXCEPT !.sends = 0]]
       \/ /\ BrokerSays(Packet("ConnAck", 0, 1, 0))
          /\ UNCHANGED <<accepted, recorded, out>>
    /\ UNCHANGED <<clientVars, now, got, appVars>>

Takes(m) == got' = [got EXCEPT ![m] = @ + 1]

BrokerRequest ==
    /\ BrokerOpen
    /\ BrokerReads({"Subscribe", "Unsubscribe", "Publish"})
    /\ LET p == Head(toBroker)
           new == p.qos < 2 \/ p.id \notin recorded
       IN  /\ IF new THEN Takes(p.msg) ELSE UNCHANGED got
           /\ recorded' = IF p.qos = 2 THEN recorded \cup {p.id} ELSE recorded
           /\ \/ p.type = "Subscribe"
                 /\ \E code \in {0, 128} : BrokerSays(Packet("SubAck", p.id, code, 0))
              \/ p.type = "Unsubscribe" /\ BrokerSays(Packet("UnsubAck", p.id, 0, 0))
              \/ p.type = "Publish" /\ p.qos = 0 /\ UNCHANGED toClient
              \/ p.type = "Publish" /\ p.qos = 1 /\ BrokerSays(Packet("PubAck", p.id, 0, 0))
              \/ p.type = "Publish" /\ p.qos = 2 /\ BrokerSays(Packet("PubRec", p.id, 0, 0))
    /\ UNCHANGED <<clientVars, now, accepted, out, appVars>>

BrokerPubRel ==
    /\ BrokerReads({"PubRel"})
    /\ recorded' = recorded \ {Head(toBroker).id}
    /\ BrokerSays(Packet("PubComp", Head(toBroker).id, 0, 0))
    /\ UNCHANGED <<clientVars, now, accepted, got, out, appVars>>

BrokerPingReq ==
    /\ BrokerReads({"PingReq"})
    /\ BrokerSays(Packet("PingResp", 0, 0, 0))
    /\ UNCHANGED <<clientVars, now, brokerVars, appVars>>

\* The broker's own messages.
IdOf(m) == 1 + (m % InIds)

BrokerPublish(m, qos) ==
    /\ BrokerOpen
    /\ \A k \in 1..(m - 1) : out[k].state # "new"
    /\ \A k \in 1..MaxIn : (k # m /\ IdOf(k) = IdOf(m)) => out[k].state \notin {"sent", "released"}
    /\ \/ out[m].state = "new" /\ NotUnderWay(IdOf(m))
       \/ out[m].state = "sent" /\ out[m].qos = qos /\ out[m].sends < BrokerSends
    /\ BrokerSays(Packet("Publish", IdOf(m), qos, m))
    /\ out' = [out EXCEPT ![m] = [state |-> IF qos = 0 THEN "done" ELSE "sent",
                                  qos |-> qos, sends |-> @.sends + 1]]
    /\ UNCHANGED <<clientVars, now, toBroker, accepted, got, recorded, appVars>>

BrokerPubRelAgain(m) ==
    /\ BrokerOpen
    /\ out[m].state = "released" /\ out[m].sends < BrokerSends
    /\ BrokerSays(Packet("PubRel", IdOf(m), 0, 0))
    /\ out' = [out EXCEPT ![m].sends = @ + 1]
    /\ UNCHANGED <<clientVars, now, toBroker, accepted, got, recorded, appVars>>

\* PUBACK and PUBCOMP end a message, PUBREC takes it to the second phase; an
\* answer to a packet that was sent twice is ignored the second time.
Answered(states) == {m \in 1..MaxIn : IdOf(m) = Head(toBroker).id /\ out[m].state \in states}

BrokerAnswered ==
    /\ \/ /\ BrokerReads({"PubAck"})
          /\ out' = [m \in 1..MaxIn |-> IF m \in Answered({"sent"}) /\ out[m].qos = 1
                                        THEN [out[m] EXCEPT !.state = "done"] ELSE out[m]]
          /\ UNCHANGED toClient
       \/ /\ BrokerReads({"PubComp"})
          /\ out' = [m \in 1..MaxIn |-> IF m \in Answered({"released"})
                                        THEN [out[m] EXCEPT !.state = "done"] ELSE out[m]]
          /\ UNCHANGED toClient
       \/ /\ BrokerReads({"PubRec"})
          /\ out' = [m \in 1..MaxIn |-> IF m \in Answered({"sent"})
                                        THEN [state |-> "released", qos |-> 2, sends |-> 1] ELSE out[m]]
          /\ BrokerSays(Packet("PubRel", Head(toBroker).id, 0, 0))
    /\ UNCHANGED <<clientVars, now, accepted, got, recorded, appVars>>

\* What a broker should not send: packets that are refused, and answers that
\* nothing has asked for.
BrokerMisbehaves ==
    /\ Faulty /\ status # "Disconnected"
    /\ \E type \in DOMAIN Refusal \cup {"ConnAck", "PingResp", "PubAck", "PubRec", "PubRel",
                                        "PubComp", "SubAck", "UnsubAck"} :
           BrokerSays(Packet(type, 1, 0, 0))
    /\ UNCHANGED <<clientVars, now, toBroker, brokerVars, appVars>>

\* It should not read a packet and never answer it either.
BrokerIgnores ==
    /\ Faulty /\ status # "Disconnected"
    /\ toBroker # <<>>
    /\ toBroker' = Tail(toBroker)
    /\ UNCHANGED <<clientVars, now, toClient, brokerVars, appVars>>
------------------------------------------------------------------------------
ReceiverStep == Receiver /\ UNCHANGED <<brokerVars, appVars>>
SenderStep == Sender /\ UNCHANGED <<brokerVars, appVars>>
KeepAliveStep == KeepAliveHandler /\ UNCHANGED <<brokerVars, appVars>>
ClientStep == ReceiverStep \/ SenderStep \/ KeepAliveStep
PeerStep == PeerCloses /\ UNCHANGED <<brokerVars, appVars>>
TimeStep == Tick /\ UNCHANGED <<brokerVars, appVars>>

App ==
    \/ AppConnect \/ AppConnectFails \/ AppDisconnect
    \/ AppSubscribe \/ AppUnsubscribe \/ AppPublish

Broker ==
    \/ BrokerConnAck \/ BrokerRequest \/ BrokerPubRel \/ BrokerPingReq \/ BrokerAnswered
    \/ BrokerMisbehaves \/ BrokerIgnores
    \/ \E m \in 1..MaxIn : BrokerPubRelAgain(m) \/ \E qos \in 0..2 : BrokerPublish(m, qos)

SystemNext == ClientStep \/ PeerStep \/ TimeStep \/ App \/ Broker

SystemSpec == SystemInit /\ [][SystemNext]_sysVars

\* Run() calls its three parts again and again and time passes: the broker
\* does not fill the socket so fast that a Receiver() finds it never empty.
\* Otherwise the broker and the application do what they like or nothing.
SystemFairSpec ==
    /\ SystemSpec
    /\ WF_sysVars(ReceiverStep) /\ WF_sysVars(SenderStep) /\ WF_sysVars(KeepAliveStep)
    /\ WF_sysVars(TimeStep)
------------------------------------------------------------------------------
SystemTypeOK ==
    /\ status \in {"Disconnected", "ConnectPending", "Connected", "WaitForPingResp"}
    /\ timer.at \in 0..(TickMod - 1)
    /\ nextId \in 1..(IdMod - 1)
    /\ now \in 0..(TickMod - 1)
    /\ \A i \in 1..Len(queue) :
           queue[i].tries \in 0..(SendTries - 1) /\ queue[i].at \in 0..(TickMod - 1)
    /\ store \subseteq 1..InIds
    /\ connects \in 0..MaxConnects

Delivered(m) == \E i \in 1..Len(received) : received[i] = m
Pending(m) == \E i \in 1..Len(queue) : queue[i].packet.msg = m
Current(m) == status # "Disconnected" /\ issued[m].conn = connects

\* A request with QoS 1 or 2 is in the retransmission queue until the broker
\* has it: acknowledgements, resends and the replacement of PUBLISH by PUBREL
\* lose none while the connection lasts (mqttclient.cpp:379-385, 553-638,
\* MQTT_QOS_AT_LEAST_ONCE).
AtLeastOnce ==
    \A m \in 1..Len(issued) :
        (issued[m].qos > 0 /\ Current(m) /\ ~Pending(m)) => got[m] > 0

\* A message published with QoS 2 reaches the broker's subscribers at most
\* once, however often its packets are sent (mqttclient.cpp:582-599, 712-730).
AtMostOnce == \A m \in 1..Len(issued) : issued[m].qos = 2 => got[m] <= 1

\* What the broker sends with QoS 1 or 2 and considers as answered was given
\* to OnMessage, also when the identifier was in use before (mqttclient.cpp:
\* 512-550, 602-623).
InboundDelivered ==
    \A m \in 1..MaxIn : (out[m].state = "done" /\ out[m].qos > 0) => Delivered(m)

\* A message with QoS 2 is given to OnMessage once, although the broker may
\* send it again (mqttclient.cpp:543-548, MQTT_QOS_EXACTLY_ONCE).
InboundOnce ==
    \A m \in 1..MaxIn : out[m].qos = 2 =>
        \A i, j \in 1..Len(received) : received[i] = m /\ received[j] = m => i = j

\* A ping is answered or given up (mqttclient.cpp:739-757).
PingEnds == (status = "WaitForPingResp") ~> (status # "WaitForPingResp")

\* No request is retransmitted for ever: it is acknowledged or, after
\* MQTT_SEND_TRIES tries, the connection is closed (mqttsendpacket.cpp:159).
\* Only PUBREC after PUBREC, each of which starts the tries of the PUBREL anew
\* (mqttclient.cpp:582-599), can put that off.
AnotherPubRec == toClient # <<>> /\ Head(toClient).type = "PubRec"
RequestsSettle == \A m \in 1..MaxOut : <>[]Pending(m) => []<>AnotherPubRec

\* The client does not take a correct broker's acknowledgement for one with
\* an "Invalid identifier" (mqttclient.cpp:45).
CorrectBrokerAccepted == reason # "PacketIdentifier"
==============================================================================
