---------------------------- MODULE MCMqttReceive ----------------------------
(* TLC instance of MqttReceive: a PINGRESP, a SUBACK, a PUBLISH whose length *)
(* takes two bytes, a packet that is refused when it is complete, and one    *)
(* whose length field is bad.                                                *)
EXTENDS MqttReceive

MCKinds == {[type |-> "Other", head |-> 2, rest |-> 0],
            [type |-> "SubAck", head |-> 2, rest |-> 3],
            [type |-> "Publish", head |-> 3, rest |-> 2],
            [type |-> "Invalid", head |-> 2, rest |-> 1],
            [type |-> "Invalid", head |-> 4, rest |-> 0]}
==============================================================================
