-------------------------------- MODULE MCMqtt --------------------------------
(***************************************************************************)
(* Instances of the MQTT client with its broker for TLC; see MCMqtt_*.cfg. *)
(* The numbers of requests and of messages that are enough for the         *)
(* exchanges are too large for both directions at a time.                  *)
(***************************************************************************)
EXTENDS MqttSystem

\* Requests on one connection, or messages over all of them.
OneDirection ==
    issued # <<>> => connects <= 1 /\ \A m \in 1..MaxIn : out[m].state = "new"
==============================================================================
