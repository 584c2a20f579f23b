---------------------------- MODULE MCMqttBroker ----------------------------
(***************************************************************************)
(* Two brokers, as in the example of the README: the first handles every   *)
(* topic, the second those of the house, and publishes nothing.            *)
(***************************************************************************)
EXTENDS MqttBroker

HouseBrokers   == {"all", "house"}
HouseDomains   == [b \in HouseBrokers |-> IF b = "all" THEN <<>> ELSE <<"house", "/">>]
HouseTopics    == <<<<"house", "/", "living">>, <<"shelly">>>>
HousePublish   == {<<"house", "/", "wind">>}
HousePublisher == {"all"}
=============================================================================
