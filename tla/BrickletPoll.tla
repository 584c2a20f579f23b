---------------------------- MODULE BrickletPoll ----------------------------
(***************************************************************************)
(* What sensorTinkerforge::poll() makes of the answers of a Bricklet.      *)
(*                                                                         *)
(* poll() creates a device for the Bricklet, asks it for a value, destroys *)
(* it, and looks at the answer.  Most types of Bricklets are asked once,   *)
(* whatever the channel, which only says which of the values is recorded   *)
(* and how it is scaled; values are not modelled.                          *)
(***************************************************************************)
EXTENDS Naturals

(* The types that are asked once, in the order of the table of poll().     *)
AirTypes         == {"AIR_QUALITY", "CO2", "CO2_V2"}
CurrentTypes     == {"CURRENT12", "CURRENT25"}
DistanceTypes    == {"DISTANCE_IR", "DISTANCE_IR_V2", "DISTANCE_US", "DISTANCE_US_V2",
                     "DUST_DETECTOR"}
EnergyTypes      == {"ENERGY_MONITOR"}
DualTypes        == {"INDUSTRIAL_DUAL_0_20MA", "INDUSTRIAL_DUAL_0_20MA_V2",
                     "INDUSTRIAL_DUAL_ANALOG_IN", "INDUSTRIAL_DUAL_ANALOG_IN_V2"}
LoadTypes        == {"LINE", "LOAD_CELL", "LOAD_CELL_V2", "PARTICULATE_MATTER"}
SoundTypes       == {"SOUND_INTENSITY", "SOUND_PRESSURE_LEVEL"}
RadiationTypes   == {"TEMPERATURE_IR", "TEMPERATURE_IR_V2", "UV_LIGHT", "UV_LIGHT_V2"}
VoltageTypes     == {"VOLTAGE", "VOLTAGE_CURRENT", "VOLTAGE_CURRENT_V2"}
TemperatureTypes == {"TEMPERATURE", "TEMPERATURE_V2"}
AnalogTypes      == {"ANALOG_IN", "ANALOG_IN_V2", "ANALOG_IN_V3"}
WeatherTypes     == {"HUMIDITY", "HUMIDITY_V2", "BAROMETER", "BAROMETER_V2"}
LightTypes       == {"AMBIENT_LIGHT", "AMBIENT_LIGHT_V2", "AMBIENT_LIGHT_V3", "MOISTURE"}
MaskTypes        == {"INDUSTRIAL_DIGITAL_IN_4", "IO4", "IO16"}
FieldTypes       == {"HALL_EFFECT_V2", "GPS"}

(* The laser is switched on before the request and off after it; only the  *)
(* answer to the request counts.                                           *)
LaserTypes == {"LASER_RANGE_FINDER", "LASER_RANGE_FINDER_V2"}

AskedOnce == AirTypes \cup CurrentTypes \cup DistanceTypes \cup EnergyTypes \cup DualTypes
             \cup LaserTypes \cup LoadTypes \cup SoundTypes \cup RadiationTypes
             \cup VoltageTypes \cup TemperatureTypes \cup AnalogTypes \cup WeatherTypes
             \cup LightTypes \cup MaskTypes \cup FieldTypes

(* Types that are asked for some channels only.                            *)
DigitalChannels == [t \in {"INDUSTRIAL_DIGITAL_IN_4_V2", "IO4_V2", "IO16_V2"} |->
                       IF t = "IO16_V2" THEN 0..15 ELSE 0..3]
GpsChannels     == [t \in {"GPS_V2", "GPS_V3"} |-> 0..8]
ByChannel       == DOMAIN DigitalChannels \cup DOMAIN GpsChannels
Offers(type, channel) ==
    channel \in IF type \in DOMAIN GpsChannels THEN GpsChannels[type]
                                               ELSE DigitalChannels[type]

(* Channels of the GPS Bricklets that stand for the quality of the fix.    *)
StatusChannels == 6..8

(* The PTC Bricklets have a probe, and are asked whether it is connected   *)
(* before they are asked for the temperature.                              *)
ProbeTypes == {"PTC", "PTC_V2"}

(* Is the Bricklet asked for a value at all?                               *)
IsAsked(type, channel) ==
    \/ type \in AskedOnce \cup ProbeTypes
    \/ type \in ByChannel /\ Offers(type, channel)

(* What a Bricklet may reply: to all requests, to the first one only, to   *)
(* none, or that it has no probe.  One that is not asked does not reply.   *)
Replies == {"all", "first", "none", "no probe"}
RepliesOf(type, channel) ==
    IF type \in ProbeTypes THEN Replies
    ELSE {"none"} \cup IF IsAsked(type, channel) THEN {"all"} ELSE {}

(* What poll() returns, and what it has done to the sensor.                *)
Measured  == [returns |-> TRUE,  effect |-> "measurement"]
Failed    == [returns |-> FALSE, effect |-> "failure"]
Silent    == [returns |-> TRUE,  effect |-> "none"]
Uncounted == [returns |-> FALSE, effect |-> "none"]
Crashed   == [returns |-> FALSE, effect |-> "crash"]

(* failWithReadError() when the request fails.                             *)
Asked(reply) == IF reply = "none" THEN Failed ELSE Measured

(* Mutant: the failure is not counted, as for the PTC 2.0.                 *)
AskedProbeUncounted(type, reply) ==
    CASE reply = "all"   -> Measured
      [] reply = "first" -> Failed
      [] OTHER           -> Uncounted

(* A reply that does not come says that there is no probe.  The PTC 2.0    *)
(* only logs that.                                                         *)
AskedProbe(type, reply) ==
    CASE reply = "all"   -> Measured
      [] reply = "first" -> Failed
      [] OTHER           -> IF type = "PTC" THEN Failed ELSE Uncounted

(* The quality of the fix is asked for with a null pointer as the buffer   *)
(* for the numbers of the satellites, into which the binding copies them   *)
(* from an answer, whatever it says: the program ends.                     *)
AskedGps(channel, reply) ==
    IF channel \in StatusChannels /\ reply = "all" THEN Crashed ELSE Asked(reply)

(* What poll() makes of a channel that some types do not have.             *)
AskedByChannel(type, channel, reply) ==
    IF Offers(type, channel)
    THEN IF type \in DOMAIN GpsChannels THEN AskedGps(channel, reply) ELSE Asked(reply)
    ELSE Silent

(* poll() of a Bricklet with a connection.  "unknown" is 0, the type until *)
(* the Brick Daemon names it; like any other type without a case it falls  *)
(* through the table.  The failure that poll() has for a sensor without a  *)
(* type is never counted, since setDeviceType(0) in the constructor sets   *)
(* _isInitialized already.                                                 *)
Poll(type, channel, reply) ==
    CASE type \in AskedOnce   -> Asked(reply)
      [] type \in ProbeTypes  -> AskedProbe(type, reply)
      [] type \in ByChannel   -> AskedByChannel(type, channel, reply)
      [] OTHER                -> Uncounted
=============================================================================
