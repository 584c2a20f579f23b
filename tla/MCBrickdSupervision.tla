------------------------ MODULE MCBrickdSupervision -------------------------
(***************************************************************************)
(* A PTC Bricklet, one of the second version, a GPS Bricklet that is asked *)
(* for the quality of its fix, an input Bricklet with a channel that it    *)
(* does not have, and a Bricklet that is not there.                        *)
(***************************************************************************)
EXTENDS BrickdSupervision

HouseTypes    == <<"PTC", "PTC_V2", "GPS_V2", "IO4_V2", "unknown">>
HouseChannels == <<0, 0, 8, 4, 0>>
=============================================================================
