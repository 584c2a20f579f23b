---------------------- MODULE MCTinkerforgeConnection -----------------------
(***************************************************************************)
(* An IO-4 Bricklet with two event sensors, and a Bricklet that is polled. *)
(***************************************************************************)
EXTENDS TinkerforgeConnection

IO4UID     == <<"io", "io", "temp">>
IO4Trigger == <<"low", "high_or_low", "periodic">>
IO4Channel == <<0, 1, 0>>
IO4Type    == [u \in {"io", "temp"} |-> IF u = "io" THEN "IO4" ELSE "other"]
OnePin     == {{0}, {1}}
TwoPins    == {{0}, {1}, {0, 1}}
=============================================================================
