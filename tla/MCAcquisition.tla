---------------------------- MODULE MCAcquisition ----------------------------
(***************************************************************************)
(* Small instances of Acquisition.  One tick stands for the shortest rest  *)
(* period that matters; a rest period of two ticks has slots in which an   *)
(* event comes early or late.                                              *)
(***************************************************************************)
EXTENDS Acquisition, TLC

Cfg(rest, retry, keep, isCounter) ==
    [rest |-> rest, retry |-> retry, keep |-> keep, isCounter |-> isCounter]

(* Two polled sensors with different rest, retry and retention times.      *)
PolledKind   == <<"json", "tinkerforge">>
PolledConfig == <<Cfg(3, 1, 4, FALSE), Cfg(2, 4, 2, TRUE)>>

(* A sensor that the threads of two brokers feed, a polled one, and one    *)
(* with a callback.                                                        *)
EventKind    == <<"mqtt", "json", "callback">>
EventConfig  == <<Cfg(2, 1, 7, FALSE), Cfg(2, 1, 3, FALSE), Cfg(2, 1, 1, TRUE)>>

(* The brokers differ in nothing but their names.                          *)
BrokersAlike == Permutations(Brokers)
=============================================================================
