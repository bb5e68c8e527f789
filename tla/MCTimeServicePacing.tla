------------------------- MODULE MCTimeServicePacing -------------------------
(***************************************************************************)
(* TimeServicePacing for TLC: one producer, one consumer, the thread that  *)
(* starts and stops the service again and again, and delays up to the      *)
(* resolution or, for the other configuration, of one microsecond more.    *)
(***************************************************************************)
EXTENDS TimeServicePacing

UpToResolution == 0 .. usResolution
BeyondResolution == 0 .. usResolution + 1
=============================================================================
