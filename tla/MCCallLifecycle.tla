--------------------------- MODULE MCCallLifecycle ---------------------------
(* Constants of the model-checking runs of CallLifecycle.                  *)
EXTENDS CallLifecycle

MCReadings == 0..MaxClock
=============================================================================
