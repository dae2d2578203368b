-------------------------- MODULE MCFlightRecorder --------------------------
(* Model checking of FlightRecorder: the runs recorder_*.cfg.              *)
EXTENDS FlightRecorder
=============================================================================
