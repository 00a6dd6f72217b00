------------------------- MODULE MCTelemetryPipeline -------------------------
(* TelemetryPipeline for TLC: the sensor tasks are interchangeable.          *)
EXTENDS TelemetryPipeline, TLC

SensorSymmetry == Permutations(Sensors)
==============================================================================
