--------------------------- MODULE MCRecoveryTask ---------------------------
(* RecoveryTask for TLC: one or two sensors in a fixed order.               *)
EXTENDS RecoveryTask

OneSensor  == <<"temp">>
TwoSensors == <<"temp", "imu">>
==============================================================================
