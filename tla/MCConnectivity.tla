---------------------------- MODULE MCConnectivity ----------------------------
(* Connectivity for TLC: rounds of bounded length, up to a horizon that some   *)
(* common multiples of the intervals lie below.                                *)
EXTENDS Connectivity

CONSTANTS
  MaxProcessing,   \* bound of the length of a round
  MaxDelay,        \* bound of the delay, which grows while Wi-Fi is down
  Horizon          \* bound of the schedule

BoundedNext ==
  /\ \/ NetworkStep
     \/ WifiRound
     \/ \E processing \in 0..MaxProcessing : WifiDelay(processing)
  /\ Now' <= Horizon
  /\ taskDelay' <= MaxDelay

BoundedSpec == NetworkInit /\ [][BoundedNext]_networkVars
==============================================================================
