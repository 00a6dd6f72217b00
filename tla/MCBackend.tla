----------------------------- MODULE MCBackend ------------------------------
(* DeviceMonitor for TLC: logins, and runs of the cron job, are alike.      *)
EXTENDS DeviceMonitor, TLC

Symmetry == Permutations(Logins) \cup Permutations(Runs)
=============================================================================
