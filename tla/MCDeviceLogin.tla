---------------------------- MODULE MCDeviceLogin ----------------------------
(* DeviceLogin for TLC: two logins, two requests in flight, one crash.       *)
EXTENDS DeviceLogin, TLC

Symmetry == Permutations(Procs)
=============================================================================
