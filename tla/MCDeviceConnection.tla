-------------------------- MODULE MCDeviceConnection --------------------------
(* Small instances of DeviceConnection for TLC. *)
EXTENDS DeviceConnection, TLC

Symmetric == Permutations(Clients) \cup Permutations(Conns)
=============================================================================
