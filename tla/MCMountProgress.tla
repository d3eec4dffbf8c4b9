-------------------------- MODULE MCMountProgress --------------------------
(* Three threads on a channel of two places; two clients and a host whose   *)
(* leases last one tick.                                                   *)
EXTENDS MountProgress
=============================================================================
