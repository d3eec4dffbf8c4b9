---------------------------- MODULE MCDiskCache ----------------------------
(* Two disk write threads, the collector and restarts. *)
EXTENDS DiskCache, TLC

Interchangeable == Permutations(DiskThread)
=============================================================================
