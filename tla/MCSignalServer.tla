--------------------------- MODULE MCSignalServer ---------------------------
(* Peers and join codes that are interchangeable. *)
EXTENDS SignalServer, TLC

Interchangeable == Permutations(Peer) \cup Permutations(Code)
=============================================================================
