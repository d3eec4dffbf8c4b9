--------------------------- MODULE MCLockService ---------------------------
(* Two clients and a host. *)
EXTENDS LockService, TLC

Interchangeable == Permutations(Inode) \cup Permutations(Token) \cup Permutations(Holder)
=============================================================================
