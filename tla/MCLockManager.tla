--------------------------- MODULE MCLockManager ---------------------------
(* The lock table on its own, called by any client in any order. *)
EXTENDS LockManager, TLC

Interchangeable ==
    Permutations(Inode) \cup Permutations(Token) \cup Permutations(Holder)
=============================================================================
