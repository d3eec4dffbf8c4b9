---------------------------- MODULE MCWriteBack ----------------------------
(* One client writing two chunks of different files, or of one file. *)
EXTENDS WriteBack

CONSTANTS i1, i2

TwoFiles == {[inode |-> i1, index |-> 0], [inode |-> i2, index |-> 0]}
OneFile == {[inode |-> i1, index |-> 0], [inode |-> i1, index |-> 1]}
=============================================================================
