----------------------------- MODULE MCScreens -----------------------------
(* Two sources to index, a share and a connection in the library, codes of *)
(* one letter too few, the right length and one letter too many.           *)
EXTENDS Screens
=============================================================================
