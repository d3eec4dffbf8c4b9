--------------------------- MODULE MCDesktopShell ---------------------------
(* A folder "a" that is shared as s1, with a folder and a file in that,   *)
(* and an empty mount point "b" of the connection c1.                     *)
EXTENDS DesktopShell

CONSTANTS s1, c1

MCFolder == {<<"a">>, <<"a", "x">>, <<"b">>}
MCTree == MCFolder \cup {<<"a", "x", "f">>}
MCRootOf == [s \in {s1, c1} |-> IF s = c1 THEN <<"b">> ELSE <<"a">>]
=============================================================================
