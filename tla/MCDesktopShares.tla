-------------------------- MODULE MCDesktopShares --------------------------
(* One user and one backend. *)
EXTENDS DesktopShares
=============================================================================
