-------------------------- MODULE MCDesktopMounts --------------------------
(* One user and one backend. *)
EXTENDS DesktopMounts
=============================================================================
