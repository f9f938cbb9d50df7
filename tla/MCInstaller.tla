---------------------------- MODULE MCInstaller ----------------------------
(* TLC instances of Installer. *)
EXTENDS Installer
=============================================================================
