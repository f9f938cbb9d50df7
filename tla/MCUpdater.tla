----------------------------- MODULE MCUpdater -----------------------------
(* TLC instances of Updater. *)
EXTENDS Updater
=============================================================================
