------------------------- MODULE MCCommandExecutor -------------------------
(* TLC instances of CommandExecutor. *)
EXTENDS CommandExecutor
=============================================================================
