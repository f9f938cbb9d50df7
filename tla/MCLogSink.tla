----------------------------- MODULE MCLogSink -----------------------------
(* TLC instances of LogSink. *)
EXTENDS LogSink

=============================================================================
