------------------------- MODULE MC_WindowsRestart -------------------------
(* TLC instance of the windows-restart provisioner: one Provision call,   *)
(* with the configured number of concurrent Cancel calls.                 *)
EXTENDS WindowsRestart

=============================================================================
