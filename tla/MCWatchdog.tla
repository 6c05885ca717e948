----------------------------- MODULE MCWatchdog -----------------------------
(* TLC instances of WatchdogProcess. *)
EXTENDS WatchdogProcess, TLC
=============================================================================
