------------------------------ MODULE MCWatch ------------------------------
(***************************************************************************)
(* TLC instances of WatchCycle: two watches, the first without an          *)
(* allow_command, without confirmation and without stabilization, the      *)
(* second, whose history is kept, with all of them.                        *)
(***************************************************************************)
EXTENDS WatchCycle, TLC

CONSTANTS first, second

TwoWatches == <<first, second>>
Both(a, b) == (first :> a) @@ (second :> b)

Intervals == Both(1, 1)
Confirms == Both(0, 1)
Cooldowns == Both(1, 2)
Timeouts == Both(1, 1)
Stabilizations == Both(0, 2)
Polls == Both(1, 1)
=============================================================================
