----------------------------- MODULE MCPmuDriver -----------------------------
(* Instances of PmuDriver for TLC.  A hardware counter has one bit, so that *)
(* a 16-bit slot wraps at 2 and a 32-bit slot at 4.                         *)
EXTENDS PmuDriver, TLC

CONSTANTS e1, e2, x1, basic

NoPreset == [p \in {} |-> {}]

(* One preset that takes every hardware counter of a PMU with four. *)
MCPreset == basic :> (0 :> e1 @@ 1 :> e2)
===============================================================================
