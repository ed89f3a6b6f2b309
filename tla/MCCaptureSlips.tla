---------------------------- MODULE MCCaptureSlips ----------------------------
(* An instance of CaptureSlips for TLC: three events, two per pass, and a   *)
(* buffer of nine words, of which the captures claim six.                   *)
EXTENDS CaptureSlips, TLC

CONSTANTS other

MCCost(n, e) == 3 * n + e + 2
MCOverhead(e) == 1

Shape(ops, chunk, events, per_pass, map) ==
  [api |-> TRUE, attached |-> TRUE, total_ops |-> ops,
   ops_per_chunk |-> chunk, event_count |-> events,
   events_per_pass |-> per_pass, event_map_indices |-> map,
   matrix_storage_count |-> 6]

(* Chunks of all operators, or of two of three; all events, or a permuted   *)
(* selection, one of which is not in the map; one or two columns per pass.  *)
MCShapes ==
  {Shape(2, 0, 0, per_pass, map) :
     per_pass \in {0, 1}, map \in {None, 0 :> 2 @@ 1 :> 3 @@ 2 :> 1}}
  \cup {Shape(3, 2, 0, 0, None), Shape(3, 0, 2, 1, 0 :> 2 @@ 1 :> 0)}
===============================================================================
