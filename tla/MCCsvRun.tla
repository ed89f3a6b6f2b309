------------------------------- MODULE MCCsvRun -------------------------------
(* An instance of CsvRun for TLC: three events, two per pass, a 32-bit      *)
(* count wraps at 4, and a buffer of six words.                             *)
EXTENDS CsvRun, TLC

CONSTANTS other

MCCost(n, e) == 3 * n + e + 2
MCOverhead(e) == 1

Cfg(ops, chunk, events, per_pass, map, words) ==
  [api |-> TRUE, attached |-> TRUE, total_ops |-> ops,
   ops_per_chunk |-> chunk, event_count |-> events,
   events_per_pass |-> per_pass, event_map_indices |-> map,
   matrix_storage_count |-> words]

(* Chunks of two rows, the last one shorter; passes of two columns, the     *)
(* last one shorter.                                                        *)
Uneven == Cfg(3, 2, 0, 0, None, 6)

(* One chunk, a permuted selection of events, one column per pass. *)
Mapped == Cfg(2, 0, 2, 1, 0 :> 2 @@ 1 :> 0, 4)

(* Chunks of one row, passes of one column. *)
Single == Cfg(2, 1, 0, 1, None, 5)

(* The second pass meets an index outside the map. *)
Unlisted == Cfg(1, 1, 3, 2, 0 :> 0 @@ 1 :> 1 @@ 2 :> 3, 3)

Rejected == {
  [Uneven EXCEPT !.attached = FALSE],
  [Uneven EXCEPT !.api = FALSE],
  [Uneven EXCEPT !.total_ops = 0],
  [Uneven EXCEPT !.event_count = 4],
  [Uneven EXCEPT !.ops_per_chunk = 4],
  [Uneven EXCEPT !.events_per_pass = 3],
  [Uneven EXCEPT !.matrix_storage_count = 5],
  [Mapped EXCEPT !.matrix_storage_count = 3]}

MCCaptureCfg == {Uneven, Mapped, Single, Unlisted} \cup Rejected
===============================================================================
