------------------------------- MODULE Capture -------------------------------
(***************************************************************************)
(* nsx_pmu_capture.c: a model too large to be profiled at once is run many *)
(* times.  A chunk is a range of its operators whose rows fit the matrix;  *)
(* a pass is one run of the model that measures events_per_pass columns of *)
(* the chunk's rows.  When every column is measured the chunk is ready,    *)
(* the caller takes its rows and advances to the next chunk.               *)
(*                                                                         *)
(* Each operator named nsx_pmu_capture_... is one call of the interface as *)
(* an action on the fields of nsx_pmu_capture_t and on the PMU (PmuMeter). *)
(* CaptureRun is the application that makes the calls.                     *)
(***************************************************************************)
EXTENDS PmuMeter

CONSTANTS
  MapSize,      \* NSX_PMU_MAP_SIZE; an event is known by its map index
  MaxPerPass,   \* NSX_PMU_CAPTURE_MAX_EVENTS_PER_PASS: MAX_COUNTERS / 2
  StorageSize,  \* words in the application's matrix buffer
  Mine          \* &capture->pmu_cfg

ASSUME CaptureAssumption ==
  /\ MapSize \in Nat \ {0} /\ MapEvent = 0 .. MapSize - 1
  /\ MaxPerPass \in Nat \ {0} /\ Slot = 0 .. 2 * MaxPerPass - 1
  /\ StorageSize \in Nat
  /\ Mine \in Config

VARIABLES
  capture,  \* the fields that nsx_pmu_capture_init assigns, a record
  \* progress
  current_chunk_start, current_chunk_ops, current_event_base,
  current_pass_events, chunk_ready, complete,
  \* the buffer, and what the last call returned
  matrix_storage, status

progress == <<current_chunk_start, current_chunk_ops, current_event_base,
              current_pass_events, chunk_ready, complete>>
captureVars == <<capture, progress, matrix_storage>>

Word == Modulus(32)
Lesser(a, b) == IF a < b THEN a ELSE b

(* Mutant: the stride is the number of rows. *)
OffsetByRows(r, e) == r * current_chunk_ops + e

(* Where event column e of row r of the chunk lies in the buffer. *)
Offset(r, e) == r * capture.total_event_count + e

(* Mutant: the operator after the chunk is sampled too. *)
SampledOneMore(op) ==
  current_chunk_start <= op /\ op <= current_chunk_start + current_chunk_ops

(* nsx_pmu_capture_should_sample_layer *)
Sampled(op) ==
  current_chunk_start <= op /\ op < current_chunk_start + current_chunk_ops

(* nsx_pmu_capture_get_event_map_index, out of range when it is refused. *)
MapIndex(map, e) == IF map = None THEN e ELSE map[e]

-----------------------------------------------------------------------------
(* Mutant: every pass measures the first columns. *)
PassRequestFromZero(map, base, n) ==
  [s \in Slot |->
     IF s < n THEN [enabled |-> TRUE, eventId |-> MapIndex(map, s),
                    counterSize |-> 32]
              ELSE Nothing[s]]

(* The requests of the pass of n columns that starts at column base. *)
PassRequest(map, base, n) ==
  [s \in Slot |->
     IF s < n THEN [enabled |-> TRUE, eventId |-> MapIndex(map, base + s),
                    counterSize |-> 32]
              ELSE Nothing[s]]

(* nsx_pmu_init on the new requests; a refused version leaves the PMU as it *)
(* was, a failing backend does not.  The requests are listed and need no    *)
(* more counters than there are, so nothing else is refused.                *)
PmuInit(apiOk, w) ==
  \/ /\ apiOk
     /\ Program(Mine, w)
     /\ status' = "SUCCESS"
  \/ /\ apiOk
     /\ Disturb
     /\ status' = "INIT_FAILED"
  \/ /\ ~apiOk
     /\ Forget(Mine)
     /\ status' = "INVALID_VERSION"

PassListed(map, base, n) ==
  \A slot \in 0 .. n - 1 : MapIndex(map, base + slot) \in MapEvent

PassEvents(c, base) == Lesser(c.events_per_pass, c.total_event_count - base)

(* nsx_pmu_capture_prepare_pass for the capture c, as its caller has just   *)
(* assigned it.  It is never called with base >= total_event_count.         *)
PreparePass(c, base) ==
  LET map == c.event_map_indices
      pass_events == PassEvents(c, base)
  IN /\ current_event_base' = base
     /\ current_pass_events' = pass_events
     /\ \/ /\ PassListed(map, base, pass_events)
           /\ PmuInit(c.api, PassRequest(map, base, pass_events))
        \/ /\ ~PassListed(map, base, pass_events)
           /\ Forget(Mine)
           /\ status' = "INVALID_CONFIG"

ChunkOps(c, chunk_start) == Lesser(c.ops_per_chunk, c.total_ops - chunk_start)

(* nsx_pmu_capture_reset_chunk *)
ResetChunk(c, chunk_start) ==
  /\ current_chunk_start' = chunk_start
  /\ current_chunk_ops' = ChunkOps(c, chunk_start)
  /\ chunk_ready' = FALSE
  /\ matrix_storage' = [k \in 0 .. StorageSize - 1 |->
       IF k < ChunkOps(c, chunk_start) * c.total_event_count
         THEN 0 ELSE matrix_storage[k]]
  /\ PreparePass(c, 0)

-----------------------------------------------------------------------------
EventCount(cfg) == IF cfg.event_count = 0 THEN MapSize ELSE cfg.event_count
OpsPerChunk(cfg) ==
  IF cfg.ops_per_chunk = 0 THEN cfg.total_ops ELSE cfg.ops_per_chunk
EventsPerPass(cfg) ==
  IF cfg.events_per_pass = 0 THEN MaxPerPass ELSE cfg.events_per_pass

(* The checks made before any field is assigned. *)
InitRefused(cfg) ==
  \/ ~cfg.attached
  \/ cfg.total_ops = 0
  \/ EventCount(cfg) > MapSize
  \/ OpsPerChunk(cfg) > cfg.total_ops

(* Mutants: a pass may fill every slot with a 32-bit request; the storage   *)
(* is checked before the default of ops_per_chunk is put in.                *)
TooManyForSlots(cfg) == EventsPerPass(cfg) > 2 * MaxPerPass
TooSmallUndefaulted(cfg) ==
  cfg.matrix_storage_count < cfg.ops_per_chunk * EventCount(cfg)

(* The checks made after the fields are assigned. *)
TooManyPerPass(cfg) == EventsPerPass(cfg) > MaxPerPass
StorageTooSmall(cfg) ==
  cfg.matrix_storage_count < OpsPerChunk(cfg) * EventCount(cfg)

Installed(cfg) ==
  [api |-> cfg.api,
   attached |-> TRUE,
   event_map_indices |-> cfg.event_map_indices,
   matrix_storage_count |-> cfg.matrix_storage_count,
   total_ops |-> cfg.total_ops,
   ops_per_chunk |-> OpsPerChunk(cfg),
   total_event_count |-> EventCount(cfg),
   events_per_pass |-> EventsPerPass(cfg)]

nsx_pmu_capture_init(cfg) ==
  \/ /\ InitRefused(cfg)
     /\ status' = IF cfg.attached THEN "INVALID_CONFIG" ELSE "INVALID_HANDLE"
     /\ UNCHANGED <<captureVars, meter>>
  \/ /\ ~InitRefused(cfg)
     /\ capture' = Installed(cfg)
     /\ \/ /\ TooManyPerPass(cfg) \/ StorageTooSmall(cfg)
           /\ status' = "INVALID_CONFIG"
           /\ UNCHANGED <<progress, matrix_storage, meter>>
        \/ /\ ~TooManyPerPass(cfg) /\ ~StorageTooSmall(cfg)
           /\ complete' = FALSE
           /\ ResetChunk(Installed(cfg), 0)

nsx_pmu_capture_reset ==
  \/ /\ ~capture.attached
     /\ status' = "INVALID_HANDLE"
     /\ UNCHANGED <<captureVars, meter>>
  \/ /\ capture.attached
     /\ complete' = FALSE
     /\ UNCHANGED capture
     /\ ResetChunk(capture, 0)

(* Mutants: the last chunk is not recognised; the chunk does not move. *)
LastChunkMissed == current_chunk_start + current_chunk_ops > capture.total_ops
NextChunkStays == current_chunk_start

NextChunk == current_chunk_start + current_chunk_ops
LastChunk == NextChunk >= capture.total_ops

nsx_pmu_capture_model_end ==
  LET next_event_base == current_event_base + current_pass_events
  IN \/ /\ chunk_ready \/ complete
        /\ status' = "SUCCESS"
        /\ UNCHANGED <<captureVars, meter>>
     \/ /\ ~chunk_ready /\ ~complete
        /\ next_event_base >= capture.total_event_count
        /\ chunk_ready' = TRUE
        /\ complete' = LastChunk
        /\ status' = "SUCCESS"
        /\ UNCHANGED <<capture, current_chunk_start, current_chunk_ops,
                       current_event_base, current_pass_events,
                       matrix_storage, meter>>
     \/ /\ ~chunk_ready /\ ~complete
        /\ next_event_base < capture.total_event_count
        /\ UNCHANGED <<capture, current_chunk_start, current_chunk_ops,
                       chunk_ready, complete, matrix_storage>>
        /\ PreparePass(capture, next_event_base)

(* Mutant: the counters keep what occurred between the layers. *)
LayerBeginWithoutReset(op) == UNCHANGED <<captureVars, status, meter>>

nsx_pmu_capture_layer_begin(op) ==
  /\ IF Sampled(op) THEN Zero ELSE UNCHANGED meter
  /\ UNCHANGED <<captureVars, status>>

(* The columns of this pass get the counters' values added to them. *)
Accumulated(r, value) ==
  LET first == Offset(r, current_event_base)
  IN [k \in 0 .. StorageSize - 1 |->
        IF first <= k /\ k < first + current_pass_events
          THEN (matrix_storage[k] + value[k - first]) % Word
          ELSE matrix_storage[k]]

nsx_pmu_capture_layer_end(op) ==
  /\ IF Sampled(op) /\ ready
       THEN /\ \E value \in Readings(Mine) :
                 matrix_storage' = Accumulated(op - current_chunk_start, value)
            /\ Zero
       ELSE UNCHANGED <<matrix_storage, meter>>
  /\ UNCHANGED <<capture, progress, status>>

nsx_pmu_capture_advance_chunk ==
  \/ /\ ~chunk_ready
     /\ status' = "INVALID_CONFIG"
     /\ UNCHANGED <<captureVars, meter>>
  \/ /\ chunk_ready /\ complete
     /\ chunk_ready' = FALSE
     /\ status' = "SUCCESS"
     /\ UNCHANGED <<capture, current_chunk_start, current_chunk_ops,
                    current_event_base, current_pass_events, complete,
                    matrix_storage, meter>>
  \/ /\ chunk_ready /\ ~complete
     /\ UNCHANGED <<capture, complete>>
     /\ ResetChunk(capture, NextChunk)

(* The row an application takes from a ready chunk: nsx_pmu_capture_get_    *)
(* chunk_matrix with the event_count of nsx_pmu_capture_get_chunk_info.     *)
ChunkRow(r) ==
  [e \in 0 .. capture.total_event_count - 1 |-> matrix_storage[Offset(r, e)]]

(* The application owns a zeroed nsx_pmu_capture_t. *)
CaptureInit ==
  /\ MeterInit
  /\ capture = [api |-> FALSE, attached |-> FALSE,
                event_map_indices |-> None, matrix_storage_count |-> 0,
                total_ops |-> 0, ops_per_chunk |-> 0,
                total_event_count |-> 0, events_per_pass |-> 0]
  /\ current_chunk_start = 0 /\ current_chunk_ops = 0
  /\ current_event_base = 0 /\ current_pass_events = 0
  /\ chunk_ready = FALSE /\ complete = FALSE
  /\ matrix_storage = [k \in 0 .. StorageSize - 1 |-> 0]
  /\ status = "SUCCESS"
===============================================================================
