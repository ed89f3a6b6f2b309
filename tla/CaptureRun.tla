------------------------------ MODULE CaptureRun ------------------------------
(***************************************************************************)
(* An application that profiles its model with nsx_pmu_capture.c, one call *)
(* or one stretch of work at a time: initialise, run the model with every  *)
(* layer framed by layer_begin and layer_end, end the run, and whenever    *)
(* the chunk is ready take its rows and advance.                           *)
(*                                                                         *)
(* The model does the same work in every run (Cost), the premise of        *)
(* measuring different events in different runs.  Between layers the       *)
(* runtime works too (Overhead).  nsx_pmu_init may fail, the application   *)
(* may start over in the middle, and it lends the PMU to other users       *)
(* while it is not running the model.                                      *)
(***************************************************************************)
EXTENDS Capture, Sequences

CONSTANTS
  CaptureCfg,   \* the nsx_pmu_capture_cfg_t the application uses
  Cost(_, _),   \* Cost(op, e): occurrences of event e in operator op
  Overhead(_),  \* Overhead(e): occurrences of event e between two layers
  MaxUpsets     \* PMU failures and restarts considered (bound for TLC)

(* event_map_indices has an entry for every event column, and the           *)
(* application does not claim more storage than it owns.                    *)
ASSUME RunAssumption ==
  /\ \A cfg \in CaptureCfg :
       /\ cfg.api \in BOOLEAN /\ cfg.attached \in BOOLEAN
       /\ cfg.total_ops \in Nat /\ cfg.ops_per_chunk \in Nat
       /\ cfg.event_count \in Nat /\ cfg.events_per_pass \in Nat
       /\ cfg.matrix_storage_count \in 0 .. StorageSize
       /\ \/ cfg.event_map_indices = None
          \/ cfg.event_map_indices \in [0 .. EventCount(cfg) - 1 -> Nat]
       /\ \A n \in 0 .. cfg.total_ops - 1, e \in MapEvent : Cost(n, e) \in Nat
  /\ \A e \in MapEvent : Overhead(e) \in Nat
  /\ MaxUpsets \in Nat

VARIABLES
  pc,     \* where the application is
  op,     \* the operator the model runs
  rows,   \* the rows it has taken from ready chunks
  upsets  \* PMU failures and restarts so far

application == <<pc, op, rows, upsets>>
vars == <<captureVars, status, meter, application>>

(* A call that initialises the PMU goes on at next, or fails. *)
Then(next) ==
  /\ pc' = IF status' = "SUCCESS" THEN next ELSE "failed"
  /\ op' = 0

(* The backend fails at most MaxUpsets times. *)
Upsets(n) ==
  /\ upsets' = upsets + n + (IF status' = "INIT_FAILED" THEN 1 ELSE 0)
  /\ upsets' <= MaxUpsets

Setup(cfg) ==
  /\ pc \in {"idle", "done"}
  /\ nsx_pmu_capture_init(cfg)
  /\ rows' = <<>>
  /\ Then("layer")
  /\ Upsets(0)

(* The application abandons the run it is in and starts over. *)
Restart ==
  /\ pc \notin {"idle", "done", "failed"}
  /\ nsx_pmu_capture_reset
  /\ rows' = <<>>
  /\ Then("layer")
  /\ Upsets(1)

(* A failing backend is tried again, from the first chunk. *)
Recover ==
  /\ pc = "failed"
  /\ status = "INIT_FAILED"
  /\ nsx_pmu_capture_reset
  /\ rows' = <<>>
  /\ Then("layer")
  /\ Upsets(0)

(* A refused configuration is not. *)
GiveUp ==
  /\ pc = "failed"
  /\ status # "INIT_FAILED"
  /\ pc' = "idle"
  /\ rows' = <<>>
  /\ UNCHANGED <<captureVars, status, meter, op, upsets>>

LayerBegin ==
  /\ pc = "layer"
  /\ op < capture.total_ops
  /\ nsx_pmu_capture_layer_begin(op)
  /\ pc' = "body"
  /\ UNCHANGED <<op, rows, upsets>>

RunLayer ==
  /\ pc = "body"
  /\ Accrue([e \in MapEvent |-> Cost(op, e)])
  /\ pc' = "close"
  /\ UNCHANGED <<captureVars, status, op, rows, upsets>>

LayerEnd ==
  /\ pc = "close"
  /\ nsx_pmu_capture_layer_end(op)
  /\ pc' = "gap"
  /\ UNCHANGED <<op, rows, upsets>>

BetweenLayers ==
  /\ pc = "gap"
  /\ Accrue([e \in MapEvent |-> Overhead(e)])
  /\ pc' = "layer"
  /\ op' = op + 1
  /\ UNCHANGED <<captureVars, status, rows, upsets>>

ModelEnd ==
  /\ pc = "layer"
  /\ op = capture.total_ops
  /\ nsx_pmu_capture_model_end
  /\ Then(IF chunk_ready' THEN "ready" ELSE "layer")
  /\ Upsets(0)
  /\ UNCHANGED rows

TakeRows ==
  /\ pc = "ready"
  /\ rows' = rows \o [i \in 1 .. current_chunk_ops |-> ChunkRow(i - 1)]
  /\ pc' = "taken"
  /\ UNCHANGED <<captureVars, status, meter, op, upsets>>

Advance ==
  /\ pc = "taken"
  /\ nsx_pmu_capture_advance_chunk
  /\ Then(IF complete THEN "done" ELSE "layer")
  /\ Upsets(0)
  /\ UNCHANGED rows

(* Calls that come too early or too late are harmless: ending a run again   *)
(* while the chunk is ready, advancing before it is, resetting a capture    *)
(* that was never initialised.                                              *)
Stray ==
  /\ \/ pc \in {"ready", "taken"} /\ nsx_pmu_capture_model_end
     \/ pc = "layer" /\ nsx_pmu_capture_advance_chunk
     \/ pc = "idle" /\ ~capture.attached /\ nsx_pmu_capture_reset
  /\ UNCHANGED application

(* Somebody else initialises the PMU while the model is not running. *)
Lend(c) ==
  /\ pc \in {"idle", "ready", "taken", "failed", "done"}
  /\ Program(c, Nothing)
  /\ UNCHANGED <<captureVars, status, application>>

Init ==
  /\ CaptureInit
  /\ pc = "idle" /\ op = 0 /\ rows = <<>> /\ upsets = 0

(* What the application does as long as nothing keeps it from finishing. *)
Work ==
  \/ LayerBegin \/ RunLayer \/ LayerEnd \/ BetweenLayers
  \/ ModelEnd \/ TakeRows \/ Advance
  \/ Recover \/ GiveUp

Next ==
  \/ \E cfg \in CaptureCfg : Setup(cfg)
  \/ Work
  \/ Restart
  \/ Stray
  \/ \E c \in Config \ {Mine} : Lend(c)

Spec == Init /\ [][Next]_vars

(* The application's loop keeps running: each of its calls returns. *)
FairSpec == Spec /\ WF_vars(Work)

-----------------------------------------------------------------------------
(* The events of the capture in hand. *)
Column(e) == MapIndex(capture.event_map_indices, e)
Columns == 0 .. capture.total_event_count - 1
AllListed == \A e \in Columns : Column(e) \in MapEvent

InCapture == pc \in {"layer", "body", "close", "gap", "ready", "taken"}

ShapeOK(c) ==
  /\ c.api \in BOOLEAN /\ c.attached \in BOOLEAN
  /\ c.matrix_storage_count \in 0 .. StorageSize
  /\ c.total_ops \in Nat /\ c.ops_per_chunk \in Nat
  /\ c.total_event_count \in 0 .. MapSize /\ c.events_per_pass \in Nat
  /\ \/ c.event_map_indices = None
     \/ c.event_map_indices \in [0 .. c.total_event_count - 1 -> Nat]

ProgressOK ==
  /\ current_chunk_start \in Nat /\ current_chunk_ops \in Nat
  /\ current_event_base \in 0 .. MapSize
  /\ current_pass_events \in 0 .. MaxPerPass
  /\ chunk_ready \in BOOLEAN /\ complete \in BOOLEAN

BufferOK == matrix_storage \in [0 .. StorageSize - 1 -> 0 .. Word - 1]

MeterOK ==
  /\ ready \in BOOLEAN /\ owner \in Config \cup {None}
  /\ want \in [Slot -> Request] /\ tally \in [MapEvent -> Nat]

ApplicationOK ==
  /\ status \in {"SUCCESS", "INVALID_HANDLE", "INVALID_CONFIG",
                 "INVALID_VERSION", "INIT_FAILED"}
  /\ pc \in {"idle", "layer", "body", "close", "gap", "ready", "taken",
             "done", "failed"}
  /\ op \in Nat /\ upsets \in 0 .. MaxUpsets

TypeOK == ShapeOK(capture) /\ ProgressOK /\ BufferOK /\ MeterOK /\ ApplicationOK

(* When nsx_pmu_capture_chunk_ready is true and until the application       *)
(* advances, every cell of every row of the chunk holds the occurrences of  *)
(* its event in its operator, modulo 2^32: whatever the passes, the chunk   *)
(* sizes, earlier captures, failures and restarts left in the buffer, and   *)
(* although somebody else may use the PMU meanwhile.                        *)
ReadyRowsExact ==
  pc \in {"ready", "taken"} =>
    \A r \in 0 .. current_chunk_ops - 1, e \in Columns :
      /\ Column(e) \in MapEvent
      /\ matrix_storage[Offset(r, e)] =
           Cost(current_chunk_start + r, Column(e)) % Word

(* No call stores into the buffer beyond the matrix_storage_count words     *)
(* that nsx_pmu_capture_init was given.                                     *)
StorageRespected ==
  [][\A k \in capture'.matrix_storage_count .. StorageSize - 1 :
       matrix_storage'[k] = matrix_storage[k]]_vars

(* A capture whose events are all listed finishes, and one with an unlisted *)
(* event, which only the pass that reaches it finds, is given up.           *)
EveryCaptureEnds ==
  /\ (InCapture /\ AllListed) ~> (pc = "done")
  /\ (InCapture /\ ~AllListed) ~> (pc = "idle")

(* Why the rows are exact, part by part.  An accepted capture has storage   *)
(* for a chunk; the chunk and the pass lie within the model and the event   *)
(* columns; while the model runs the PMU is programmed for the pass; the    *)
(* tally of a sampled layer is that of the layer alone; and a cell of the   *)
(* chunk is exact once its pass has reached its operator, zero before.      *)
Running == pc \in {"layer", "body", "close", "gap"}
Accepted == InCapture \/ (pc = "failed" /\ status = "INIT_FAILED")

(* What an accepted capture's shape satisfies. *)
Fits(c) ==
  /\ c.attached
  /\ c.events_per_pass <= MaxPerPass
  /\ c.ops_per_chunk * c.total_event_count <= c.matrix_storage_count
  /\ \A n \in 0 .. c.total_ops - 1, e \in MapEvent : Cost(n, e) \in Nat

ShapeInv == Accepted => Fits(capture)

PassEnd == current_event_base + current_pass_events

ChunkInv ==
  InCapture =>
    /\ current_chunk_start + current_chunk_ops <= capture.total_ops
    /\ current_chunk_ops <= capture.ops_per_chunk
    /\ PassEnd <= capture.total_event_count
    /\ \A e \in 0 .. PassEnd - 1 : Column(e) \in MapEvent
    /\ IF Running THEN ~chunk_ready /\ ~complete
                  ELSE chunk_ready /\ PassEnd = capture.total_event_count

MeterInv ==
  Running =>
    /\ ready /\ owner = Mine
    /\ want = PassRequest(capture.event_map_indices, current_event_base,
                          current_pass_events)

LayerInv ==
  /\ Running => op <= capture.total_ops
  /\ pc \in {"body", "close", "gap"} => op < capture.total_ops
  /\ pc = "body" /\ Sampled(op) => tally = Zeros
  /\ pc = "close" /\ Sampled(op) =>
       tally = [e \in MapEvent |-> Cost(op, e)]

LayersDone == IF pc = "gap" THEN op + 1 ELSE op

Measured(r, e) ==
  \/ e < current_event_base
  \/ e < PassEnd /\ current_chunk_start + r < LayersDone

CellsInv ==
  Running =>
    \A r \in 0 .. current_chunk_ops - 1, e \in Columns :
      matrix_storage[Offset(r, e)] =
        IF Measured(r, e)
          THEN Cost(current_chunk_start + r, Column(e)) % Word
          ELSE 0

CaptureInv ==
  /\ ShapeInv /\ ChunkInv /\ MeterInv /\ LayerInv /\ CellsInv
  /\ ReadyRowsExact

(* The jobs the application may have in hand, and None when it has none.    *)
JobOf(cfg) ==
  [ops |-> cfg.total_ops,
   columns |-> [e \in 0 .. EventCount(cfg) - 1 |->
                  MapIndex(cfg.event_map_indices, e)]]

Jobs == {JobOf(cfg) : cfg \in CaptureCfg}

ASSUME JobAssumption == None \notin Jobs

JobInHand ==
  IF InCapture \/ pc = "done"
    THEN [ops |-> capture.total_ops, columns |-> [e \in Columns |-> Column(e)]]
    ELSE None

Received == IF pc = "failed" THEN <<>> ELSE rows

ExactCell(n, e) == Cost(n, e) % Word

(* The application receives one exact row per operator, in order, whatever  *)
(* the chunk size and the number of events per pass: CaptureSpec.           *)
Delivery == INSTANCE CaptureSpec WITH
  Job   <- Jobs,
  NoJob <- None,
  Cell  <- ExactCell,
  job   <- JobInHand,
  rows  <- Received

DeliversRows == Delivery!Spec
===============================================================================
