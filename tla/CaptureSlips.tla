----------------------------- MODULE CaptureSlips -----------------------------
(***************************************************************************)
(* The application of CaptureRun when it is careless.  nsx_pmu_capture.c   *)
(* does not know whether a model run is the one it prepared: layer_end     *)
(* adds whatever it reads to the columns of the pass, model_end moves on   *)
(* from whatever pass the capture is in.  An application may run the model *)
(* when no run is due, go on after a call has failed, call model_end again *)
(* to retry a failed one, or lend the PMU in the middle of a run.          *)
(*                                                                         *)
(* Each slip spoils the columns of the pass the capture is in, until the   *)
(* chunk begins again or another begins; the question is whether it spoils *)
(* anything else.                                                          *)
(***************************************************************************)
EXTENDS CaptureRun

CONSTANT MaxSlips  \* slips considered (bound for TLC)

(* No configuration is refused by nsx_pmu_capture_init before it prepares a *)
(* pass; an event may be unlisted.                                          *)
ASSUME SlipsAssumption ==
  /\ MaxSlips \in Nat
  /\ \A cfg \in CaptureCfg :
       /\ cfg.api
       /\ ~InitRefused(cfg) /\ ~TooManyPerPass(cfg) /\ ~StorageTooSmall(cfg)

VARIABLES
  slips,   \* slips so far
  spoiled  \* the columns of the chunk that they have spoiled

slipVars == <<vars, slips, spoiled>>

PassColumns == current_event_base .. PassEnd - 1

Slip ==
  /\ slips < MaxSlips
  /\ slips' = slips + 1
  /\ spoiled' = spoiled \cup PassColumns

(* The model is run from its first operator although the run in hand is not *)
(* finished, or has not been ended, or the chunk is ready, or the pass of   *)
(* the run could not be prepared.                                           *)
RunAnyway ==
  /\ pc \notin {"idle", "done"}
  /\ Slip
  /\ pc' = "layer" /\ op' = 0
  /\ UNCHANGED <<captureVars, status, meter, rows, upsets>>

(* The call that failed, or the run that could not begin, is answered by    *)
(* nsx_pmu_capture_model_end: it moves on to the next pass.                 *)
Retry ==
  /\ pc = "failed"
  /\ Slip
  /\ nsx_pmu_capture_model_end
  /\ Then(IF chunk_ready' THEN "ready" ELSE "layer")
  /\ Upsets(0)
  /\ UNCHANGED rows

(* Somebody else initialises the PMU while the model is running. *)
LendMidRun(c) ==
  /\ Running
  /\ Slip
  /\ Program(c, Nothing)
  /\ UNCHANGED <<captureVars, status, application>>

(* What the application does otherwise; a chunk that begins is not spoiled. *)
(* It does not advance while it runs the model.                             *)
Proceed ==
  /\ \/ (Recover \/ Advance) /\ spoiled' = {}
     \/ /\ LayerBegin \/ RunLayer \/ LayerEnd \/ BetweenLayers
           \/ ModelEnd \/ TakeRows \/ GiveUp
        /\ UNCHANGED spoiled
  /\ UNCHANGED slips

Otherwise ==
  /\ \/ ((\E cfg \in CaptureCfg : Setup(cfg)) \/ Restart) /\ spoiled' = {}
     \/ Stray /\ ~(pc = "layer" /\ chunk_ready) /\ UNCHANGED spoiled
     \/ (\E c \in Config \ {Mine} : Lend(c)) /\ UNCHANGED spoiled
  /\ UNCHANGED slips

Careless ==
  \/ RunAnyway
  \/ Retry
  \/ \E c \in Config \ {Mine} : LendMidRun(c)

SlipInit == Init /\ slips = 0 /\ spoiled = {}

SlipNext == Proceed \/ Otherwise \/ Careless

SlipSpec == SlipInit /\ [][SlipNext]_slipVars

(* Its loop keeps running, whatever it has done wrong. *)
SlipFairSpec == SlipSpec /\ WF_slipVars(Proceed)

-----------------------------------------------------------------------------
(* What a slip spoils is confined to the pass in which it happens: in every *)
(* row that the application finds, a column that no slip has touched is a   *)
(* listed event and holds its exact count, whatever else was run, retried   *)
(* or interrupted in the chunk.                                             *)
TrustedColumnsExact ==
  pc \in {"ready", "taken"} =>
    \A r \in 0 .. current_chunk_ops - 1, e \in Columns \ spoiled :
      /\ Column(e) \in MapEvent
      /\ matrix_storage[Offset(r, e)] =
           Cost(current_chunk_start + r, Column(e)) % Word

(* No slip keeps a capture from ending: the application comes to the last   *)
(* chunk, or gives the capture up.                                          *)
SlipsEnd == InCapture ~> pc \in {"done", "idle"}
===============================================================================
