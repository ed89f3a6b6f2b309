---------------------------- MODULE DeliveryProofs ----------------------------
(***************************************************************************)
(* The capture implements CaptureSpec: each job's rows arrive once, in     *)
(* order and exact.  CaptureProofs shows what a ready chunk holds; here is *)
(* where the chunk lies among the rows already taken.                      *)
(***************************************************************************)
EXTENDS CaptureProofs, SequenceTheorems

(* The capture in hand is one that nsx_pmu_capture_init installed; the      *)
(* chunk starts behind the rows already taken, and has one more at least.   *)
JobInv ==
  Accepted =>
    \E cfg \in CaptureCfg : capture = Installed(cfg) /\ ~InitRefused(cfg)

RowsTaken == IF pc = "taken" THEN NextChunk ELSE current_chunk_start

TakenInv ==
  /\ InCapture =>
       /\ rows \in Seq([Columns -> 0 .. Word - 1])
       /\ Len(rows) = RowsTaken
       /\ current_chunk_ops > 0
  /\ pc \in {"ready", "taken"} => complete = LastChunk
  /\ pc = "idle" => rows = <<>>

DeliveryInv == JobInv /\ TakenInv

-----------------------------------------------------------------------------
(* An installed capture is one of the application's jobs. *)
LEMMA InstalledJob ==
  ASSUME NEW cfg \in CaptureCfg, NEW c, c = Installed(cfg)
  PROVE  [ops |-> c.total_ops,
          columns |-> [e \in 0 .. c.total_event_count - 1 |->
                         MapIndex(c.event_map_indices, e)]] \in Jobs
  <1>1. /\ c.total_ops = cfg.total_ops
        /\ c.total_event_count = EventCount(cfg)
        /\ c.event_map_indices = cfg.event_map_indices
    BY DEF Installed
  <1> QED BY <1>1 DEF JobOf, Jobs

(* A chunk that starts before the end of the model has an operator. *)
LEMMA ChunkNotEmpty ==
  ASSUME NEW cfg \in CaptureCfg, ~InitRefused(cfg),
         NEW start \in Nat, start < Installed(cfg).total_ops
  PROVE  ChunkOps(Installed(cfg), start) > 0
  <1>1. /\ cfg.total_ops \in Nat /\ cfg.ops_per_chunk \in Nat
        /\ Installed(cfg).total_ops = cfg.total_ops
        /\ Installed(cfg).ops_per_chunk = OpsPerChunk(cfg)
    BY RunAssumption DEF Installed
  <1>2. OpsPerChunk(cfg) \in Nat /\ OpsPerChunk(cfg) > 0
    BY <1>1 DEF OpsPerChunk, InitRefused
  <1> QED BY <1>1, <1>2 DEF ChunkOps, Lesser

LEMMA NoRows == <<>> \in Seq([Columns -> 0 .. Word - 1]) /\ Len(<<>>) = 0
  OBVIOUS

-----------------------------------------------------------------------------
(* The steps keep the invariant and map to steps of CaptureSpec. *)

DeliveryStep == Delivery!Next \/ UNCHANGED <<JobInHand, Received>>

(* Giving up a job, whether there was one or not. *)
LEMMA AbandonStep ==
  ASSUME pc' = "failed"
  PROVE  DeliveryStep
  <1>1. JobInHand' = None /\ Received' = <<>>
    BY DEF JobInHand, Received, InCapture
  <1> QED BY <1>1 DEF DeliveryStep, Delivery!Next, Delivery!Abandon

(* A capture begins: the common end of Setup, Restart and Recover. *)
LEMMA JobStarted ==
  ASSUME TypeOK', NEW cfg \in CaptureCfg, ~InitRefused(cfg),
         capture' = Installed(cfg), ResetChunk(Installed(cfg), 0),
         rows' = <<>>, Then("layer")
  PROVE  DeliveryInv' /\ DeliveryStep
  <1>1. /\ current_chunk_start' = 0
        /\ current_chunk_ops' = ChunkOps(Installed(cfg), 0)
    BY DEF ResetChunk
  <1>2. JobInv'
    BY DEF JobInv
  <1>3. CASE pc' = "failed"
    <2>1. TakenInv'
      BY <1>3 DEF TakenInv, InCapture
    <2> QED BY <1>2, <1>3, <2>1, AbandonStep DEF DeliveryInv
  <1>4. CASE pc' = "layer"
    <2>1. ChunkOps(Installed(cfg), 0) > 0
      <3>1. Installed(cfg).total_ops \in Nat /\ 0 < Installed(cfg).total_ops
        BY RunAssumption DEF Installed, InitRefused
      <3> QED BY <3>1, ChunkNotEmpty
    <2>2. TakenInv'
      BY <1>1, <1>4, <2>1, NoRows DEF TakenInv, InCapture, RowsTaken
    <2>3. JobInHand' \in Jobs /\ Received' = <<>>
      BY <1>4, InstalledJob DEF JobInHand, Received, InCapture, Columns, Column
    <2>4. Delivery!Next
      BY <2>3 DEF Delivery!Next, Delivery!Begin
    <2> QED BY <1>2, <2>2, <2>4 DEF DeliveryInv, DeliveryStep
  <1> QED BY <1>3, <1>4 DEF Then

(* A step that neither takes rows nor moves the chunk nor ends the capture. *)
LEMMA SameRows ==
  ASSUME DeliveryInv, InCapture, InCapture', pc # "taken", pc' # "taken",
         UNCHANGED <<capture, current_chunk_start, current_chunk_ops, rows>>,
         pc' = "ready" => complete' = LastChunk'
  PROVE  DeliveryInv' /\ DeliveryStep
  <1>1. JobInv'
    BY DEF DeliveryInv, JobInv, Accepted
  <1>2. TakenInv'
    BY DEF DeliveryInv, TakenInv, RowsTaken, Columns, InCapture
  <1>3. UNCHANGED <<JobInHand, Received>>
    BY DEF JobInHand, Received, Columns, Column, InCapture
  <1> QED BY <1>1, <1>2, <1>3 DEF DeliveryInv, DeliveryStep

(* A step that leaves the capture alone, or only fails otherwise. *)
LEMMA Untaken ==
  ASSUME DeliveryInv, UNCHANGED <<captureVars, pc, rows>>,
         status' = status \/ pc # "failed"
  PROVE  DeliveryInv' /\ DeliveryStep
  <1>1. UNCHANGED <<capture, current_chunk_start, current_chunk_ops, complete>>
    BY DEF captureVars, progress
  <1>2. JobInv'
    BY <1>1 DEF DeliveryInv, JobInv, Accepted, InCapture
  <1>3. UNCHANGED <<InCapture, Columns, RowsTaken, LastChunk>>
    BY <1>1 DEF InCapture, Columns, RowsTaken, NextChunk, LastChunk
  <1>4. TakenInv'
    BY <1>1, <1>3 DEF DeliveryInv, TakenInv
  <1>5. UNCHANGED <<JobInHand, Received>>
    BY <1>1, <1>3 DEF JobInHand, Received, Column
  <1> QED BY <1>2, <1>4, <1>5 DEF DeliveryInv, DeliveryStep

LEMMA SetupDelivers ==
  ASSUME TypeOK', DeliveryInv, NEW cfg \in CaptureCfg, Setup(cfg)
  PROVE  DeliveryInv' /\ DeliveryStep
  <1>1. rows' = <<>> /\ Then("layer")
    BY DEF Setup
  <1>2. CASE status' \in {"INVALID_CONFIG", "INVALID_HANDLE"}
    <2>1. pc' = "failed"
      BY <1>1, <1>2 DEF Then
    <2>2. DeliveryInv'
      BY <1>2, <2>1 DEF DeliveryInv, JobInv, TakenInv, InCapture, Accepted
    <2> QED BY <2>1, <2>2, AbandonStep
  <1>3. CASE /\ ~InitRefused(cfg)
             /\ capture' = Installed(cfg)
             /\ ResetChunk(Installed(cfg), 0)
    BY <1>1, <1>3, JobStarted
  <1> QED BY <1>2, <1>3 DEF Setup, nsx_pmu_capture_init

LEMMA ResetDelivers ==
  ASSUME TypeOK, TypeOK', CaptureInv, DeliveryInv, Restart \/ Recover
  PROVE  DeliveryInv' /\ DeliveryStep
  <1>1. Accepted
    BY DEF Restart, Recover, Accepted, InCapture, TypeOK, ApplicationOK
  <1>2. PICK cfg \in CaptureCfg : capture = Installed(cfg) /\ ~InitRefused(cfg)
    BY <1>1 DEF DeliveryInv, JobInv
  <1>3. capture' = capture /\ ResetChunk(capture, 0)
    <2>1. capture.attached
      BY <1>1 DEF CaptureInv, ShapeInv, Fits
    <2> QED BY <2>1 DEF Restart, Recover, nsx_pmu_capture_reset
  <1>4. rows' = <<>> /\ Then("layer")
    BY DEF Restart, Recover
  <1> QED BY <1>2, <1>3, <1>4, JobStarted

LEMMA GiveUpDelivers ==
  ASSUME DeliveryInv, GiveUp
  PROVE  DeliveryInv' /\ DeliveryStep
  <1>1. DeliveryInv'
    BY DEF GiveUp, DeliveryInv, JobInv, TakenInv, InCapture, Accepted
  <1>2. UNCHANGED <<JobInHand, Received>>
    BY DEF GiveUp, JobInHand, Received, InCapture
  <1> QED BY <1>1, <1>2 DEF DeliveryStep

LEMMA LayerDelivers ==
  ASSUME DeliveryInv, LayerBegin \/ RunLayer \/ LayerEnd \/ BetweenLayers
  PROVE  DeliveryInv' /\ DeliveryStep
  <1>1. /\ InCapture /\ InCapture' /\ pc # "taken" /\ pc' # "taken"
        /\ pc' # "ready"
    BY DEF LayerBegin, RunLayer, LayerEnd, BetweenLayers, InCapture
  <1>2. UNCHANGED <<capture, current_chunk_start, current_chunk_ops, rows>>
    BY DEF LayerBegin, RunLayer, LayerEnd, BetweenLayers, captureVars, progress,
           nsx_pmu_capture_layer_begin, nsx_pmu_capture_layer_end
  <1> QED BY <1>1, <1>2, SameRows

LEMMA ModelEndDelivers ==
  ASSUME TypeOK', CaptureInv, DeliveryInv, ModelEnd
  PROVE  DeliveryInv' /\ DeliveryStep
  <1>1. /\ pc = "layer" /\ InCapture /\ rows' = rows
        /\ nsx_pmu_capture_model_end
        /\ Then(IF chunk_ready' THEN "ready" ELSE "layer")
    BY DEF ModelEnd, InCapture
  <1>2. ~chunk_ready /\ ~complete
    BY <1>1 DEF CaptureInv, ChunkInv, Running
  <1>3. /\ UNCHANGED <<capture, current_chunk_start, current_chunk_ops>>
        /\ chunk_ready' => complete' = LastChunk
    BY <1>1, <1>2 DEF nsx_pmu_capture_model_end
  <1>4. CASE pc' = "failed"
    <2>1. DeliveryInv'
      BY <1>1, <1>3, <1>4
         DEF DeliveryInv, JobInv, TakenInv, InCapture, Accepted
    <2> QED BY <1>4, <2>1, AbandonStep
  <1>5. CASE pc' = "layer" \/ (pc' = "ready" /\ chunk_ready')
    <2>1. InCapture'
      BY <1>5 DEF InCapture
    <2>2. LastChunk' = LastChunk
      BY <1>3 DEF LastChunk, NextChunk
    <2>3. pc' = "ready" => complete' = LastChunk'
      BY <1>3, <1>5, <2>2
    <2>4. pc # "taken" /\ pc' # "taken"
      BY <1>1, <1>5
    <2> QED BY <1>1, <1>3, <2>1, <2>3, <2>4, SameRows
  <1>6. \/ pc' = "failed"
        \/ pc' = "ready" /\ chunk_ready'
        \/ pc' = "layer"
    <2>1. CASE chunk_ready'
      BY <1>1, <2>1 DEF Then
    <2>2. CASE ~chunk_ready'
      BY <1>1, <2>2 DEF Then
    <2> QED BY <2>1, <2>2
  <1> QED BY <1>4, <1>5, <1>6

(* Taking the rows of a ready chunk is the delivery of CaptureSpec. *)
LEMMA TakeRowsDelivers ==
  ASSUME TypeOK, CaptureInv, DeliveryInv, TakeRows
  PROVE  DeliveryInv' /\ DeliveryStep
  <1> DEFINE n == current_chunk_ops
             start == current_chunk_start
             new == [i \in 1 .. n |-> ChunkRow(i - 1)]
             S == [Columns -> 0 .. Word - 1]
  <1>1. /\ pc = "ready" /\ pc' = "taken" /\ rows' = rows \o new
        /\ UNCHANGED <<captureVars, status>>
    BY DEF TakeRows
  <1>2. InCapture /\ InCapture'
    BY <1>1 DEF InCapture
  <1>3. /\ capture' = capture /\ current_chunk_start' = start
        /\ current_chunk_ops' = n /\ complete' = complete
    BY <1>1 DEF captureVars, progress
  <1>4. /\ rows \in Seq(S) /\ Len(rows) = start /\ n > 0
        /\ n \in Nat /\ start \in Nat /\ complete = LastChunk
    BY <1>1, <1>2
       DEF DeliveryInv, TakenInv, RowsTaken, TypeOK, ProgressOK
  <1>5. start + n <= capture.total_ops /\ capture.total_ops \in Nat
    BY <1>2 DEF CaptureInv, ChunkInv, TypeOK, ShapeOK
  <1>6. ASSUME NEW r \in 0 .. n - 1
        PROVE  /\ ChunkRow(r) \in S
               /\ ChunkRow(r) = [e \in Columns |->
                                   Cost(start + r, Column(e)) % Word]
    <2>1. ASSUME NEW e \in Columns
          PROVE  /\ matrix_storage[Offset(r, e)] =
                       Cost(start + r, Column(e)) % Word
                 /\ Cost(start + r, Column(e)) % Word \in 0 .. Word - 1
      <3>1. /\ Column(e) \in MapEvent
            /\ matrix_storage[Offset(r, e)] =
                 Cost(start + r, Column(e)) % Word
        BY <1>1 DEF CaptureInv, ReadyRowsExact
      <3>2. start + r \in 0 .. capture.total_ops - 1
        BY <1>4, <1>5
      <3>3. Cost(start + r, Column(e)) \in Nat
        BY <1>2, <3>1, <3>2
           DEF CaptureInv, ShapeInv, Accepted, Fits
      <3> QED BY <3>1, <3>3, WordType, Remainder
    <2> QED BY <2>1 DEF ChunkRow, Columns
  <1>7. new \in Seq(S) /\ Len(new) = n
    <2>1. \A i \in 1 .. n : i - 1 \in 0 .. n - 1
      BY <1>4
    <2>2. \A i \in 1 .. n : ChunkRow(i - 1) \in S
      BY <1>6, <2>1
    <2>3. new \in [1 .. n -> S]
      BY <2>2
    <2> HIDE DEF S, n, new
    <2> QED BY <1>4, <2>3
  <1>8. rows' \in Seq(S) /\ Len(rows') = start + n
    <2>1. rows \o new \in Seq(S) /\ Len(rows \o new) = Len(rows) + Len(new)
      <3> HIDE DEF S, new
      <3> QED BY <1>4, <1>7, ConcatProperties
    <2> HIDE DEF S, new, n, start
    <2> QED BY <1>1, <1>4, <1>7, <2>1
  <1>9. DeliveryInv'
    <2>1. JobInv'
      BY <1>2, <1>3 DEF DeliveryInv, JobInv, Accepted
    <2>2. Columns' = Columns /\ NextChunk' = start + n /\ LastChunk' = LastChunk
      BY <1>3 DEF Columns, NextChunk, LastChunk
    <2>3. TakenInv'
      BY <1>1, <1>3, <1>4, <1>8, <2>2 DEF TakenInv, RowsTaken
    <2> QED BY <2>1, <2>3 DEF DeliveryInv
  <1>10. Delivery!Deliver
    <2>1. /\ JobInHand = [ops |-> capture.total_ops,
                          columns |-> [e \in Columns |-> Column(e)]]
          /\ JobInHand' = JobInHand
      BY <1>2, <1>3 DEF JobInHand, Columns, Column
    <2>2. JobInHand # None
      <3>1. PICK cfg \in CaptureCfg : capture = Installed(cfg)
        BY <1>2 DEF DeliveryInv, JobInv, Accepted
      <3>2. JobInHand \in Jobs
        BY <2>1, <3>1, InstalledJob DEF Columns, Column
      <3> QED BY <3>2, JobAssumption
    <2>3. Received = rows /\ Received' = rows'
      BY <1>1 DEF Received
    <2>4. ASSUME NEW i \in 1 .. n
          PROVE  new[i] = Delivery!Row(start + i - 1)
      <3>1. new[i] = [e \in Columns |->
                        Cost(start + (i - 1), Column(e)) % Word]
        BY <1>4, <1>6
      <3>2. start + (i - 1) = start + i - 1
        BY <1>4
      <3> QED BY <2>1, <3>1, <3>2 DEF Delivery!Row, ExactCell
    <2>5. start + n \in Len(rows) + 1 .. JobInHand.ops
      BY <1>4, <1>5, <2>1
    <2>6. new = [i \in 1 .. (start + n) - Len(rows) |->
                   Delivery!Row(Len(rows) + i - 1)]
      <3>1. (start + n) - Len(rows) = n
        BY <1>4
      <3> QED BY <1>4, <2>4, <3>1
    <2> QED BY <1>1, <2>1, <2>2, <2>3, <2>5, <2>6 DEF Delivery!Deliver
  <1> QED BY <1>9, <1>10 DEF DeliveryStep, Delivery!Next

LEMMA AdvanceDelivers ==
  ASSUME TypeOK, TypeOK', CaptureInv, DeliveryInv, Advance
  PROVE  DeliveryInv' /\ DeliveryStep
  <1>1. /\ pc = "taken" /\ InCapture /\ rows' = rows
        /\ nsx_pmu_capture_advance_chunk
        /\ Then(IF complete THEN "done" ELSE "layer")
    BY DEF Advance, InCapture
  <1>2. chunk_ready /\ complete = LastChunk /\ Accepted
    BY <1>1 DEF CaptureInv, ChunkInv, Running, DeliveryInv, TakenInv, Accepted
  <1>3. capture' = capture
    BY <1>1 DEF nsx_pmu_capture_advance_chunk, captureVars
  <1>4. JobInv'
    BY <1>2, <1>3 DEF DeliveryInv, JobInv
  <1>5. CASE pc' = "failed"
    <2>1. TakenInv'
      BY <1>5 DEF TakenInv, InCapture
    <2> QED BY <1>4, <1>5, <2>1, AbandonStep DEF DeliveryInv
  <1>6. CASE pc' = "done"
    <2>1. TakenInv'
      BY <1>6 DEF TakenInv, InCapture
    <2>2. UNCHANGED <<JobInHand, Received>>
      BY <1>1, <1>3, <1>6
         DEF JobInHand, Received, InCapture, Columns, Column
    <2> QED BY <1>4, <2>1, <2>2 DEF DeliveryInv, DeliveryStep
  <1>7. CASE pc' = "layer" /\ ~complete
    <2>1. ResetChunk(capture, NextChunk)
      BY <1>1, <1>2, <1>7 DEF nsx_pmu_capture_advance_chunk
    <2>2. /\ current_chunk_start' = NextChunk
          /\ current_chunk_ops' = ChunkOps(capture, NextChunk)
      BY <2>1 DEF ResetChunk
    <2>3. NextChunk \in Nat /\ capture.total_ops \in Nat
      BY DEF NextChunk, TypeOK, ProgressOK, ShapeOK
    <2>4. NextChunk < capture.total_ops
      <3>1. ~LastChunk
        BY <1>2, <1>7
      <3> QED BY <2>3, <3>1 DEF LastChunk
    <2>5. ChunkOps(capture, NextChunk) > 0
      <3>1. PICK cfg \in CaptureCfg :
              capture = Installed(cfg) /\ ~InitRefused(cfg)
        BY <1>2 DEF DeliveryInv, JobInv
      <3> QED BY <2>3, <2>4, <3>1, ChunkNotEmpty
    <2>6. /\ rows \in Seq([Columns -> 0 .. Word - 1])
          /\ Len(rows) = NextChunk
      BY <1>1 DEF DeliveryInv, TakenInv, RowsTaken
    <2>7. InCapture' /\ Columns' = Columns
      BY <1>3, <1>7 DEF InCapture, Columns
    <2>8. TakenInv'
      BY <1>1, <1>7, <2>2, <2>5, <2>6, <2>7 DEF TakenInv, RowsTaken
    <2>9. UNCHANGED <<JobInHand, Received>>
      BY <1>1, <1>3, <1>7, <2>7
         DEF JobInHand, Received, InCapture, Columns, Column
    <2> QED BY <1>4, <2>8, <2>9 DEF DeliveryInv, DeliveryStep
  <1>8. \/ pc' = "failed"
        \/ pc' = "done"
        \/ pc' = "layer" /\ ~complete
    <2>1. CASE complete
      BY <1>1, <2>1 DEF Then
    <2>2. CASE ~complete
      BY <1>1, <2>2 DEF Then
    <2> QED BY <2>1, <2>2
  <1> QED BY <1>5, <1>6, <1>7, <1>8

LEMMA StrayDelivers ==
  ASSUME TypeOK, CaptureInv, DeliveryInv, Stray
  PROVE  DeliveryInv' /\ DeliveryStep
  <1>1. UNCHANGED <<pc, op, rows, upsets>>
    BY DEF Stray, application
  <1>2. UNCHANGED captureVars /\ (status' = status \/ pc # "failed")
    <2>1. CASE pc \in {"ready", "taken"} /\ nsx_pmu_capture_model_end
      <3>1. chunk_ready
        BY <2>1 DEF CaptureInv, ChunkInv, InCapture, Running
      <3> QED BY <2>1, <3>1 DEF nsx_pmu_capture_model_end
    <2>2. CASE pc = "layer" /\ nsx_pmu_capture_advance_chunk
      <3>1. ~chunk_ready
        BY <2>2 DEF CaptureInv, ChunkInv, InCapture, Running
      <3> QED BY <2>2, <3>1 DEF nsx_pmu_capture_advance_chunk
    <2>3. CASE pc = "idle" /\ ~capture.attached /\ nsx_pmu_capture_reset
      BY <2>3 DEF nsx_pmu_capture_reset
    <2> QED BY <2>1, <2>2, <2>3 DEF Stray
  <1> QED BY <1>1, <1>2, Untaken

LEMMA InitDelivers == Init => DeliveryInv /\ Delivery!Init
  BY DEF Init, DeliveryInv, JobInv, TakenInv, Accepted, InCapture,
         Delivery!Init, JobInHand, Received

LEMMA NextDelivers ==
  TypeOK /\ CaptureInv /\ DeliveryInv /\ TypeOK' /\ [Next]_vars =>
    DeliveryInv' /\ DeliveryStep
  <1> SUFFICES ASSUME TypeOK, CaptureInv, DeliveryInv, TypeOK', [Next]_vars
               PROVE  DeliveryInv' /\ DeliveryStep
    OBVIOUS
  <1>1. ASSUME NEW cfg \in CaptureCfg, Setup(cfg)
        PROVE  DeliveryInv' /\ DeliveryStep
    BY <1>1, SetupDelivers
  <1>2. CASE Work
    BY <1>2, LayerDelivers, ModelEndDelivers, TakeRowsDelivers,
       AdvanceDelivers, ResetDelivers, GiveUpDelivers DEF Work
  <1>3. CASE Restart
    BY <1>3, ResetDelivers
  <1>4. CASE Stray
    BY <1>4, StrayDelivers
  <1>5. CASE (\E c \in Config \ {Mine} : Lend(c)) \/ UNCHANGED vars
    BY <1>5, Untaken DEF Lend, vars, application
  <1> QED BY <1>1, <1>2, <1>3, <1>4, <1>5 DEF Next

LEMMA DeliveryInductive == Spec => [](TypeOK /\ CaptureInv /\ DeliveryInv)
  <1>1. Init => TypeOK /\ CaptureInv /\ DeliveryInv
    BY InitInv, InitDelivers
  <1>2. TypeOK /\ CaptureInv /\ DeliveryInv /\ [Next]_vars
          => (TypeOK /\ CaptureInv /\ DeliveryInv)'
    BY NextInv, NextDelivers
  <1> QED BY <1>1, <1>2, PTL DEF Spec

(* An application receives one exact row per operator, in order and never   *)
(* twice, whatever the sizes of map, chunk and pass, however often the PMU  *)
(* fails, the run is restarted or a call comes too early: the chunks and    *)
(* passes of nsx_pmu_capture.c implement CaptureSpec.                       *)
THEOREM RowsDelivered == Spec => DeliversRows
  <1>1. Init => Delivery!Init
    BY InitDelivers
  <1>2. TypeOK /\ CaptureInv /\ DeliveryInv /\ TypeOK' /\ [Next]_vars
          => [Delivery!Next]_<<JobInHand, Received>>
    BY NextDelivers DEF DeliveryStep
  <1> QED BY <1>1, <1>2, DeliveryInductive, PTL
          DEF Spec, DeliversRows, Delivery!Spec
===============================================================================
