----------------------------- MODULE SlipsProofs -----------------------------
(***************************************************************************)
(* What a careless application can and cannot spoil (CaptureSlips), for    *)
(* every number of slips.  While the model runs, the chunk may be ready,   *)
(* the PMU may be somebody else's and the run may be another than the one  *)
(* that was prepared; then every column of the pass is spoiled, and the    *)
(* invariant says nothing of them.                                         *)
(***************************************************************************)
EXTENDS CaptureSlips, CaptureProofs

(* The capture is one that nsx_pmu_capture_init accepted, its chunk and its *)
(* pass lie within it, and the layers within the model, whatever the        *)
(* application does.                                                        *)
InHand == pc \notin {"idle", "done"}

LayerPlace ==
  /\ Running => op <= capture.total_ops
  /\ pc \in {"body", "close", "gap"} => op < capture.total_ops

PlaceInv ==
  /\ InHand => capture.attached
  /\ capture.attached => Fits(capture)
  /\ current_chunk_start + current_chunk_ops <= capture.total_ops
  /\ current_chunk_ops <= capture.ops_per_chunk
  /\ PassEnd <= capture.total_event_count
  /\ chunk_ready => PassEnd = capture.total_event_count
  /\ pc \in {"ready", "taken"} => chunk_ready
  /\ LayerPlace

(* While a pass has a column that is not spoiled, the run is the one that   *)
(* was prepared for it.                                                     *)
Trusted == Running /\ PassColumns \ spoiled # {}

PassInv ==
  Trusted =>
    /\ ~chunk_ready /\ ~complete
    /\ ready /\ owner = Mine
    /\ want = PassRequest(capture.event_map_indices, current_event_base,
                          current_pass_events)
    /\ \A e \in PassColumns : Column(e) \in MapEvent
    /\ pc = "body" /\ Sampled(op) => tally = Zeros
    /\ pc = "close" /\ Sampled(op) =>
         tally = [e \in MapEvent |-> Cost(op, e)]

(* A column that is not spoiled: exact when its pass is over, as far as the *)
(* run has come in its pass, zero before.                                   *)
Cell(r, e) == matrix_storage[Offset(r, e)]
Due(r, e) == Cost(current_chunk_start + r, Column(e)) % Word

CellInv(r, e) ==
  /\ e < current_event_base => Column(e) \in MapEvent /\ Cell(r, e) = Due(r, e)
  /\ e >= PassEnd => Cell(r, e) = 0
  /\ Running /\ e \in PassColumns =>
       Cell(r, e) = IF current_chunk_start + r < LayersDone THEN Due(r, e) ELSE 0

UnspoiledInv ==
  InHand => \A r \in 0 .. current_chunk_ops - 1, e \in Columns \ spoiled :
              CellInv(r, e)

SlipInv == TypeOK /\ PlaceInv /\ PassInv /\ UnspoiledInv /\ TrustedColumnsExact

-----------------------------------------------------------------------------
LEMMA Places ==
  ASSUME TypeOK, PlaceInv
  PROVE  /\ current_chunk_start \in Nat /\ current_chunk_ops \in Nat
         /\ current_event_base \in Nat /\ current_pass_events \in Nat
         /\ current_pass_events <= MaxPerPass /\ MaxPerPass \in Nat
         /\ PassEnd = current_event_base + current_pass_events
         /\ PassEnd \in Nat /\ op \in Nat
         /\ ShapeOK(capture) /\ capture.total_event_count \in Nat
         /\ PassEnd <= capture.total_event_count
         /\ capture.total_ops \in Nat /\ capture.ops_per_chunk \in Nat
         /\ PassColumns = current_event_base .. PassEnd - 1
         /\ Columns = 0 .. capture.total_event_count - 1
         /\ capture.matrix_storage_count \in 0 .. StorageSize
         /\ StorageSize \in Nat
         /\ InHand => capture.attached /\ Fits(capture)
  <1>1. /\ current_chunk_start \in Nat /\ current_chunk_ops \in Nat
        /\ current_event_base \in Nat /\ current_pass_events \in Nat
        /\ current_pass_events <= MaxPerPass /\ MaxPerPass \in Nat
    BY CaptureAssumption DEF TypeOK, ProgressOK
  <1>2. PassEnd = current_event_base + current_pass_events /\ PassEnd \in Nat
    BY <1>1 DEF PassEnd
  <1>3. /\ ShapeOK(capture) /\ capture.total_event_count \in Nat
        /\ capture.total_ops \in Nat /\ capture.ops_per_chunk \in Nat
        /\ capture.matrix_storage_count \in 0 .. StorageSize
        /\ StorageSize \in Nat
    BY CaptureAssumption DEF TypeOK, ShapeOK
  <1> QED BY <1>1, <1>2, <1>3
          DEF PlaceInv, TypeOK, ApplicationOK, PassColumns, Columns

(* A chunk begins: the common end of Setup, Restart, Recover and Advance.   *)
LEMMA BegunAgain ==
  ASSUME TypeOK, NEW c, ShapeOK(c), Fits(c), NEW start \in 0 .. c.total_ops,
         capture' = c, complete' = FALSE, ResetChunk(c, start),
         Then("layer"), upsets' \in 0 .. MaxUpsets
  PROVE  SlipInv'
  <1> DEFINE n == PassEvents(c, 0)
             E == c.total_event_count
             len == ChunkOps(c, start)
  <1>1. TypeOK' /\ CaptureInv'
    BY ChunkStarted
  <1>2. \A r \in 0 .. current_chunk_ops' - 1, e \in 0 .. E - 1 :
          matrix_storage'[r * E + e] = 0
    BY ChunkReset
  <1>3. /\ current_chunk_start' = start /\ current_chunk_ops' = len
        /\ chunk_ready' = FALSE /\ PreparePass(c, 0)
    BY DEF ResetChunk
  <1>4. MeterOK /\ c.events_per_pass <= MaxPerPass /\ 0 \in 0 .. E /\ E \in Nat
    BY DEF TypeOK, Fits, ShapeOK
  <1>5. current_event_base' = 0 /\ current_pass_events' = n
    BY <1>3, <1>4, PassPrepared
  <1>6. n \in Nat /\ 0 + n <= E
    BY <1>4, PassBounds, CaptureAssumption
  <1>7. len \in Nat /\ len <= c.ops_per_chunk /\ start + len <= c.total_ops
    BY ChunkBounds
  <1>8. /\ pc' = IF status' = "SUCCESS" THEN "layer" ELSE "failed"
        /\ op' = 0
    BY DEF Then
  <1>9. PassEnd' = n
    <2>1. PassEnd' = 0 + n
      BY <1>5 DEF PassEnd
    <2> QED BY <1>6, <2>1
  <1>10. PlaceInv'
    <2>1. LayerPlace'
      BY <1>8 DEF LayerPlace, ShapeOK, Running
    <2>2. n <= E /\ c.attached
      BY <1>6 DEF Fits
    <2> HIDE DEF n, len, E
    <2> QED BY <1>3, <1>7, <1>8, <1>9, <2>1, <2>2 DEF PlaceInv, E
  <1>11. PassInv'
    <2>1. CASE pc' = "failed"
      BY <2>1 DEF PassInv, Trusted, Running
    <2>2. CASE pc' = "layer"
      <3>1. MeterInv' /\ ChunkInv'
        BY <1>1 DEF CaptureInv
      <3>2. /\ ready' /\ owner' = Mine
            /\ want' = PassRequest(capture'.event_map_indices,
                                   current_event_base', current_pass_events')
        BY <2>2, <3>1 DEF MeterInv, Running
      <3>3. \A e \in PassColumns' : Column(e)' \in MapEvent
        <4>1. \A e \in 0 .. PassEnd' - 1 : Column(e)' \in MapEvent
          BY <2>2, <3>1 DEF ChunkInv, InCapture
        <4>2. PassColumns' = 0 .. PassEnd' - 1
          BY <1>5 DEF PassColumns
        <4> QED BY <4>1, <4>2
      <3>4. ~chunk_ready' /\ ~complete'
        BY <1>3
      <3> QED BY <2>2, <3>2, <3>3, <3>4 DEF PassInv
    <2> QED BY <1>8, <2>1, <2>2
  <1>12. ASSUME NEW r \in 0 .. len - 1, NEW e \in 0 .. E - 1
         PROVE  CellInv(r, e)'
    <2>1. Cell(r, e)' = 0
      BY <1>2, <1>3 DEF Cell, Offset
    <2>2. ~(e < 0)
      OBVIOUS
    <2>3. Running' => ~(start + r < LayersDone')
      <3>1. ~(start + r < 0)
        BY <1>7 DEF ShapeOK
      <3> QED BY <1>8, <3>1 DEF LayersDone, Running
    <2> QED BY <1>3, <1>5, <2>1, <2>2, <2>3 DEF CellInv
  <1>13. UnspoiledInv'
    BY <1>3, <1>12 DEF UnspoiledInv, Columns
  <1>14. TrustedColumnsExact'
    BY <1>8 DEF TrustedColumnsExact
  <1> QED BY <1>1, <1>10, <1>11, <1>13, <1>14 DEF SlipInv

(* Steps that leave the capture alone, and leave no pass trusted in a run.  *)
LEMMA Kept ==
  ASSUME SlipInv, UNCHANGED captureVars, NEW S, spoiled' = S, spoiled \subseteq S,
         MeterOK', ApplicationOK', LayerPlace', InHand' => InHand,
         pc' \in {"ready", "taken"} => pc \in {"ready", "taken"},
         Running' => PassColumns \subseteq S
  PROVE  SlipInv'
  <1>1. UNCHANGED <<capture, current_chunk_start, current_chunk_ops,
                    current_event_base, current_pass_events, chunk_ready,
                    complete, matrix_storage>>
    BY DEF captureVars, progress
  <1>2. TypeOK'
    BY <1>1 DEF SlipInv, TypeOK, ProgressOK, BufferOK
  <1>3. PassEnd' = PassEnd /\ PassColumns' = PassColumns /\ Columns' = Columns
    BY <1>1 DEF PassEnd, PassColumns, Columns
  <1>4. PlaceInv'
    BY <1>1, <1>3 DEF SlipInv, PlaceInv
  <1>5. PassInv'
    BY <1>3 DEF PassInv, Trusted
  <1>6. ASSUME NEW r, NEW e, CellInv(r, e), e \notin S
        PROVE  CellInv(r, e)'
    <2>1. Cell(r, e)' = Cell(r, e) /\ Due(r, e)' = Due(r, e)
          /\ Column(e)' = Column(e)
      BY <1>1 DEF Cell, Due, Offset, Column
    <2>2. ~(Running' /\ e \in PassColumns')
      BY <1>3, <1>6
    <2> QED BY <1>1, <1>3, <1>6, <2>1, <2>2 DEF CellInv
  <1>7. UnspoiledInv'
    BY <1>1, <1>3, <1>6 DEF SlipInv, UnspoiledInv
  <1>8. TrustedColumnsExact'
    BY <1>1, <1>3 DEF SlipInv, TrustedColumnsExact, Column, Offset
  <1> QED BY <1>2, <1>4, <1>5, <1>7, <1>8 DEF SlipInv

(* Steps of the run that finish no layer.                                   *)
LEMMA SameRun ==
  ASSUME SlipInv, UNCHANGED <<captureVars, spoiled>>,
         UNCHANGED <<ready, owner, want>>, MeterOK', ApplicationOK',
         Running, Running', LayersDone' = LayersDone, LayerPlace',
         Trusted => /\ (pc = "body" /\ Sampled(op))' => tally' = Zeros
                    /\ (pc = "close" /\ Sampled(op))' =>
                         tally' = [e \in MapEvent |-> Cost(op', e)]
  PROVE  SlipInv'
  <1>1. UNCHANGED <<capture, current_chunk_start, current_chunk_ops,
                    current_event_base, current_pass_events, chunk_ready,
                    complete, matrix_storage, spoiled>>
    BY DEF captureVars, progress
  <1>2. TypeOK'
    BY <1>1 DEF SlipInv, TypeOK, ProgressOK, BufferOK
  <1>3. PassEnd' = PassEnd /\ PassColumns' = PassColumns /\ Columns' = Columns
    BY <1>1 DEF PassEnd, PassColumns, Columns
  <1>4. InHand /\ InHand'
    BY DEF InHand, Running
  <1>5. PlaceInv'
    BY <1>1, <1>3, <1>4 DEF SlipInv, PlaceInv, Running
  <1>6. PassInv'
    <2>1. Trusted' => Trusted
      BY <1>1, <1>3 DEF Trusted
    <2>2. \A e : Column(e)' = Column(e)
      BY <1>1 DEF Column
    <2> QED BY <1>1, <1>3, <2>1, <2>2 DEF SlipInv, PassInv
  <1>7. ASSUME NEW r, NEW e, CellInv(r, e)
        PROVE  CellInv(r, e)'
    <2>1. Cell(r, e)' = Cell(r, e) /\ Due(r, e)' = Due(r, e)
          /\ Column(e)' = Column(e)
      BY <1>1 DEF Cell, Due, Offset, Column
    <2> QED BY <1>1, <1>3, <1>7, <2>1 DEF CellInv
  <1>8. UnspoiledInv'
    BY <1>1, <1>3, <1>4, <1>7 DEF SlipInv, UnspoiledInv
  <1>9. TrustedColumnsExact'
    BY DEF TrustedColumnsExact, Running
  <1> QED BY <1>2, <1>5, <1>6, <1>8, <1>9 DEF SlipInv

-----------------------------------------------------------------------------
(* The layers. *)

LEMMA LayerBeginSlips ==
  ASSUME SlipInv, LayerBegin, spoiled' = spoiled
  PROVE  SlipInv'
  <1>1. /\ pc = "layer" /\ pc' = "body" /\ op' = op
        /\ op < capture.total_ops
        /\ UNCHANGED <<captureVars, status, upsets>>
        /\ IF Sampled(op) THEN Zero ELSE UNCHANGED meter
    BY DEF LayerBegin, nsx_pmu_capture_layer_begin
  <1>2. /\ UNCHANGED <<ready, owner, want>> /\ MeterOK'
        /\ Sampled(op) => tally' = Zeros
    BY <1>1, ZerosType DEF Zero, meter, SlipInv, TypeOK, MeterOK
  <1>3. Running /\ Running' /\ LayersDone' = LayersDone
    BY <1>1 DEF Running, LayersDone
  <1>4. Sampled(op)' = Sampled(op) /\ capture' = capture
    BY <1>1 DEF Sampled, captureVars, progress
  <1>5. LayerPlace' /\ ApplicationOK'
    BY <1>1, <1>3, <1>4
       DEF LayerPlace, SlipInv, PlaceInv, TypeOK, ApplicationOK
  <1> QED BY <1>1, <1>2, <1>3, <1>4, <1>5, SameRun

LEMMA RunLayerSlips ==
  ASSUME SlipInv, RunLayer, spoiled' = spoiled
  PROVE  SlipInv'
  <1> DEFINE work == [e \in MapEvent |-> Cost(op, e)]
  <1>1. /\ pc = "body" /\ pc' = "close" /\ op' = op
        /\ UNCHANGED <<captureVars, status, upsets>>
        /\ Accrue(work)
    BY DEF RunLayer
  <1>2. TypeOK /\ PlaceInv /\ InHand /\ LayerPlace
    BY <1>1 DEF SlipInv, PlaceInv, InHand
  <1>3. work \in [MapEvent -> Nat]
    <2>1. Fits(capture) /\ op \in Nat
      BY <1>2, Places
    <2>2. op \in 0 .. capture.total_ops - 1
      <3>1. op \in Nat /\ capture.total_ops \in Nat
        BY <1>2, Places
      <3>2. op < capture.total_ops
        BY <1>1, <1>2 DEF LayerPlace
      <3> QED BY ONLY <3>1, <3>2
    <2>3. \A e \in MapEvent : Cost(op, e) \in Nat
      BY <2>1, <2>2 DEF Fits
    <2> QED BY ONLY <2>3
  <1>4. UNCHANGED <<ready, owner, want>> /\ MeterOK'
    BY <1>1, <1>2, <1>3, AccrueType DEF TypeOK, MeterOK
  <1>5. Running /\ Running' /\ LayersDone' = LayersDone
    BY <1>1 DEF Running, LayersDone
  <1>6. Sampled(op)' = Sampled(op) /\ capture' = capture
    BY <1>1 DEF Sampled, captureVars, progress
  <1>7. LayerPlace' /\ ApplicationOK'
    BY <1>1, <1>2, <1>5, <1>6 DEF LayerPlace, TypeOK, ApplicationOK
  <1>8. Trusted /\ Sampled(op) => tally' = work
    <2>1. ASSUME Trusted, Sampled(op) PROVE tally' = work
      <3>1. tally = Zeros
        BY <1>1, <2>1 DEF SlipInv, PassInv
      <3>2. tally' = [e \in MapEvent |-> Zeros[e] + work[e]]
        BY <1>1, <3>1 DEF Accrue
      <3>3. \A e \in MapEvent : Zeros[e] + work[e] = work[e]
        BY <1>3 DEF Zeros
      <3> QED BY <3>2, <3>3
    <2> QED BY <2>1
  <1> QED BY <1>1, <1>4, <1>5, <1>6, <1>7, <1>8, SameRun

LEMMA BetweenLayersSlips ==
  ASSUME SlipInv, BetweenLayers, spoiled' = spoiled
  PROVE  SlipInv'
  <1> DEFINE work == [e \in MapEvent |-> Overhead(e)]
  <1>1. /\ pc = "gap" /\ pc' = "layer" /\ op' = op + 1
        /\ UNCHANGED <<captureVars, status, upsets>>
        /\ Accrue(work)
    BY DEF BetweenLayers
  <1>2. TypeOK /\ PlaceInv /\ LayerPlace
    BY DEF SlipInv, PlaceInv
  <1>3. work \in [MapEvent -> Nat]
    BY RunAssumption
  <1>4. UNCHANGED <<ready, owner, want>> /\ MeterOK'
    BY <1>1, <1>2, <1>3, AccrueType DEF TypeOK, MeterOK
  <1>5. Running /\ Running' /\ LayersDone' = LayersDone
    BY <1>1 DEF Running, LayersDone
  <1>6. LayerPlace' /\ ApplicationOK'
    <2>1. op < capture.total_ops /\ op \in Nat /\ capture.total_ops \in Nat
      BY <1>1, <1>2, Places DEF LayerPlace
    <2>2. op + 1 <= capture.total_ops /\ op + 1 \in Nat
      BY <2>1
    <2>3. capture' = capture
      BY <1>1 DEF captureVars
    <2> QED BY <1>1, <1>2, <2>2, <2>3
            DEF LayerPlace, Running, TypeOK, ApplicationOK
  <1> QED BY <1>1, <1>4, <1>5, <1>6, SameRun

(* Whoever owns the PMU, what layer_end reads are counts.                   *)
LEMMA ReadingType ==
  ASSUME MeterOK, NEW c, NEW value \in Readings(c)
  PROVE  value \in [Slot -> Nat]
  <1>1. CASE owner # c
    BY <1>1, MeterAssumption DEF Readings
  <1>2. CASE owner = c
    <2>1. value = [s \in Slot |-> Exact(s)]
      BY <1>2 DEF Readings
    <2>2. ASSUME NEW s \in Slot PROVE Exact(s) \in Nat
      <3>1. CASE want[s].enabled
        <4> DEFINE t == tally[want[s].eventId]
                   w == Modulus(want[s].counterSize)
        <4>1. t \in Nat
          BY DEF MeterOK, Request
        <4>2. w \in Nat /\ w > 0
          BY WordType, MeterAssumption DEF Modulus, Word
        <4>3. Exact(s) = t % w
          BY <3>1 DEF Exact
        <4> HIDE DEF t, w
        <4>4. t % w \in Nat
          BY <4>1, <4>2, Remainder
        <4> QED BY <4>3, <4>4
      <3>2. CASE ~want[s].enabled
        BY <3>2 DEF Exact
      <3> QED BY <3>1, <3>2
    <2> QED BY <2>1, <2>2
  <1> QED BY <1>1, <1>2

(* A sampled layer changes the columns of the pass in its own row, and      *)
(* nothing else: no other row or column, no word beyond the storage.        *)
LEMMA LayerStored ==
  ASSUME TypeOK, PlaceInv, InHand, Sampled(op), NEW value \in Readings(Mine),
         matrix_storage' = Accumulated(op - current_chunk_start, value)
  PROVE  /\ BufferOK'
         /\ \A k \in capture.matrix_storage_count .. StorageSize - 1 :
              matrix_storage'[k] = matrix_storage[k]
         /\ \A r \in 0 .. current_chunk_ops - 1, e \in Columns :
              matrix_storage'[Offset(r, e)] =
                IF current_chunk_start + r = op /\ e \in PassColumns
                  THEN (Cell(r, e) + value[e - current_event_base]) % Word
                  ELSE Cell(r, e)
  <1> DEFINE E == capture.total_event_count
             M == capture.matrix_storage_count
             base == current_event_base
             n == current_pass_events
             start == current_chunk_start
             a == op - start
             first == a * E + base
  <1>1. /\ E \in Nat /\ base \in Nat /\ n \in Nat /\ base + n <= E
        /\ start \in Nat /\ current_chunk_ops \in Nat /\ op \in Nat
        /\ start <= op /\ op < start + current_chunk_ops
        /\ M \in 0 .. StorageSize /\ StorageSize \in Nat
        /\ PassColumns = base .. base + n - 1
        /\ n <= MaxPerPass /\ MaxPerPass \in Nat
    BY Places DEF Sampled, PassEnd
  <1>2. a \in 0 .. current_chunk_ops - 1 /\ a \in Nat /\ start + a = op
    BY <1>1
  <1>3. matrix_storage' = [k \in 0 .. StorageSize - 1 |->
          IF first <= k /\ k < first + n
            THEN (matrix_storage[k] + value[k - first]) % Word
            ELSE matrix_storage[k]]
    BY DEF Accumulated, Offset
  <1>4. \A k \in 0 .. StorageSize - 1 : matrix_storage[k] \in 0 .. Word - 1
    BY DEF TypeOK, BufferOK
  <1>5. \A s \in 0 .. n - 1 : value[s] \in Nat
    <2>1. value \in [Slot -> Nat]
      BY ReadingType DEF TypeOK
    <2>2. \A s \in 0 .. n - 1 : s \in Slot
      BY <1>1, CaptureAssumption
    <2> QED BY <2>1, <2>2
  <1>6. /\ current_chunk_ops * E \in Nat /\ current_chunk_ops * E <= M
    <2>1. /\ current_chunk_ops <= capture.ops_per_chunk
          /\ capture.ops_per_chunk \in Nat
          /\ capture.ops_per_chunk * E <= M
      BY Places DEF Fits, PlaceInv
    <2>2. /\ current_chunk_ops * E <= capture.ops_per_chunk * E
          /\ current_chunk_ops * E \in Nat
          /\ capture.ops_per_chunk * E \in Nat
      BY <1>1, <2>1, ProductGrows
    <2> HIDE DEF E, M
    <2> QED BY <1>1, <2>1, <2>2
  <1>7. first \in Nat /\ first + n <= current_chunk_ops * E
    <2>1. \A x, y, z \in Nat : x \in 0 .. y - 1 => x * z + z <= y * z
                                                 /\ x * z \in Nat
      BY Z3
    <2>2. a * E + E <= current_chunk_ops * E /\ a * E \in Nat
      BY <1>1, <1>2, <2>1
    <2> HIDE DEF a, E, base, n
    <2> QED BY <1>1, <1>6, <2>2
  <1> HIDE DEF E, M, base, n, start, a, first
  <1>8. BufferOK'
    <2>1. ASSUME NEW k \in 0 .. StorageSize - 1
          PROVE  matrix_storage'[k] \in 0 .. Word - 1
      <3>1. CASE first <= k /\ k < first + n
        <4>1. k - first \in 0 .. n - 1
          BY <1>1, <1>7, <3>1
        <4>2. matrix_storage[k] + value[k - first] \in Nat
          BY <1>4, <1>5, <4>1, WordType
        <4>3. (matrix_storage[k] + value[k - first]) % Word \in 0 .. Word - 1
          BY <4>2, Remainder, WordType
        <4> QED BY <1>3, <3>1, <4>3
      <3>2. CASE ~(first <= k /\ k < first + n)
        BY <1>3, <1>4, <3>2
      <3> QED BY <3>1, <3>2
    <2> QED BY <1>3, <2>1 DEF BufferOK
  <1>9. ASSUME NEW k \in M .. StorageSize - 1
        PROVE  matrix_storage'[k] = matrix_storage[k]
    <2>1. ~(k < first + n) /\ k \in 0 .. StorageSize - 1
      BY <1>1, <1>6, <1>7
    <2> QED BY <1>3, <2>1
  <1>10. ASSUME NEW r \in 0 .. current_chunk_ops - 1, NEW e \in 0 .. E - 1
         PROVE  matrix_storage'[r * E + e] =
                  IF start + r = op /\ e \in PassColumns
                    THEN (matrix_storage[r * E + e] + value[e - base]) % Word
                    ELSE matrix_storage[r * E + e]
    <2> DEFINE k == r * E + e
    <2>1. k \in 0 .. StorageSize - 1
      <3>1. k \in Nat /\ k < current_chunk_ops * E
        BY <1>1, RowFits
      <3> HIDE DEF k
      <3> QED BY <1>1, <1>6, <3>1
    <2>2. r \in Nat
      BY <1>1
    <2>3. (first <= k /\ k < first + n) <=> (r = a /\ base <= e /\ e < base + n)
      BY <1>1, <1>2, <2>2, InPass DEF first
    <2>4. (start + r = op /\ e \in PassColumns)
            <=> (r = a /\ base <= e /\ e < base + n)
      BY <1>1, <1>2, <2>2
    <2>5. r = a => k - first = e - base
      <3>1. \A x, y, z \in Int : (x + y) - (x + z) = y - z
        OBVIOUS
      <3>2. a * E \in Nat
        BY <1>1, <1>2, ProductGrows
      <3> QED BY <1>1, <3>1, <3>2 DEF first
    <2>6. matrix_storage'[k] =
            IF first <= k /\ k < first + n
              THEN (matrix_storage[k] + value[k - first]) % Word
              ELSE matrix_storage[k]
      BY <1>3, <2>1
    <2> HIDE DEF k
    <2>7. matrix_storage'[k] =
            IF start + r = op /\ e \in PassColumns
              THEN (matrix_storage[k] + value[e - base]) % Word
              ELSE matrix_storage[k]
      <3>1. CASE first <= k /\ k < first + n
        BY <2>3, <2>4, <2>5, <2>6, <3>1
      <3>2. CASE ~(first <= k /\ k < first + n)
        BY <2>3, <2>4, <2>6, <3>2
      <3> QED BY <3>1, <3>2
    <2> QED BY <2>7 DEF k
  <1> QED BY <1>8, <1>9, <1>10 DEF Cell, Columns, Offset, E, M, base, start

(* In a trusted pass the value is the layer's own count.                    *)
LEMMA LayerRead ==
  ASSUME SlipInv, Trusted, pc = "close", Sampled(op),
         NEW value \in Readings(Mine), NEW e \in PassColumns
  PROVE  /\ value[e - current_event_base] = Cost(op, Column(e)) % Word
         /\ (0 + value[e - current_event_base]) % Word
              = Cost(op, Column(e)) % Word
  <1> DEFINE s == e - current_event_base
             map == capture.event_map_indices
  <1>1. TypeOK /\ PlaceInv /\ PassInv
    BY DEF SlipInv
  <1>2. s \in Slot /\ s < current_pass_events /\ current_event_base + s = e
    <2>1. /\ current_event_base \in Nat /\ current_pass_events \in Nat
          /\ current_pass_events <= MaxPerPass /\ MaxPerPass \in Nat
          /\ e \in current_event_base
                   .. current_event_base + current_pass_events - 1
      BY <1>1, Places
    <2> QED BY <2>1, CaptureAssumption
  <1>3. Column(e) \in MapEvent
    BY <1>1 DEF PassInv
  <1>4. owner = Mine /\ want = PassRequest(map, current_event_base,
                                          current_pass_events)
    BY <1>1 DEF PassInv
  <1>5. want[s].enabled /\ want[s].eventId = Column(e)
        /\ want[s].counterSize = 32
    BY <1>2, <1>4 DEF PassRequest, Column
  <1>6. tally = [x \in MapEvent |-> Cost(op, x)]
    BY <1>1 DEF PassInv
  <1>7. value = [t \in Slot |-> Exact(t)]
    BY <1>4 DEF Readings
  <1>8. value[s] = Cost(op, Column(e)) % Word
    BY <1>2, <1>3, <1>5, <1>6, <1>7 DEF Exact, Word
  <1>9. Cost(op, Column(e)) \in Nat
    BY <1>1, <1>3, <1>6 DEF TypeOK, MeterOK
  <1>10. (0 + (Cost(op, Column(e)) % Word)) % Word = Cost(op, Column(e)) % Word
    BY <1>9, Remainder, WordType
  <1> QED BY <1>8, <1>10

LEMMA LayerEndSlips ==
  ASSUME SlipInv, LayerEnd, spoiled' = spoiled
  PROVE  SlipInv'
  <1>1. /\ pc = "close" /\ pc' = "gap" /\ op' = op
        /\ UNCHANGED <<capture, progress, status, upsets>>
        /\ nsx_pmu_capture_layer_end(op)
    BY DEF LayerEnd, nsx_pmu_capture_layer_end
  <1>2. UNCHANGED <<capture, current_chunk_start, current_chunk_ops,
                    current_event_base, current_pass_events, chunk_ready,
                    complete, status, upsets, spoiled>>
    BY <1>1 DEF progress
  <1>3. TypeOK /\ PlaceInv /\ InHand /\ InHand' /\ Running /\ Running'
    BY <1>1 DEF SlipInv, InHand, Running
  <1>4. /\ current_chunk_start \in Nat /\ current_chunk_ops \in Nat
        /\ op \in Nat
    BY <1>3, Places
  <1>5. UNCHANGED <<ready, owner, want>> /\ MeterOK'
    <2>1. Zero \/ UNCHANGED meter
      BY <1>1 DEF nsx_pmu_capture_layer_end
    <2> QED BY <1>3, <2>1, MeterSteps DEF Zero, meter, TypeOK, MeterOK
  <1>6. /\ PassEnd' = PassEnd /\ PassColumns' = PassColumns
        /\ Columns' = Columns
        /\ LayersDone = op /\ LayersDone' = op + 1
    BY <1>1, <1>2 DEF PassEnd, PassColumns, Columns, LayersDone
  <1>7. ASSUME NEW r \in 0 .. current_chunk_ops - 1, NEW e \in Columns,
               Cell(r, e)' = Cell(r, e), CellInv(r, e),
               Trusted => current_chunk_start + r # op \/ e \notin PassColumns,
               e \notin spoiled
        PROVE  CellInv(r, e)'
    <2>1. Due(r, e)' = Due(r, e) /\ Column(e)' = Column(e)
      BY <1>2 DEF Due, Column
    <2>2. e \in PassColumns =>
            (current_chunk_start + r < op + 1 <=> current_chunk_start + r < op)
      <3>1. e \in PassColumns => Trusted
        BY <1>3, <1>7 DEF Trusted
      <3> QED BY <1>4, <1>7, <3>1
    <2> QED BY <1>2, <1>3, <1>6, <1>7, <2>1, <2>2 DEF CellInv
  <1>8. BufferOK' /\ UnspoiledInv'
    <2>1. CASE Sampled(op) /\ ready
      <3>1. PICK value \in Readings(Mine) :
              matrix_storage' = Accumulated(op - current_chunk_start, value)
        BY <1>1, <2>1 DEF nsx_pmu_capture_layer_end
      <3>2. /\ BufferOK'
            /\ \A r \in 0 .. current_chunk_ops - 1, e \in Columns :
                 matrix_storage'[Offset(r, e)] =
                   IF current_chunk_start + r = op /\ e \in PassColumns
                     THEN (Cell(r, e) + value[e - current_event_base]) % Word
                     ELSE Cell(r, e)
        BY <1>3, <2>1, <3>1, LayerStored
      <3>3. ASSUME NEW r \in 0 .. current_chunk_ops - 1,
                   NEW e \in Columns \ spoiled
            PROVE  CellInv(r, e)'
        <4>1. CellInv(r, e)
          BY <1>3 DEF SlipInv, UnspoiledInv
        <4>2. Cell(r, e)' =
                IF current_chunk_start + r = op /\ e \in PassColumns
                  THEN (Cell(r, e) + value[e - current_event_base]) % Word
                  ELSE Cell(r, e)
          BY <1>2, <3>2 DEF Cell, Offset
        <4>3. CASE ~(current_chunk_start + r = op /\ e \in PassColumns)
          BY <1>7, <4>1, <4>2, <4>3
        <4>4. CASE current_chunk_start + r = op /\ e \in PassColumns
          <5>1. Trusted
            BY <1>3, <4>4 DEF Trusted
          <5>2. Cell(r, e) = 0
            BY <1>3, <1>4, <1>6, <4>1, <4>4 DEF CellInv
          <5>3. Cell(r, e)' = (0 + value[e - current_event_base]) % Word
            BY <4>2, <4>4, <5>2
          <5>4. Cell(r, e)' = Cost(op, Column(e)) % Word
            BY <1>1, <2>1, <4>4, <5>1, <5>3, LayerRead
          <5>5. Due(r, e)' = Cost(op, Column(e)) % Word
            BY <1>2, <4>4 DEF Due, Column
          <5>6. /\ ~(e < current_event_base) /\ ~(e >= PassEnd)
                /\ current_chunk_start + r < op + 1
            BY <1>3, <1>4, <4>4, Places
          <5> QED BY <1>2, <1>6, <5>4, <5>5, <5>6 DEF CellInv
        <4> QED BY <4>3, <4>4
      <3> QED BY <1>2, <1>6, <3>2, <3>3 DEF UnspoiledInv
    <2>2. CASE ~(Sampled(op) /\ ready)
      <3>1. matrix_storage' = matrix_storage
        BY <1>1, <2>2 DEF nsx_pmu_capture_layer_end
      <3>2. BufferOK'
        BY <1>3, <3>1 DEF TypeOK, BufferOK
      <3>3. ASSUME NEW r \in 0 .. current_chunk_ops - 1,
                   NEW e \in Columns \ spoiled
            PROVE  CellInv(r, e)'
        <4>1. CellInv(r, e)
          BY <1>3 DEF SlipInv, UnspoiledInv
        <4>2. Cell(r, e)' = Cell(r, e)
          BY <1>2, <3>1 DEF Cell, Offset
        <4>3. Trusted => current_chunk_start + r # op
          <5>1. Trusted => ~Sampled(op)
            BY <2>2 DEF SlipInv, PassInv
          <5> QED BY <1>4, <5>1 DEF Sampled
        <4> QED BY <1>7, <4>1, <4>2, <4>3
      <3> QED BY <1>2, <1>6, <3>2, <3>3 DEF UnspoiledInv
    <2> QED BY <2>1, <2>2
  <1>9. TypeOK'
    BY <1>1, <1>2, <1>3, <1>5, <1>8 DEF TypeOK, ProgressOK, ApplicationOK
  <1>10. PlaceInv'
    BY <1>1, <1>2, <1>3, <1>6 DEF PlaceInv, LayerPlace
  <1>11. PassInv'
    <2>1. Trusted' => Trusted
      BY <1>2, <1>3, <1>6 DEF Trusted
    <2>2. \A e : Column(e)' = Column(e)
      BY <1>2 DEF Column
    <2> QED BY <1>1, <1>2, <1>5, <1>6, <2>1, <2>2 DEF SlipInv, PassInv
  <1>12. TrustedColumnsExact'
    BY <1>1 DEF TrustedColumnsExact
  <1> QED BY <1>8, <1>9, <1>10, <1>11, <1>12 DEF SlipInv

-----------------------------------------------------------------------------
(* The end of a run, or of what is taken for one. *)

(* A chunk is ready: its rows are exact where nothing spoiled them.         *)
LEMMA ReadyNow ==
  ASSUME SlipInv, InHand, NEW S, spoiled' = S,
         UNCHANGED <<capture, current_chunk_start, current_chunk_ops,
                     current_event_base, current_pass_events, matrix_storage>>,
         PassEnd = capture.total_event_count, chunk_ready',
         MeterOK', ApplicationOK', complete' \in BOOLEAN, pc' = "ready",
         \A r \in 0 .. current_chunk_ops - 1, e \in Columns \ S :
           e < PassEnd => Column(e) \in MapEvent /\ Cell(r, e) = Due(r, e)
  PROVE  SlipInv'
  <1>1. TypeOK /\ PlaceInv
    BY DEF SlipInv
  <1>2. /\ current_event_base \in Nat /\ PassEnd \in Nat
        /\ Columns = 0 .. PassEnd - 1
    BY <1>1, Places
  <1>3. PassEnd' = PassEnd /\ Columns' = Columns
    BY DEF PassEnd, Columns
  <1>4. TypeOK'
    BY <1>1 DEF TypeOK, ProgressOK, BufferOK
  <1>5. PlaceInv'
    BY <1>1, <1>3 DEF PlaceInv, LayerPlace, Running
  <1>6. PassInv' /\ ~Running'
    BY DEF PassInv, Trusted, Running
  <1>7. ASSUME NEW r \in 0 .. current_chunk_ops - 1, NEW e \in Columns \ S
        PROVE  /\ Column(e)' \in MapEvent
               /\ Cell(r, e)' = Due(r, e)'
               /\ e < PassEnd
    <2>1. e < PassEnd
      BY <1>2
    <2> QED BY <2>1 DEF Cell, Due, Offset, Column
  <1>8. ASSUME NEW r \in 0 .. current_chunk_ops - 1, NEW e \in Columns \ S
        PROVE  CellInv(r, e)'
    <2>1. ~(e >= PassEnd)
      BY <1>2
    <2> QED BY <1>3, <1>6, <1>7, <2>1 DEF CellInv
  <1>9. UnspoiledInv'
    BY <1>3, <1>8 DEF UnspoiledInv
  <1>10. TrustedColumnsExact'
    BY <1>3, <1>7 DEF TrustedColumnsExact, Cell, Due
  <1> QED BY <1>4, <1>5, <1>6, <1>9, <1>10 DEF SlipInv

LEMMA NextPass ==
  ASSUME SlipInv, InHand, NEW S, spoiled' = S, spoiled \subseteq S,
         ~chunk_ready, ~complete, PassEnd < capture.total_event_count,
         PreparePass(capture, PassEnd), Then("layer"),
         UNCHANGED <<capture, current_chunk_start, current_chunk_ops,
                     chunk_ready, complete, matrix_storage>>,
         upsets' \in 0 .. MaxUpsets,
         \A r \in 0 .. current_chunk_ops - 1, e \in Columns \ S :
           e < PassEnd => Column(e) \in MapEvent /\ Cell(r, e) = Due(r, e)
  PROVE  SlipInv'
  <1> DEFINE E == capture.total_event_count
             map == capture.event_map_indices
             n == PassEvents(capture, PassEnd)
             top == PassEnd + n
  <1>1. TypeOK /\ PlaceInv /\ UnspoiledInv
    BY DEF SlipInv
  <1>2. /\ current_event_base \in Nat /\ PassEnd \in Nat /\ E \in Nat
        /\ current_event_base <= PassEnd /\ current_chunk_start \in Nat
        /\ Columns = 0 .. E - 1 /\ capture.total_ops \in Nat
        /\ ShapeOK(capture) /\ capture.events_per_pass <= MaxPerPass
        /\ MeterOK /\ PassEnd \in 0 .. E
    <2>1. Fits(capture) /\ MeterOK
      BY <1>1, Places DEF TypeOK
    <2> QED BY <1>1, <2>1, Places DEF Fits
  <1>3. /\ MeterOK' /\ current_event_base' = PassEnd
        /\ current_pass_events' = n
        /\ status' \in {"SUCCESS", "INIT_FAILED", "INVALID_VERSION",
                        "INVALID_CONFIG"}
        /\ status' = "SUCCESS" =>
             /\ ready' /\ owner' = Mine
             /\ want' = PassRequest(map, PassEnd, n)
             /\ PassListed(map, PassEnd, n)
    BY <1>2, PassPrepared
  <1>4. n \in 0 .. MaxPerPass /\ top <= E /\ PassEnd \in 0 .. MapSize
        /\ n \in Nat /\ top \in Nat
    <2>1. n \in 0 .. MaxPerPass /\ top <= E /\ PassEnd \in 0 .. MapSize
      BY <1>2, PassBounds
    <2> HIDE DEF n
    <2> QED BY <1>2, <2>1, CaptureAssumption
  <1>5. /\ pc' = IF status' = "SUCCESS" THEN "layer" ELSE "failed"
        /\ op' = 0
    BY DEF Then
  <1>6. PassEnd' = top /\ PassColumns' = PassEnd .. top - 1
        /\ Columns' = Columns
    BY <1>3 DEF PassEnd, PassColumns, Columns
  <1>7. TypeOK'
    BY <1>1, <1>3, <1>4, <1>5 DEF TypeOK, ProgressOK, BufferOK, ApplicationOK
  <1>8. PlaceInv'
    <2>1. LayerPlace'
      BY <1>2, <1>5 DEF LayerPlace, Running
    <2> HIDE DEF top, n
    <2> QED BY <1>1, <1>4, <1>5, <1>6, <2>1 DEF PlaceInv, InHand
  <1>9. PassInv'
    <2>1. CASE pc' = "failed"
      BY <2>1 DEF PassInv, Trusted, Running
    <2>2. CASE pc' = "layer" /\ status' = "SUCCESS"
      <3>1. ASSUME NEW e \in PassEnd .. top - 1
            PROVE  Column(e)' \in MapEvent
        <4>1. e - PassEnd \in 0 .. n - 1 /\ PassEnd + (e - PassEnd) = e
          BY <1>2, <1>4
        <4>2. MapIndex(map, PassEnd + (e - PassEnd)) \in MapEvent
          BY <1>3, <2>2, <4>1 DEF PassListed
        <4>3. Column(e)' = MapIndex(map, e)
          BY DEF Column
        <4> HIDE DEF top, n, map
        <4> QED BY <4>1, <4>2, <4>3
      <3>2. \A e \in PassColumns' : Column(e)' \in MapEvent
        <4> HIDE DEF top
        <4> QED BY <1>6, <3>1
      <3> QED BY <1>3, <2>2, <3>2 DEF PassInv
    <2> QED BY <1>5, <2>1, <2>2
  <1>10. ASSUME NEW r \in 0 .. current_chunk_ops - 1, NEW e \in Columns \ S
         PROVE  CellInv(r, e)'
    <2>1. CellInv(r, e)
      BY <1>1 DEF UnspoiledInv
    <2>2. Cell(r, e)' = Cell(r, e) /\ Due(r, e)' = Due(r, e)
          /\ Column(e)' = Column(e)
      BY DEF Cell, Due, Offset, Column
    <2>3. e < PassEnd => Column(e)' \in MapEvent /\ Cell(r, e)' = Due(r, e)'
      BY <2>2
    <2>4. e >= PassEnd => Cell(r, e)' = 0
      BY <2>1, <2>2 DEF CellInv
    <2>5. Running' => ~(current_chunk_start + r < LayersDone')
      <3>1. ~(current_chunk_start + r < 0)
        BY <1>2
      <3> QED BY <1>5, <3>1 DEF LayersDone, Running
    <2>6. e >= top => e >= PassEnd
      BY <1>2, <1>4
    <2>7. e \in PassEnd .. top - 1 => e >= PassEnd
      BY <1>2, <1>4
    <2> HIDE DEF top
    <2> QED BY <1>3, <1>6, <2>3, <2>4, <2>5, <2>6, <2>7 DEF CellInv
  <1>11. UnspoiledInv'
    BY <1>6, <1>10 DEF UnspoiledInv
  <1>12. TrustedColumnsExact'
    BY <1>5 DEF TrustedColumnsExact
  <1> QED BY <1>7, <1>8, <1>9, <1>11, <1>12 DEF SlipInv

LEMMA EndSlips ==
  ASSUME SlipInv, InHand, NEW S, spoiled' = S, spoiled \subseteq S,
         nsx_pmu_capture_model_end,
         Then(IF chunk_ready' THEN "ready" ELSE "layer"),
         upsets' \in 0 .. MaxUpsets,
         complete /\ ~chunk_ready => PassColumns \subseteq S,
         \A r \in 0 .. current_chunk_ops - 1, e \in Columns \ S :
           e < PassEnd => Column(e) \in MapEvent /\ Cell(r, e) = Due(r, e)
  PROVE  SlipInv'
  <1>1. TypeOK /\ PlaceInv
    BY DEF SlipInv
  <1>2. PassEnd \in Nat /\ capture.total_event_count \in Nat
        /\ PassEnd <= capture.total_event_count /\ capture.total_ops \in Nat
    BY <1>1, Places
  <1>3. /\ pc' = IF status' = "SUCCESS"
                   THEN (IF chunk_ready' THEN "ready" ELSE "layer")
                   ELSE "failed"
        /\ op' = 0
    BY DEF Then
  <1>4. CASE /\ chunk_ready \/ complete
             /\ status' = "SUCCESS"
             /\ UNCHANGED <<captureVars, meter>>
    <2>1. UNCHANGED <<capture, current_chunk_start, current_chunk_ops,
                      current_event_base, current_pass_events, chunk_ready,
                      complete, matrix_storage>>
      BY <1>4 DEF captureVars, progress
    <2>2. MeterOK' /\ ApplicationOK' /\ complete' \in BOOLEAN
      BY <1>1, <1>3, <1>4, <2>1
         DEF TypeOK, MeterOK, ApplicationOK, ProgressOK, meter
    <2>3. CASE chunk_ready
      <3>1. PassEnd = capture.total_event_count
        BY <1>1, <2>3 DEF PlaceInv
      <3>2. pc' = "ready"
        BY <1>3, <1>4, <2>1, <2>3
      <3> QED BY <2>1, <2>2, <2>3, <3>1, <3>2, ReadyNow
    <2>4. CASE ~chunk_ready
      <3>1. pc' = "layer" /\ PassColumns \subseteq S
        BY <1>3, <1>4, <2>1, <2>4
      <3>2. LayerPlace' /\ InHand'
        BY <1>2, <1>3, <2>1, <3>1 DEF LayerPlace, Running, InHand
      <3> QED BY <1>4, <2>2, <3>1, <3>2, Kept
    <2> QED BY <2>3, <2>4
  <1>5. CASE /\ ~chunk_ready /\ ~complete
             /\ PassEnd >= capture.total_event_count
             /\ chunk_ready' = TRUE
             /\ complete' = LastChunk
             /\ status' = "SUCCESS"
             /\ UNCHANGED <<capture, current_chunk_start, current_chunk_ops,
                            current_event_base, current_pass_events,
                            matrix_storage, meter>>
    <2>1. pc' = "ready" /\ PassEnd = capture.total_event_count
      BY <1>2, <1>3, <1>5
    <2>2. MeterOK' /\ ApplicationOK' /\ complete' \in BOOLEAN
      BY <1>1, <1>3, <1>5, <2>1
         DEF TypeOK, MeterOK, ApplicationOK, meter, LastChunk
    <2> QED BY <1>5, <2>1, <2>2, ReadyNow
  <1>6. CASE /\ ~chunk_ready /\ ~complete
             /\ PassEnd < capture.total_event_count
             /\ UNCHANGED <<capture, current_chunk_start, current_chunk_ops,
                            chunk_ready, complete, matrix_storage>>
             /\ PreparePass(capture, PassEnd)
    <2>1. Then("layer")
      BY <1>6 DEF Then
    <2> QED BY <1>6, <2>1, NextPass
  <1> QED BY <1>4, <1>5, <1>6 DEF nsx_pmu_capture_model_end, PassEnd

LEMMA ModelEndSlips ==
  ASSUME SlipInv, ModelEnd, spoiled' = spoiled
  PROVE  SlipInv'
  <1>1. /\ pc = "layer" /\ op = capture.total_ops
        /\ nsx_pmu_capture_model_end
        /\ Then(IF chunk_ready' THEN "ready" ELSE "layer")
    BY DEF ModelEnd
  <1>2. TypeOK /\ PlaceInv /\ InHand /\ Running
    BY <1>1 DEF SlipInv, InHand, Running
  <1>3. upsets' \in 0 .. MaxUpsets
    BY <1>2, UpsetsBounded DEF ModelEnd
  <1>4. complete => PassColumns \subseteq spoiled
    BY <1>2 DEF SlipInv, PassInv, Trusted
  <1>5. ASSUME NEW r \in 0 .. current_chunk_ops - 1,
               NEW e \in Columns \ spoiled, e < PassEnd
        PROVE  Column(e) \in MapEvent /\ Cell(r, e) = Due(r, e)
    <2>1. CellInv(r, e)
      BY <1>2 DEF SlipInv, UnspoiledInv
    <2>2. CASE e < current_event_base
      BY <2>1, <2>2 DEF CellInv
    <2>3. CASE ~(e < current_event_base)
      <3>1. e \in PassColumns
        <4>1. /\ e \in Nat /\ current_event_base \in Nat /\ PassEnd \in Nat
              /\ PassColumns = current_event_base .. PassEnd - 1
          BY <1>2, Places
        <4> QED BY <1>5, <2>3, <4>1
      <3>2. Column(e) \in MapEvent
        BY <1>2, <3>1 DEF SlipInv, PassInv, Trusted
      <3>3. LayersDone = capture.total_ops
        BY <1>1 DEF LayersDone
      <3>4. current_chunk_start + r < LayersDone
        <4>1. /\ current_chunk_start \in Nat /\ current_chunk_ops \in Nat
              /\ capture.total_ops \in Nat
              /\ current_chunk_start + current_chunk_ops <= capture.total_ops
          BY <1>2, Places DEF PlaceInv
        <4> QED BY <3>3, <4>1
      <3> QED BY <1>2, <2>1, <3>1, <3>2, <3>4 DEF CellInv
    <2> QED BY <2>2, <2>3
  <1> QED BY <1>1, <1>2, <1>3, <1>4, <1>5, EndSlips

LEMMA RetrySlips ==
  ASSUME SlipInv, Retry
  PROVE  SlipInv'
  <1> DEFINE S == spoiled \cup PassColumns
  <1>1. /\ pc = "failed" /\ spoiled' = S
        /\ nsx_pmu_capture_model_end
        /\ Then(IF chunk_ready' THEN "ready" ELSE "layer")
    BY DEF Retry, Slip
  <1>2. TypeOK /\ PlaceInv /\ InHand
    BY <1>1 DEF SlipInv, InHand
  <1>3. upsets' \in 0 .. MaxUpsets
    BY <1>2, UpsetsBounded DEF Retry
  <1>4. ASSUME NEW r \in 0 .. current_chunk_ops - 1,
               NEW e \in Columns \ S, e < PassEnd
        PROVE  Column(e) \in MapEvent /\ Cell(r, e) = Due(r, e)
    <2>1. CellInv(r, e)
      BY <1>2 DEF SlipInv, UnspoiledInv
    <2>2. e < current_event_base
      <3>1. e \notin PassColumns
        OBVIOUS
      <3>2. /\ e \in Nat /\ current_event_base \in Nat /\ PassEnd \in Nat
            /\ PassColumns = current_event_base .. PassEnd - 1
        BY <1>2, Places
      <3> QED BY <1>4, <3>1, <3>2
    <2> QED BY <2>1, <2>2 DEF CellInv
  <1>5. PassColumns \subseteq S /\ spoiled \subseteq S
    OBVIOUS
  <1> HIDE DEF S
  <1> QED BY <1>1, <1>2, <1>3, <1>4, <1>5, EndSlips

-----------------------------------------------------------------------------
(* The other steps. *)

LEMMA SetupSlips ==
  ASSUME SlipInv, NEW cfg \in CaptureCfg, Setup(cfg)
  PROVE  SlipInv'
  <1>1. TypeOK
    BY DEF SlipInv
  <1>2. upsets' \in 0 .. MaxUpsets
    BY <1>1, UpsetsBounded DEF Setup
  <1>3. ~InitRefused(cfg) /\ ~TooManyPerPass(cfg) /\ ~StorageTooSmall(cfg)
    BY SlipsAssumption
  <1>4. /\ Then("layer") /\ capture' = Installed(cfg) /\ complete' = FALSE
        /\ ResetChunk(Installed(cfg), 0)
    BY <1>3 DEF Setup, nsx_pmu_capture_init
  <1>5. ShapeOK(Installed(cfg)) /\ Fits(Installed(cfg))
    BY <1>3, InstalledShape
  <1>6. 0 \in 0 .. Installed(cfg).total_ops
    BY <1>5 DEF ShapeOK
  <1> QED BY <1>1, <1>2, <1>4, <1>5, <1>6, BegunAgain

LEMMA ResetSlips ==
  ASSUME SlipInv, InHand, nsx_pmu_capture_reset, Then("layer"),
         upsets' \in 0 .. MaxUpsets
  PROVE  SlipInv'
  <1>1. TypeOK /\ ShapeOK(capture) /\ Fits(capture) /\ capture.attached
    BY Places DEF SlipInv
  <1>2. capture' = capture /\ complete' = FALSE /\ ResetChunk(capture, 0)
    BY <1>1 DEF nsx_pmu_capture_reset
  <1>3. 0 \in 0 .. capture.total_ops
    BY <1>1 DEF ShapeOK
  <1> QED BY <1>1, <1>2, <1>3, BegunAgain

LEMMA BeginsSlips ==
  ASSUME SlipInv, Restart \/ Recover
  PROVE  SlipInv'
  <1>1. upsets' \in 0 .. MaxUpsets
    BY UpsetsBounded DEF Restart, Recover, SlipInv
  <1>2. InHand /\ nsx_pmu_capture_reset /\ Then("layer")
    BY DEF Restart, Recover, InHand
  <1> QED BY <1>1, <1>2, ResetSlips

LEMMA AdvanceSlips ==
  ASSUME SlipInv, Advance
  PROVE  SlipInv'
  <1>1. /\ pc = "taken" /\ nsx_pmu_capture_advance_chunk
        /\ Then(IF complete THEN "done" ELSE "layer")
    BY DEF Advance
  <1>2. TypeOK /\ PlaceInv /\ InHand /\ chunk_ready
    BY <1>1 DEF SlipInv, InHand, PlaceInv
  <1>3. upsets' \in 0 .. MaxUpsets
    BY <1>2, UpsetsBounded DEF Advance
  <1>4. CASE complete
    <2>1. /\ chunk_ready' = FALSE /\ status' = "SUCCESS" /\ pc' = "done"
          /\ op' = 0
          /\ UNCHANGED <<capture, current_chunk_start, current_chunk_ops,
                         current_event_base, current_pass_events, complete,
                         matrix_storage, meter>>
      BY <1>1, <1>2, <1>4 DEF nsx_pmu_capture_advance_chunk, Then
    <2>2. TypeOK'
      BY <1>2, <1>3, <2>1 DEF TypeOK, ProgressOK, BufferOK, MeterOK,
                              ApplicationOK, meter
    <2>3. PlaceInv'
      BY <1>2, <2>1 DEF PlaceInv, LayerPlace, InHand, Running, PassEnd
    <2>4. PassInv' /\ UnspoiledInv' /\ TrustedColumnsExact'
      BY <2>1 DEF PassInv, Trusted, Running, UnspoiledInv, InHand,
                  TrustedColumnsExact
    <2> QED BY <2>2, <2>3, <2>4 DEF SlipInv
  <1>5. CASE ~complete
    <2>1. capture' = capture /\ complete' = FALSE
          /\ ResetChunk(capture, NextChunk) /\ Then("layer")
      BY <1>1, <1>2, <1>5 DEF nsx_pmu_capture_advance_chunk, TypeOK, ProgressOK
    <2>2. ShapeOK(capture) /\ Fits(capture)
      BY <1>2, Places
    <2>3. NextChunk \in 0 .. capture.total_ops
      <3>1. /\ current_chunk_start \in Nat /\ current_chunk_ops \in Nat
            /\ current_chunk_start + current_chunk_ops <= capture.total_ops
            /\ capture.total_ops \in Nat
        BY <1>2, Places DEF PlaceInv
      <3> QED BY <3>1 DEF NextChunk
    <2> QED BY <1>2, <1>3, <2>1, <2>2, <2>3, BegunAgain
  <1> QED BY <1>4, <1>5

(* Steps that only move the application, or reprogram the PMU.              *)
LEMMA ApartSlips ==
  ASSUME SlipInv, UNCHANGED captureVars, status' = status, upsets' = upsets,
         NEW S, spoiled' = S, spoiled \subseteq S,
         \/ UNCHANGED meter
         \/ \E c \in Config : Program(c, Nothing),
         \/ pc = "ready" /\ pc' = "taken" /\ op' = op
         \/ pc' = "idle" /\ op' = op
         \/ ~Running /\ pc' = pc /\ op' = op
         \/ Running /\ pc' = pc /\ op' = op /\ PassColumns \subseteq S
         \/ InHand /\ pc' = "layer" /\ op' = 0 /\ PassColumns \subseteq S
  PROVE  SlipInv'
  <1>1. TypeOK /\ PlaceInv /\ LayerPlace /\ capture.total_ops \in Nat
    BY Places DEF SlipInv, PlaceInv
  <1>2. capture' = capture
    BY DEF captureVars
  <1>3. MeterOK'
    <2>1. UNCHANGED meter => MeterOK'
      BY <1>1 DEF TypeOK, MeterOK, meter
    <2> QED BY <1>1, <2>1, NothingType, MeterSteps DEF TypeOK
  <1>4. ApplicationOK'
    BY <1>1 DEF TypeOK, ApplicationOK
  <1>5. LayerPlace'
    BY <1>1, <1>2 DEF LayerPlace, Running
  <1>6. InHand' => InHand
    BY DEF InHand
  <1>7. /\ pc' \in {"ready", "taken"} => pc \in {"ready", "taken"}
        /\ Running' => PassColumns \subseteq S
    BY DEF Running
  <1> QED BY <1>3, <1>4, <1>5, <1>6, <1>7, Kept

LEMMA StraySlips ==
  ASSUME SlipInv, Stray, ~(pc = "layer" /\ chunk_ready), spoiled' = spoiled
  PROVE  SlipInv'
  <1>1. TypeOK /\ PlaceInv /\ LayerPlace
    BY DEF SlipInv, PlaceInv
  <1>2. UNCHANGED <<pc, op, rows, upsets>>
    BY DEF Stray, application
  <1>3. /\ status' \in {"SUCCESS", "INVALID_CONFIG", "INVALID_HANDLE"}
        /\ UNCHANGED <<captureVars, meter>>
    <2>1. CASE pc \in {"ready", "taken"} /\ nsx_pmu_capture_model_end
      <3>1. chunk_ready
        BY <1>1, <2>1 DEF PlaceInv
      <3> QED BY <2>1, <3>1 DEF nsx_pmu_capture_model_end
    <2>2. CASE pc = "layer" /\ nsx_pmu_capture_advance_chunk
      BY <2>2 DEF nsx_pmu_capture_advance_chunk
    <2>3. CASE ~capture.attached /\ nsx_pmu_capture_reset
      BY <2>3 DEF nsx_pmu_capture_reset
    <2> QED BY <2>1, <2>2, <2>3 DEF Stray
  <1>4. MeterOK' /\ ApplicationOK'
    BY <1>1, <1>2, <1>3 DEF TypeOK, MeterOK, ApplicationOK, meter
  <1>5. LayerPlace'
    BY <1>1, <1>2, <1>3 DEF LayerPlace, Running, captureVars
  <1>6. CASE Running
    <2>1. Running' /\ LayersDone' = LayersDone
      BY <1>2, <1>6 DEF Running, LayersDone
    <2>2. Sampled(op)' = Sampled(op)
      BY <1>2, <1>3 DEF Sampled, captureVars, progress
    <2>3. UNCHANGED <<ready, owner, want, tally>>
      BY <1>3 DEF meter
    <2>4. Trusted => /\ (pc = "body" /\ Sampled(op))' => tally' = Zeros
                     /\ (pc = "close" /\ Sampled(op))' =>
                          tally' = [e \in MapEvent |-> Cost(op', e)]
      BY <1>2, <2>2, <2>3 DEF SlipInv, PassInv
    <2> QED BY <1>3, <1>4, <1>5, <1>6, <2>1, <2>3, <2>4, SameRun
  <1>7. CASE ~Running
    BY <1>2, <1>3, <1>4, <1>5, <1>7, Kept DEF Running, InHand
  <1> QED BY <1>6, <1>7

LEMMA StutterSlips ==
  ASSUME SlipInv, UNCHANGED slipVars
  PROVE  SlipInv'
  <1>1. UNCHANGED <<vars, captureVars, status, meter, pc, op, rows, upsets,
                    spoiled>>
    BY DEF slipVars, vars, application
  <1>2. TypeOK /\ PlaceInv /\ LayerPlace
    BY DEF SlipInv, PlaceInv
  <1>3. MeterOK' /\ ApplicationOK'
    BY <1>1, <1>2 DEF TypeOK, MeterOK, ApplicationOK, meter
  <1>4. LayerPlace'
    BY <1>1, <1>2 DEF LayerPlace, Running, captureVars
  <1>5. CASE Running
    <2>1. Running' /\ LayersDone' = LayersDone
      BY <1>1, <1>5 DEF Running, LayersDone
    <2>2. Sampled(op)' = Sampled(op)
      BY <1>1 DEF Sampled, captureVars, progress
    <2>3. UNCHANGED <<ready, owner, want, tally>>
      BY <1>1 DEF meter
    <2>4. Trusted => /\ (pc = "body" /\ Sampled(op))' => tally' = Zeros
                     /\ (pc = "close" /\ Sampled(op))' =>
                          tally' = [e \in MapEvent |-> Cost(op', e)]
      BY <1>1, <2>2, <2>3 DEF SlipInv, PassInv
    <2> QED BY <1>1, <1>3, <1>4, <1>5, <2>1, <2>3, <2>4, SameRun
  <1>6. CASE ~Running
    BY <1>1, <1>3, <1>4, <1>6, Kept DEF Running, InHand
  <1> QED BY <1>5, <1>6

LEMMA SlipNextInv == SlipInv /\ [SlipNext]_slipVars => SlipInv'
  <1> SUFFICES ASSUME SlipInv, [SlipNext]_slipVars
               PROVE  SlipInv'
    OBVIOUS
  <1>1. CASE Proceed
    <2>1. CASE TakeRows /\ spoiled' = spoiled
      BY <2>1, ApartSlips DEF TakeRows
    <2>2. CASE GiveUp /\ spoiled' = spoiled
      BY <2>2, ApartSlips DEF GiveUp
    <2> QED BY <1>1, <2>1, <2>2, BeginsSlips, AdvanceSlips, LayerBeginSlips,
               RunLayerSlips, LayerEndSlips, BetweenLayersSlips, ModelEndSlips
            DEF Proceed
  <1>2. CASE Otherwise
    <2>1. ASSUME NEW c \in Config, Lend(c), spoiled' = spoiled
          PROVE  SlipInv'
      <3>1. /\ UNCHANGED <<captureVars, status, pc, op, upsets>> /\ ~Running
            /\ Program(c, Nothing)
        BY <2>1 DEF Lend, application, Running
      <3> QED BY <2>1, <3>1, ApartSlips
    <2> QED BY <1>2, <2>1, SetupSlips, BeginsSlips, StraySlips DEF Otherwise
  <1>3. CASE Careless
    <2>1. CASE RunAnyway
      <3>1. /\ UNCHANGED <<captureVars, status, meter, upsets>>
            /\ InHand /\ pc' = "layer" /\ op' = 0
            /\ spoiled' = spoiled \cup PassColumns
        BY <2>1 DEF RunAnyway, Slip, InHand
      <3> QED BY <3>1, ApartSlips
    <2>2. ASSUME NEW c \in Config, LendMidRun(c)
          PROVE  SlipInv'
      <3>1. /\ UNCHANGED <<captureVars, status, pc, op, upsets>> /\ Running
            /\ Program(c, Nothing)
            /\ spoiled' = spoiled \cup PassColumns
        BY <2>2 DEF LendMidRun, Slip, application
      <3> QED BY <3>1, ApartSlips
    <2> QED BY <1>3, <2>1, <2>2, RetrySlips DEF Careless
  <1>4. CASE UNCHANGED slipVars
    BY <1>4, StutterSlips
  <1> QED BY <1>1, <1>2, <1>3, <1>4 DEF SlipNext

LEMMA SlipInitInv == SlipInit => SlipInv
  <1> SUFFICES ASSUME SlipInit PROVE SlipInv
    OBVIOUS
  <1>1. TypeOK
    BY InitInv DEF SlipInit
  <1>2. /\ current_chunk_start = 0 /\ current_chunk_ops = 0
        /\ current_event_base = 0 /\ current_pass_events = 0
        /\ chunk_ready = FALSE /\ pc = "idle"
        /\ capture.total_ops = 0 /\ capture.ops_per_chunk = 0
        /\ capture.total_event_count = 0 /\ ~capture.attached
    BY DEF SlipInit, Init, CaptureInit
  <1>3. PlaceInv
    BY <1>2 DEF PlaceInv, LayerPlace, InHand, Running, PassEnd
  <1>4. PassInv /\ UnspoiledInv /\ TrustedColumnsExact
    BY <1>2 DEF PassInv, Trusted, Running, UnspoiledInv, InHand,
                TrustedColumnsExact
  <1> QED BY <1>1, <1>3, <1>4 DEF SlipInv

LEMMA SlipInductive == SlipSpec => []SlipInv
  BY SlipInitInv, SlipNextInv, PTL DEF SlipSpec

-----------------------------------------------------------------------------
(* The words of the buffer that are not the capture's. *)

LEMMA SlipsKeep ==
  SlipInv /\ [SlipNext]_slipVars => [BeyondKept]_vars
  <1> SUFFICES ASSUME SlipInv, SlipNext
               PROVE  [BeyondKept]_vars
    BY DEF slipVars
  <1>1. TypeOK /\ PlaceInv
    BY DEF SlipInv
  <1>2. ASSUME matrix_storage' = matrix_storage
        PROVE  BeyondKept
    BY <1>2 DEF BeyondKept
  <1>3. ASSUME nsx_pmu_capture_reset, InHand
        PROVE  BeyondKept
    <2>1. ShapeOK(capture) /\ Fits(capture) /\ capture.attached
      BY <1>1, <1>3, Places
    <2>2. 0 \in 0 .. capture.total_ops
      BY <2>1 DEF ShapeOK
    <2> QED BY <1>1, <1>3, <2>1, <2>2, ResetKeeps DEF nsx_pmu_capture_reset
  <1>4. ASSUME NEW cfg \in CaptureCfg, Setup(cfg)
        PROVE  BeyondKept
    <2>1. ~InitRefused(cfg) /\ ~TooManyPerPass(cfg) /\ ~StorageTooSmall(cfg)
      BY SlipsAssumption
    <2>2. capture' = Installed(cfg) /\ ResetChunk(Installed(cfg), 0)
      BY <1>4, <2>1 DEF Setup, nsx_pmu_capture_init
    <2>3. ShapeOK(Installed(cfg)) /\ Fits(Installed(cfg))
      BY <2>1, InstalledShape
    <2>4. 0 \in 0 .. Installed(cfg).total_ops
      BY <2>3 DEF ShapeOK
    <2> QED BY <1>1, <2>2, <2>3, <2>4, ResetKeeps
  <1>5. CASE Restart \/ Recover
    BY <1>3, <1>5 DEF Restart, Recover, InHand
  <1>6. CASE LayerEnd
    <2>1. pc = "close" /\ nsx_pmu_capture_layer_end(op) /\ capture' = capture
      BY <1>6 DEF LayerEnd, nsx_pmu_capture_layer_end
    <2>2. CASE Sampled(op) /\ ready
      <3>1. PICK value \in Readings(Mine) :
              matrix_storage' = Accumulated(op - current_chunk_start, value)
        BY <2>1, <2>2 DEF nsx_pmu_capture_layer_end
      <3>2. InHand
        BY <2>1 DEF InHand
      <3>3. \A k \in capture.matrix_storage_count .. StorageSize - 1 :
              matrix_storage'[k] = matrix_storage[k]
        BY <1>1, <2>2, <3>1, <3>2, LayerStored
      <3> QED BY <2>1, <3>3 DEF BeyondKept
    <2>3. CASE ~(Sampled(op) /\ ready)
      BY <1>2, <2>1, <2>3 DEF nsx_pmu_capture_layer_end
    <2> QED BY <2>2, <2>3
  <1>7. CASE Advance
    <2>1. nsx_pmu_capture_advance_chunk /\ InHand
      BY <1>7 DEF Advance, InHand
    <2>2. CASE matrix_storage' = matrix_storage
      BY <1>2, <2>2
    <2>3. CASE capture' = capture /\ ResetChunk(capture, NextChunk)
      <3>1. ShapeOK(capture) /\ Fits(capture)
        BY <1>1, <2>1, Places
      <3>2. NextChunk \in 0 .. capture.total_ops
        <4>1. /\ current_chunk_start \in Nat /\ current_chunk_ops \in Nat
              /\ current_chunk_start + current_chunk_ops <= capture.total_ops
              /\ capture.total_ops \in Nat
          BY <1>1, Places DEF PlaceInv
        <4> QED BY <4>1 DEF NextChunk
      <3> QED BY <1>1, <2>3, <3>1, <3>2, ResetKeeps
    <2> QED BY <2>1, <2>2, <2>3 DEF nsx_pmu_capture_advance_chunk, captureVars
  <1>8. CASE Stray /\ ~(pc = "layer" /\ chunk_ready)
    <2>1. matrix_storage' = matrix_storage
      <3>1. CASE pc \in {"ready", "taken"} /\ nsx_pmu_capture_model_end
        BY <3>1 DEF nsx_pmu_capture_model_end, captureVars
      <3>2. CASE pc = "layer" /\ nsx_pmu_capture_advance_chunk
        BY <1>8, <3>2 DEF nsx_pmu_capture_advance_chunk, captureVars
      <3>3. CASE ~capture.attached /\ nsx_pmu_capture_reset
        BY <3>3 DEF nsx_pmu_capture_reset, captureVars
      <3> QED BY <1>8, <3>1, <3>2, <3>3 DEF Stray
    <2> QED BY <1>2, <2>1
  <1>9. CASE LayerBegin \/ RunLayer \/ BetweenLayers \/ ModelEnd \/ TakeRows
             \/ GiveUp
    BY <1>2, <1>9
       DEF LayerBegin, nsx_pmu_capture_layer_begin, RunLayer, BetweenLayers,
           ModelEnd, nsx_pmu_capture_model_end, TakeRows, GiveUp, captureVars
  <1>10. CASE Careless
    BY <1>2, <1>10 DEF Careless, RunAnyway, Retry, nsx_pmu_capture_model_end,
                       LendMidRun, captureVars
  <1>11. CASE \E c \in Config \ {Mine} : Lend(c)
    BY <1>2, <1>11 DEF Lend, captureVars
  <1> QED BY <1>4, <1>5, <1>6, <1>7, <1>8, <1>9, <1>10, <1>11
          DEF SlipNext, Proceed, Otherwise

-----------------------------------------------------------------------------
(* A run of the model that was not due, a failed call that was not obeyed,  *)
(* model_end called again and a PMU lent in the middle of a run spoil the   *)
(* columns of the pass they happen in, and nothing else of the ready chunk. *)
THEOREM SlipsConfined == SlipSpec => []TrustedColumnsExact
  <1>1. SlipInv => TrustedColumnsExact
    BY DEF SlipInv
  <1> QED BY SlipInductive, <1>1, PTL

(* Nor do they make layer_end or reset_chunk store beyond the words that    *)
(* nsx_pmu_capture_init was given, although runs come at any time.          *)
THEOREM SlipsStorageSafe == SlipSpec => StorageRespected
  <1>1. [BeyondKept]_vars <=>
          [\A k \in capture'.matrix_storage_count .. StorageSize - 1 :
             matrix_storage'[k] = matrix_storage[k]]_vars
    BY DEF BeyondKept
  <1> QED BY SlipInductive, SlipsKeep, <1>1, PTL DEF SlipSpec, StorageRespected
=============================================================================
