---------------------------- MODULE CaptureProofs ----------------------------
(***************************************************************************)
(* Theorems about CaptureRun, for every map size, every number of events   *)
(* per pass, every buffer, every set of configurations and every cost of   *)
(* the operators.  Stated at the end; the lemmas come first.               *)
(***************************************************************************)
EXTENDS CaptureRun, TLAPS

-----------------------------------------------------------------------------
(* Arithmetic. *)

LEMMA WordType == Word \in Nat /\ Word > 0
  <1>1. \A n \in Nat : n > 1 => n * n \in Nat /\ n * n > 0
    BY Z3
  <1> QED BY <1>1, MeterAssumption DEF Word, Modulus

LEMMA Remainder ==
  ASSUME NEW n \in Nat, NEW w \in Nat, w > 0
  PROVE  n % w \in 0 .. w - 1 /\ (0 + (n % w)) % w = n % w
  BY Z3

(* Rows do not overlap in the buffer. *)
LEMMA RowsApart ==
  ASSUME NEW E \in Nat, NEW a \in Nat, NEW b \in Nat,
         NEW e \in 0 .. E - 1, NEW f \in 0 .. E - 1,
         a * E + e = b * E + f
  PROVE  a = b /\ e = f
  BY Z3

(* A row lies within the words of its chunk. *)
LEMMA RowFits ==
  ASSUME NEW E \in Nat, NEW n \in Nat, NEW r \in 0 .. n - 1,
         NEW e \in 0 .. E - 1
  PROVE  r * E + e \in Nat /\ r * E + e < n * E
  BY Z3

LEMMA ProductGrows ==
  ASSUME NEW a \in Nat, NEW b \in Nat, NEW E \in Nat, a <= b
  PROVE  a * E \in Nat /\ b * E \in Nat /\ a * E <= b * E
  BY Z3

(* The address of a row, a column of the pass at a time. *)
LEMMA InPass ==
  ASSUME NEW E \in Nat, NEW a \in Nat, NEW b \in Nat, NEW e \in 0 .. E - 1,
         NEW base \in Nat, NEW n \in Nat, base + n <= E
  PROVE  (b * E + base <= a * E + e /\ a * E + e < b * E + base + n)
           <=> (a = b /\ base <= e /\ e < base + n)
  BY Z3

-----------------------------------------------------------------------------
(* The meter keeps its type. *)

LEMMA NothingType == Nothing \in [Slot -> Request]
  <1>1. (CHOOSE e \in MapEvent : TRUE) \in MapEvent
    BY MeterAssumption
  <1> QED BY <1>1 DEF Nothing, Request

LEMMA ZerosType == Zeros \in [MapEvent -> Nat]
  BY DEF Zeros

LEMMA MeterSteps ==
  ASSUME MeterOK
  PROVE  /\ Zero => MeterOK'
         /\ Disturb => MeterOK'
         /\ \A c : Forget(c) => MeterOK'
         /\ \A c \in Config, w \in [Slot -> Request] : Program(c, w) => MeterOK'
  <1>1. Zero => MeterOK'
    BY ZerosType DEF MeterOK, Zero
  <1>2. Disturb => MeterOK'
    BY NothingType DEF MeterOK, Disturb
  <1>3. ASSUME NEW c PROVE Forget(c) => MeterOK'
    BY <1>2 DEF Forget, meter, MeterOK
  <1>4. ASSUME NEW c \in Config, NEW w \in [Slot -> Request]
        PROVE  Program(c, w) => MeterOK'
    BY ZerosType DEF MeterOK, Program
  <1> QED BY <1>1, <1>2, <1>3, <1>4

-----------------------------------------------------------------------------
(* Preparing a pass, and a chunk. *)

LEMMA PassRequestType ==
  ASSUME NEW map, NEW base, NEW n \in Nat, PassListed(map, base, n)
  PROVE  PassRequest(map, base, n) \in [Slot -> Request]
  <1>1. ASSUME NEW s \in Slot
        PROVE  PassRequest(map, base, n)[s] \in Request
    <2>1. CASE s < n
      <3>1. s \in 0 .. n - 1
        BY <2>1, CaptureAssumption
      <3>2. MapIndex(map, base + s) \in MapEvent
        BY <3>1 DEF PassListed
      <3> QED BY <2>1, <3>2 DEF PassRequest, Request
    <2>2. CASE ~(s < n)
      BY <2>2, NothingType DEF PassRequest
    <2> QED BY <2>1, <2>2
  <1> QED BY <1>1 DEF PassRequest

LEMMA PassBounds ==
  ASSUME NEW c, ShapeOK(c), c.events_per_pass <= MaxPerPass,
         NEW base \in 0 .. c.total_event_count
  PROVE  /\ PassEvents(c, base) \in 0 .. MaxPerPass
         /\ base + PassEvents(c, base) <= c.total_event_count
         /\ base \in 0 .. MapSize
  <1>1. \A p, e \in Nat : \A b \in 0 .. e :
          /\ Lesser(p, e - b) \in 0 .. p
          /\ b + Lesser(p, e - b) <= e
    BY DEF Lesser
  <1> DEFINE P == c.events_per_pass
             E == c.total_event_count
             n == Lesser(P, E - base)
  <1>2. /\ P \in Nat /\ E \in Nat /\ base \in 0 .. E
        /\ MapSize \in Nat /\ MaxPerPass \in Nat
        /\ E <= MapSize /\ P <= MaxPerPass
    BY CaptureAssumption DEF ShapeOK
  <1>3. PassEvents(c, base) = n
    BY DEF PassEvents
  <1> HIDE DEF P, E
  <1>4. n \in 0 .. P /\ base + n <= E
    BY <1>1, <1>2
  <1> HIDE DEF n
  <1>5. n \in 0 .. MaxPerPass /\ base + n <= E /\ base \in 0 .. MapSize
    BY <1>2, <1>4
  <1> QED BY <1>3, <1>5 DEF E

LEMMA PassPrepared ==
  ASSUME MeterOK, NEW c, ShapeOK(c), c.events_per_pass <= MaxPerPass,
         NEW base \in 0 .. c.total_event_count, PreparePass(c, base)
  PROVE  /\ MeterOK'
         /\ current_event_base' = base
         /\ current_pass_events' = PassEvents(c, base)
         /\ status' \in {"SUCCESS", "INIT_FAILED", "INVALID_VERSION",
                         "INVALID_CONFIG"}
         /\ status' = "SUCCESS" =>
              /\ ready' /\ owner' = Mine
              /\ want' = PassRequest(c.event_map_indices, base,
                                     PassEvents(c, base))
              /\ PassListed(c.event_map_indices, base, PassEvents(c, base))
  <1> DEFINE n == PassEvents(c, base)
             w == PassRequest(c.event_map_indices, base, n)
  <1>1. n \in Nat
    BY PassBounds
  <1>2. current_event_base' = base /\ current_pass_events' = n
    BY DEF PreparePass
  <1>3. CASE PassListed(c.event_map_indices, base, n) /\ PmuInit(c.api, w)
    <2>1. w \in [Slot -> Request]
      BY <1>1, <1>3, PassRequestType
    <2>2. CASE Program(Mine, w) /\ status' = "SUCCESS"
      <3>1. MeterOK'
        BY <2>1, <2>2, MeterSteps, CaptureAssumption
      <3>2. ready' /\ owner' = Mine /\ want' = w
        BY <2>2 DEF Program
      <3> QED BY <1>2, <1>3, <2>2, <3>1, <3>2
    <2>3. CASE Disturb /\ status' = "INIT_FAILED"
      BY <1>2, <2>3, MeterSteps
    <2>4. CASE Forget(Mine) /\ status' = "INVALID_VERSION"
      BY <1>2, <2>4, MeterSteps
    <2> QED BY <1>3, <2>2, <2>3, <2>4 DEF PmuInit
  <1>4. CASE Forget(Mine) /\ status' = "INVALID_CONFIG"
    BY <1>2, <1>4, MeterSteps
  <1> QED BY <1>3, <1>4 DEF PreparePass

LEMMA ChunkBounds ==
  ASSUME NEW c, ShapeOK(c), NEW start \in 0 .. c.total_ops
  PROVE  /\ ChunkOps(c, start) \in Nat
         /\ ChunkOps(c, start) <= c.ops_per_chunk
         /\ start + ChunkOps(c, start) <= c.total_ops
  BY DEF ShapeOK, ChunkOps, Lesser

(* What nsx_pmu_capture_reset_chunk leaves behind: a zeroed chunk.          *)
LEMMA ChunkReset ==
  ASSUME TypeOK, NEW c, ShapeOK(c), Fits(c), NEW start \in 0 .. c.total_ops,
         capture' = c, complete' \in BOOLEAN, ResetChunk(c, start)
  PROVE  /\ ShapeOK(capture)' /\ ProgressOK' /\ BufferOK' /\ MeterOK'
         /\ \A r \in 0 .. current_chunk_ops' - 1,
               e \in 0 .. c.total_event_count - 1 :
              matrix_storage'[r * c.total_event_count + e] = 0
  <1> DEFINE E == c.total_event_count
             n == ChunkOps(c, start)
  <1>1. /\ current_chunk_start' = start
        /\ current_chunk_ops' = n
        /\ chunk_ready' = FALSE
        /\ matrix_storage' = [k \in 0 .. StorageSize - 1 |->
                                IF k < n * E THEN 0 ELSE matrix_storage[k]]
        /\ PreparePass(c, 0)
    BY DEF ResetChunk
  <1>2. c.events_per_pass <= MaxPerPass /\ 0 \in 0 .. E /\ MeterOK
    BY DEF Fits, ShapeOK, TypeOK
  <1>3. /\ MeterOK'
        /\ current_event_base' = 0
        /\ current_pass_events' = PassEvents(c, 0)
    BY <1>1, <1>2, PassPrepared
  <1>4. ProgressOK'
    <2>1. PassEvents(c, 0) \in 0 .. MaxPerPass /\ 0 \in 0 .. MapSize
      BY <1>2, PassBounds
    <2>2. n \in Nat /\ start \in Nat
      BY ChunkBounds DEF ShapeOK
    <2> HIDE DEF n
    <2> QED BY <1>1, <1>3, <2>1, <2>2 DEF ProgressOK
  <1>5. BufferOK'
    <2>1. 0 \in 0 .. Word - 1
      BY WordType
    <2> QED BY <1>1, <2>1 DEF BufferOK, TypeOK
  <1>6. ShapeOK(capture)'
    OBVIOUS
  <1>7. ASSUME NEW r \in 0 .. n - 1, NEW e \in 0 .. E - 1
        PROVE  matrix_storage'[r * E + e] = 0
    <2>1. n \in Nat /\ E \in Nat /\ n <= c.ops_per_chunk /\ c.ops_per_chunk \in Nat
      <3>1. E \in Nat /\ c.ops_per_chunk \in Nat
        BY CaptureAssumption DEF ShapeOK
      <3>2. n \in Nat /\ n <= c.ops_per_chunk
        BY ChunkBounds
      <3> QED BY ONLY <3>1, <3>2
    <2>2. r * E + e \in Nat /\ r * E + e < n * E
      BY <2>1, RowFits
    <2>3. n * E <= c.ops_per_chunk * E /\ n * E \in Nat /\ c.ops_per_chunk * E \in Nat
      BY <2>1, ProductGrows
    <2>4. c.ops_per_chunk * E <= StorageSize /\ StorageSize \in Nat
      BY <2>3, CaptureAssumption DEF Fits, ShapeOK
    <2>5. r * E + e \in 0 .. StorageSize - 1
      BY <2>2, <2>3, <2>4
    <2> QED BY <1>1, <2>2, <2>5
  <1> QED BY <1>1, <1>3, <1>4, <1>5, <1>6, <1>7

-----------------------------------------------------------------------------
(* The steps. *)

LEMMA InstalledShape ==
  ASSUME NEW cfg \in CaptureCfg, ~InitRefused(cfg)
  PROVE  /\ ShapeOK(Installed(cfg))
         /\ ~TooManyPerPass(cfg) /\ ~StorageTooSmall(cfg) =>
              Fits(Installed(cfg))
  <1> DEFINE c == Installed(cfg)
  <1>1. /\ cfg.api \in BOOLEAN /\ cfg.attached \in BOOLEAN
        /\ cfg.total_ops \in Nat /\ cfg.ops_per_chunk \in Nat
        /\ cfg.event_count \in Nat /\ cfg.events_per_pass \in Nat
        /\ cfg.matrix_storage_count \in 0 .. StorageSize
        /\ \/ cfg.event_map_indices = None
           \/ cfg.event_map_indices \in [0 .. EventCount(cfg) - 1 -> Nat]
        /\ \A n \in 0 .. cfg.total_ops - 1, e \in MapEvent : Cost(n, e) \in Nat
    BY RunAssumption
  <1>2. /\ EventCount(cfg) \in Nat /\ OpsPerChunk(cfg) \in Nat
        /\ EventsPerPass(cfg) \in Nat
    BY <1>1, CaptureAssumption DEF EventCount, OpsPerChunk, EventsPerPass
  <1>3. EventCount(cfg) \in 0 .. MapSize
    BY <1>2, CaptureAssumption DEF InitRefused
  <1>4. /\ c.api = cfg.api /\ c.attached = TRUE
        /\ c.event_map_indices = cfg.event_map_indices
        /\ c.matrix_storage_count = cfg.matrix_storage_count
        /\ c.total_ops = cfg.total_ops /\ c.ops_per_chunk = OpsPerChunk(cfg)
        /\ c.total_event_count = EventCount(cfg)
        /\ c.events_per_pass = EventsPerPass(cfg)
    BY DEF Installed
  <1> HIDE DEF c
  <1>5. ShapeOK(c)
    BY <1>1, <1>2, <1>3, <1>4 DEF ShapeOK
  <1>6. ASSUME ~TooManyPerPass(cfg), ~StorageTooSmall(cfg)
        PROVE  Fits(c)
    <2>1. c.events_per_pass <= MaxPerPass
      BY <1>2, <1>4, <1>6, CaptureAssumption DEF TooManyPerPass
    <2>2. c.ops_per_chunk * c.total_event_count <= c.matrix_storage_count
      <3>1. \A m, n, k \in Nat : ~(k < m * n) => m * n <= k
        BY Z3
      <3> QED BY <1>1, <1>2, <1>4, <1>6, <3>1, CaptureAssumption
              DEF StorageTooSmall
    <2> QED BY <1>1, <1>4, <2>1, <2>2 DEF Fits
  <1> QED BY <1>5, <1>6 DEF c

(* A chunk begins: the common end of Setup, Restart, Recover and Advance. *)
LEMMA ChunkStarted ==
  ASSUME TypeOK, NEW c, ShapeOK(c), Fits(c), NEW start \in 0 .. c.total_ops,
         capture' = c, complete' = FALSE, ResetChunk(c, start),
         Then("layer"), upsets' \in 0 .. MaxUpsets
  PROVE  TypeOK' /\ CaptureInv'
  <1> DEFINE n == PassEvents(c, 0)
             E == c.total_event_count
             len == ChunkOps(c, start)
             map == c.event_map_indices
  <1>1. /\ ShapeOK(capture)' /\ ProgressOK' /\ BufferOK' /\ MeterOK'
        /\ \A r \in 0 .. current_chunk_ops' - 1, e \in 0 .. E - 1 :
              matrix_storage'[r * E + e] = 0
    BY ChunkReset
  <1>2. /\ current_chunk_start' = start /\ current_chunk_ops' = len
        /\ chunk_ready' = FALSE /\ PreparePass(c, 0)
    BY DEF ResetChunk
  <1>3. MeterOK /\ c.events_per_pass <= MaxPerPass /\ 0 \in 0 .. E
    BY DEF TypeOK, Fits, ShapeOK
  <1>4. /\ current_event_base' = 0 /\ current_pass_events' = n
        /\ status' \in {"SUCCESS", "INIT_FAILED", "INVALID_VERSION",
                        "INVALID_CONFIG"}
        /\ status' = "SUCCESS" =>
             /\ ready' /\ owner' = Mine
             /\ want' = PassRequest(map, 0, n)
             /\ PassListed(map, 0, n)
    BY <1>2, <1>3, PassPrepared
  <1>5. n \in 0 .. MaxPerPass /\ n \in Nat /\ 0 + n <= E
    BY <1>3, PassBounds, CaptureAssumption
  <1>6. len \in Nat /\ len <= c.ops_per_chunk /\ start + len <= c.total_ops
    BY ChunkBounds
  <1>7. /\ pc' = IF status' = "SUCCESS" THEN "layer" ELSE "failed"
        /\ op' = 0
    BY DEF Then
  <1>8. TypeOK'
    BY <1>1, <1>4, <1>7 DEF TypeOK, ApplicationOK
  <1>9. ShapeInv'
    BY DEF ShapeInv
  <1>10. CASE pc' = "failed"
    BY <1>8, <1>9, <1>10
       DEF CaptureInv, ChunkInv, MeterInv, LayerInv, CellsInv, ReadyRowsExact,
           InCapture, Running
  <1>11. CASE pc' = "layer" /\ status' = "SUCCESS"
    <2>1. PassEnd' = n
      <3>1. PassEnd' = 0 + n
        BY <1>4 DEF PassEnd
      <3> QED BY <1>5, <3>1
    <2>2. ChunkInv'
      <3>1. \A e \in 0 .. n - 1 : MapIndex(map, e) \in MapEvent
        <4>1. \A e \in 0 .. n - 1 : MapIndex(map, 0 + e) \in MapEvent
          BY <1>4, <1>11 DEF PassListed
        <4>2. \A e \in 0 .. n - 1 : 0 + e = e
          BY <1>5
        <4> QED BY <4>1, <4>2
      <3>2. \A e \in 0 .. PassEnd' - 1 : Column(e)' \in MapEvent
        BY <2>1, <3>1 DEF Column
      <3>3. n <= E
        BY <1>5
      <3>4. Running'
        BY <1>11 DEF Running
      <3> HIDE DEF n, len
      <3> QED BY <1>2, <1>6, <2>1, <3>2, <3>3, <3>4 DEF ChunkInv
    <2>3. MeterInv'
      BY <1>4, <1>11 DEF MeterInv
    <2>4. LayerInv'
      <3>1. c.total_ops \in Nat
        BY DEF ShapeOK
      <3> QED BY <1>7, <1>11, <3>1 DEF LayerInv, Running
    <2>5. CellsInv'
      <3>1. ASSUME NEW r \in 0 .. len - 1, NEW e \in 0 .. E - 1
            PROVE  ~Measured(r, e)' /\ matrix_storage'[Offset(r, e)'] = 0
        <4>1. LayersDone' = 0
          BY <1>7, <1>11 DEF LayersDone
        <4>2. ~(start + r < 0) /\ ~(e < 0)
          BY <1>6 DEF ShapeOK
        <4>3. ~Measured(r, e)'
          BY <1>2, <1>4, <4>1, <4>2 DEF Measured
        <4> QED BY <1>1, <1>2, <4>3 DEF Offset
      <3> QED BY <1>2, <3>1 DEF CellsInv, Columns
    <2>6. ReadyRowsExact'
      BY <1>11 DEF ReadyRowsExact
    <2> QED BY <1>9, <2>2, <2>3, <2>4, <2>5, <2>6, <1>8 DEF CaptureInv
  <1> QED BY <1>7, <1>8, <1>10, <1>11

LEMMA UpsetsBounded ==
  ASSUME TypeOK, NEW n \in Nat, Upsets(n)
  PROVE  upsets' \in 0 .. MaxUpsets
  <1> DEFINE m == upsets + n + (IF status' = "INIT_FAILED" THEN 1 ELSE 0)
  <1>1. upsets' = m /\ m <= MaxUpsets
    BY DEF Upsets
  <1>2. m \in Nat
    BY DEF TypeOK, ApplicationOK
  <1> HIDE DEF m
  <1> QED BY <1>1, <1>2, RunAssumption

(* No call that leaves the capture and the PMU alone matters outside a run. *)
LEMMA Untouched ==
  ASSUME TypeOK, CaptureInv, UNCHANGED <<captureVars, meter>>,
         status' \in {"SUCCESS", "INVALID_HANDLE", "INVALID_CONFIG"},
         pc' = "failed", op' = 0, upsets' \in 0 .. MaxUpsets
  PROVE  TypeOK' /\ CaptureInv'
  <1>1. ~Accepted' /\ ~InCapture' /\ ~Running'
    BY DEF Accepted, InCapture, Running
  <1>2. CaptureInv'
    BY <1>1 DEF CaptureInv, ShapeInv, ChunkInv, MeterInv, LayerInv, CellsInv,
                ReadyRowsExact, InCapture
  <1>3. TypeOK'
    BY DEF TypeOK, ProgressOK, BufferOK, MeterOK, ApplicationOK, captureVars,
           progress, meter
  <1> QED BY <1>2, <1>3

LEMMA SetupStep ==
  ASSUME TypeOK, CaptureInv, NEW cfg \in CaptureCfg, Setup(cfg)
  PROVE  TypeOK' /\ CaptureInv'
  <1>1. upsets' \in 0 .. MaxUpsets
    BY UpsetsBounded DEF Setup
  <1>2. Then("layer")
    BY DEF Setup
  <1>3. CASE /\ InitRefused(cfg)
             /\ status' \in {"INVALID_CONFIG", "INVALID_HANDLE"}
             /\ UNCHANGED <<captureVars, meter>>
    BY <1>1, <1>2, <1>3, Untouched DEF Then
  <1>4. CASE /\ ~InitRefused(cfg)
             /\ capture' = Installed(cfg)
             /\ status' = "INVALID_CONFIG"
             /\ UNCHANGED <<progress, matrix_storage, meter>>
    <2>1. ShapeOK(capture)'
      BY <1>4, InstalledShape
    <2>2. pc' = "failed" /\ op' = 0
      BY <1>2, <1>4 DEF Then
    <2>3. TypeOK'
      BY <1>1, <1>4, <2>1, <2>2
         DEF TypeOK, ProgressOK, BufferOK, MeterOK, ApplicationOK, progress,
             meter
    <2>4. ~Accepted' /\ ~InCapture' /\ ~Running'
      BY <1>4, <2>2 DEF Accepted, InCapture, Running
    <2>5. CaptureInv'
      BY <2>2, <2>4 DEF CaptureInv, ShapeInv, ChunkInv, MeterInv, LayerInv,
                        CellsInv, ReadyRowsExact
    <2> QED BY <2>3, <2>5
  <1>5. CASE /\ ~InitRefused(cfg)
             /\ capture' = Installed(cfg)
             /\ ~TooManyPerPass(cfg) /\ ~StorageTooSmall(cfg)
             /\ complete' = FALSE
             /\ ResetChunk(Installed(cfg), 0)
    <2>1. ShapeOK(Installed(cfg)) /\ Fits(Installed(cfg))
      BY <1>5, InstalledShape
    <2>2. 0 \in 0 .. Installed(cfg).total_ops
      BY <2>1 DEF ShapeOK
    <2> QED BY <1>1, <1>2, <1>5, <2>1, <2>2, ChunkStarted
  <1> QED BY <1>3, <1>4, <1>5 DEF Setup, nsx_pmu_capture_init

(* nsx_pmu_capture_reset on an accepted capture. *)
LEMMA ResetStep ==
  ASSUME TypeOK, CaptureInv, Accepted, nsx_pmu_capture_reset, Then("layer"),
         upsets' \in 0 .. MaxUpsets
  PROVE  TypeOK' /\ CaptureInv'
  <1>1. ShapeOK(capture) /\ Fits(capture)
    BY DEF TypeOK, CaptureInv, ShapeInv
  <1>2. capture' = capture /\ complete' = FALSE /\ ResetChunk(capture, 0)
    BY <1>1 DEF nsx_pmu_capture_reset, Fits
  <1>3. 0 \in 0 .. capture.total_ops
    BY <1>1 DEF ShapeOK
  <1> QED BY <1>1, <1>2, <1>3, ChunkStarted

LEMMA RestartStep ==
  ASSUME TypeOK, CaptureInv, Restart
  PROVE  TypeOK' /\ CaptureInv'
  <1>1. upsets' \in 0 .. MaxUpsets
    BY UpsetsBounded DEF Restart
  <1>2. Accepted
    BY DEF Restart, Accepted, InCapture, TypeOK, ApplicationOK
  <1> QED BY <1>1, <1>2, ResetStep DEF Restart

LEMMA RecoverStep ==
  ASSUME TypeOK, CaptureInv, Recover
  PROVE  TypeOK' /\ CaptureInv'
  <1>1. upsets' \in 0 .. MaxUpsets
    BY UpsetsBounded DEF Recover
  <1>2. Accepted
    BY DEF Recover, Accepted
  <1> QED BY <1>1, <1>2, ResetStep DEF Recover

LEMMA GiveUpStep ==
  ASSUME TypeOK, CaptureInv, GiveUp
  PROVE  TypeOK' /\ CaptureInv'
  <1>1. pc' = "idle" /\ UNCHANGED <<captureVars, status, meter, op, upsets>>
    BY DEF GiveUp
  <1>2. ~Accepted' /\ ~InCapture' /\ ~Running'
    BY <1>1 DEF Accepted, InCapture, Running
  <1>3. CaptureInv'
    BY <1>1, <1>2 DEF CaptureInv, ShapeInv, ChunkInv, MeterInv, LayerInv,
                      CellsInv, ReadyRowsExact
  <1>4. TypeOK'
    BY <1>1 DEF TypeOK, ProgressOK, BufferOK, MeterOK, ApplicationOK,
                captureVars, progress, meter
  <1> QED BY <1>3, <1>4

(* A step of the run that changes neither the capture nor the buffer and    *)
(* finishes no layer keeps everything but the meter's part and the layer's. *)
LEMMA SameCells ==
  ASSUME TypeOK, CaptureInv, UNCHANGED <<captureVars, status, upsets>>,
         UNCHANGED <<ready, owner, want>>,
         Running, Running', LayersDone' = LayersDone, op' \in Nat,
         tally' \in [MapEvent -> Nat], LayerInv'
  PROVE  TypeOK' /\ CaptureInv'
  <1>1. Accepted /\ InCapture /\ InCapture'
    BY DEF Accepted, InCapture, Running
  <1>2. UNCHANGED <<capture, current_chunk_start, current_chunk_ops,
                    current_event_base, current_pass_events, chunk_ready,
                    complete, matrix_storage>>
    BY DEF captureVars, progress
  <1>3. TypeOK'
    BY <1>2 DEF TypeOK, ProgressOK, BufferOK, MeterOK, ApplicationOK, Running
  <1>4. ShapeInv' /\ MeterInv'
    BY <1>1, <1>2 DEF CaptureInv, ShapeInv, MeterInv
  <1>5. ChunkInv'
    BY <1>1, <1>2 DEF CaptureInv, ChunkInv, PassEnd, Column
  <1>6. CellsInv'
    BY <1>2 DEF CaptureInv, CellsInv, Measured, PassEnd, Column, Columns, Offset
  <1>7. ReadyRowsExact'
    BY DEF ReadyRowsExact, Running
  <1> QED BY <1>3, <1>4, <1>5, <1>6, <1>7 DEF CaptureInv

LEMMA LayerBeginStep ==
  ASSUME TypeOK, CaptureInv, LayerBegin
  PROVE  TypeOK' /\ CaptureInv'
  <1>1. /\ pc = "layer" /\ pc' = "body" /\ op' = op
        /\ op < capture.total_ops
        /\ UNCHANGED <<captureVars, status, upsets>>
        /\ IF Sampled(op) THEN Zero ELSE UNCHANGED meter
    BY DEF LayerBegin, nsx_pmu_capture_layer_begin
  <1>2. /\ UNCHANGED <<ready, owner, want>>
        /\ tally' \in [MapEvent -> Nat]
        /\ Sampled(op) => tally' = Zeros
    BY <1>1, ZerosType DEF Zero, meter, TypeOK, MeterOK
  <1>3. Running /\ Running' /\ LayersDone' = LayersDone /\ op' \in Nat
    BY <1>1 DEF Running, LayersDone, TypeOK, ApplicationOK
  <1>4. LayerInv'
    <2>1. Sampled(op)' = Sampled(op) /\ capture' = capture
      BY <1>1 DEF Sampled, captureVars, progress
    <2>2. op <= capture.total_ops
      BY <1>3 DEF CaptureInv, LayerInv
    <2> QED BY <1>1, <1>2, <2>1, <2>2 DEF LayerInv, Running
  <1> QED BY <1>1, <1>2, <1>3, <1>4, SameCells

(* The tally after work, a function of non-negative counts. *)
LEMMA AccrueType ==
  ASSUME tally \in [MapEvent -> Nat], NEW work \in [MapEvent -> Nat],
         Accrue(work)
  PROVE  tally' \in [MapEvent -> Nat] /\ UNCHANGED <<ready, owner, want>>
  BY DEF Accrue

LEMMA RunLayerStep ==
  ASSUME TypeOK, CaptureInv, RunLayer
  PROVE  TypeOK' /\ CaptureInv'
  <1> DEFINE work == [e \in MapEvent |-> Cost(op, e)]
  <1>1. /\ pc = "body" /\ pc' = "close" /\ op' = op
        /\ UNCHANGED <<captureVars, status, upsets>>
        /\ Accrue(work)
    BY DEF RunLayer
  <1>2. Running /\ Running' /\ LayersDone' = LayersDone /\ op' \in Nat
    BY <1>1 DEF Running, LayersDone, TypeOK, ApplicationOK
  <1>3. work \in [MapEvent -> Nat]
    <2>1. Fits(capture) /\ op < capture.total_ops
      BY <1>1 DEF CaptureInv, ShapeInv, Accepted, InCapture, LayerInv
    <2>2. op \in 0 .. capture.total_ops - 1
      BY <2>1 DEF TypeOK, ShapeOK, ApplicationOK
    <2> QED BY <2>1, <2>2 DEF Fits
  <1>4. /\ UNCHANGED <<ready, owner, want>>
        /\ tally' \in [MapEvent -> Nat]
    BY <1>1, <1>3, AccrueType DEF TypeOK, MeterOK
  <1>5. Sampled(op) => tally' = work
    <2>1. ASSUME Sampled(op) PROVE tally' = work
      <3>1. tally = Zeros
        BY <1>1, <2>1 DEF CaptureInv, LayerInv
      <3>2. tally' = [e \in MapEvent |-> Zeros[e] + work[e]]
        BY <1>1, <3>1 DEF Accrue
      <3>3. \A e \in MapEvent : Zeros[e] + work[e] = work[e]
        BY <1>3 DEF Zeros
      <3> QED BY <3>2, <3>3
    <2> QED BY <2>1
  <1>6. LayerInv'
    <2>1. Sampled(op)' = Sampled(op) /\ capture' = capture
      BY <1>1 DEF Sampled, captureVars, progress
    <2>2. op <= capture.total_ops /\ op < capture.total_ops
      BY <1>1, <1>2 DEF CaptureInv, LayerInv
    <2> QED BY <1>1, <1>5, <2>1, <2>2 DEF LayerInv, Running
  <1> QED BY <1>1, <1>2, <1>4, <1>6, SameCells

LEMMA BetweenLayersStep ==
  ASSUME TypeOK, CaptureInv, BetweenLayers
  PROVE  TypeOK' /\ CaptureInv'
  <1> DEFINE work == [e \in MapEvent |-> Overhead(e)]
  <1>1. /\ pc = "gap" /\ pc' = "layer" /\ op' = op + 1
        /\ UNCHANGED <<captureVars, status, upsets>>
        /\ Accrue(work)
    BY DEF BetweenLayers
  <1>2. Running /\ Running' /\ LayersDone' = LayersDone /\ op' \in Nat
    BY <1>1 DEF Running, LayersDone, TypeOK, ApplicationOK
  <1>3. work \in [MapEvent -> Nat]
    BY RunAssumption
  <1>4. /\ UNCHANGED <<ready, owner, want>>
        /\ tally' \in [MapEvent -> Nat]
    BY <1>1, <1>3, AccrueType DEF TypeOK, MeterOK
  <1>5. LayerInv'
    <2>1. op < capture.total_ops /\ op \in Nat /\ capture.total_ops \in Nat
      BY <1>1 DEF CaptureInv, LayerInv, TypeOK, ShapeOK, ApplicationOK
    <2>2. op + 1 <= capture.total_ops
      BY <2>1
    <2>3. capture' = capture
      BY <1>1 DEF captureVars
    <2> QED BY <1>1, <2>2, <2>3 DEF LayerInv, Running
  <1> QED BY <1>1, <1>2, <1>4, <1>5, SameCells

(* Steps made while the rows of a chunk wait to be taken. *)
LEMMA RowsWait ==
  ASSUME TypeOK, CaptureInv, UNCHANGED captureVars, MeterOK', ApplicationOK',
         ~Running, ~Running', Accepted' => Accepted, InCapture' => InCapture,
         pc' \in {"ready", "taken"} => pc \in {"ready", "taken"}
  PROVE  TypeOK' /\ CaptureInv'
  <1>1. UNCHANGED <<capture, current_chunk_start, current_chunk_ops,
                    current_event_base, current_pass_events, chunk_ready,
                    complete, matrix_storage>>
    BY DEF captureVars, progress
  <1>2. TypeOK'
    BY <1>1 DEF TypeOK, ProgressOK, BufferOK
  <1>3. ShapeInv'
    BY <1>1 DEF CaptureInv, ShapeInv
  <1>4. ChunkInv'
    BY <1>1 DEF CaptureInv, ChunkInv, PassEnd, Column
  <1>5. MeterInv' /\ LayerInv' /\ CellsInv'
    BY DEF MeterInv, LayerInv, CellsInv, Running
  <1>6. ReadyRowsExact'
    BY <1>1 DEF CaptureInv, ReadyRowsExact, Columns, Column, Offset
  <1> QED BY <1>2, <1>3, <1>4, <1>5, <1>6 DEF CaptureInv

LEMMA TakeRowsStep ==
  ASSUME TypeOK, CaptureInv, TakeRows
  PROVE  TypeOK' /\ CaptureInv'
  <1>1. /\ pc = "ready" /\ pc' = "taken"
        /\ UNCHANGED <<captureVars, status, meter, op, upsets>>
    BY DEF TakeRows
  <1>2. MeterOK' /\ ApplicationOK'
    BY <1>1 DEF TypeOK, MeterOK, ApplicationOK, meter
  <1> QED BY <1>1, <1>2, RowsWait DEF Running, Accepted, InCapture

LEMMA LendStep ==
  ASSUME TypeOK, CaptureInv, NEW c \in Config, Lend(c)
  PROVE  TypeOK' /\ CaptureInv'
  <1>1. /\ pc \in {"idle", "ready", "taken", "failed", "done"}
        /\ Program(c, Nothing)
        /\ UNCHANGED <<captureVars, status, pc, op, rows, upsets>>
    BY DEF Lend, application
  <1>2. MeterOK'
    BY <1>1, NothingType, MeterSteps DEF TypeOK
  <1>3. ApplicationOK'
    BY <1>1 DEF TypeOK, ApplicationOK
  <1> QED BY <1>1, <1>2, <1>3, RowsWait DEF Running, Accepted, InCapture

LEMMA AdvanceStep ==
  ASSUME TypeOK, CaptureInv, Advance
  PROVE  TypeOK' /\ CaptureInv'
  <1>1. /\ pc = "taken" /\ nsx_pmu_capture_advance_chunk
        /\ Then(IF complete THEN "done" ELSE "layer")
    BY DEF Advance
  <1>2. upsets' \in 0 .. MaxUpsets
    BY UpsetsBounded DEF Advance
  <1>3. /\ ShapeOK(capture) /\ Fits(capture) /\ chunk_ready
        /\ current_chunk_start + current_chunk_ops <= capture.total_ops
        /\ current_chunk_start \in Nat /\ current_chunk_ops \in Nat
        /\ complete \in BOOLEAN
    BY <1>1 DEF TypeOK, ProgressOK, CaptureInv, ShapeInv, ChunkInv, Accepted,
                InCapture, Running
  <1>4. CASE complete
    <2>1. /\ chunk_ready' = FALSE /\ status' = "SUCCESS" /\ pc' = "done"
          /\ op' = 0
          /\ UNCHANGED <<capture, current_chunk_start, current_chunk_ops,
                         current_event_base, current_pass_events, complete,
                         matrix_storage, meter>>
      BY <1>1, <1>3, <1>4 DEF nsx_pmu_capture_advance_chunk, Then
    <2>2. TypeOK'
      BY <1>2, <2>1 DEF TypeOK, ProgressOK, BufferOK, MeterOK, ApplicationOK,
                        meter
    <2>3. CaptureInv'
      BY <2>1 DEF CaptureInv, ShapeInv, ChunkInv, MeterInv, LayerInv, CellsInv,
                  ReadyRowsExact, Accepted, InCapture, Running
    <2> QED BY <2>2, <2>3
  <1>5. CASE ~complete
    <2>1. capture' = capture /\ complete' = FALSE
          /\ ResetChunk(capture, NextChunk) /\ Then("layer")
      BY <1>1, <1>3, <1>5 DEF nsx_pmu_capture_advance_chunk
    <2>2. NextChunk \in 0 .. capture.total_ops
      BY <1>3 DEF NextChunk, ShapeOK
    <2> QED BY <1>2, <1>3, <2>1, <2>2, ChunkStarted
  <1> QED BY <1>3, <1>4, <1>5

LEMMA StrayStep ==
  ASSUME TypeOK, CaptureInv, Stray
  PROVE  TypeOK' /\ CaptureInv'
  <1>1. UNCHANGED <<pc, op, rows, upsets>>
    BY DEF Stray, application
  <1>2. CASE pc \in {"ready", "taken"} /\ nsx_pmu_capture_model_end
    <2>1. chunk_ready
      BY <1>2 DEF CaptureInv, ChunkInv, InCapture, Running
    <2>2. status' = "SUCCESS" /\ UNCHANGED <<captureVars, meter>>
      BY <1>2, <2>1 DEF nsx_pmu_capture_model_end
    <2>3. MeterOK' /\ ApplicationOK'
      BY <1>1, <2>2 DEF TypeOK, MeterOK, ApplicationOK, meter
    <2> QED BY <1>1, <1>2, <2>2, <2>3, RowsWait
            DEF Running, Accepted, InCapture
  <1>3. CASE pc = "layer" /\ nsx_pmu_capture_advance_chunk
    <2>1. ~chunk_ready
      BY <1>3 DEF CaptureInv, ChunkInv, InCapture, Running
    <2>2. status' = "INVALID_CONFIG" /\ UNCHANGED <<captureVars, meter>>
      BY <1>3, <2>1 DEF nsx_pmu_capture_advance_chunk
    <2>3. UNCHANGED <<capture, current_chunk_start, current_chunk_ops,
                      current_event_base, current_pass_events, chunk_ready,
                      complete, matrix_storage, ready, owner, want, tally>>
      BY <2>2 DEF captureVars, progress, meter
    <2>4. TypeOK'
      BY <1>1, <2>2, <2>3
         DEF TypeOK, ProgressOK, BufferOK, MeterOK, ApplicationOK
    <2>5. CaptureInv'
      BY <1>1, <1>3, <2>3
         DEF CaptureInv, ShapeInv, ChunkInv, MeterInv, LayerInv, CellsInv,
             ReadyRowsExact, Accepted, InCapture, Running, PassEnd, Column,
             Columns, Measured, LayersDone, Offset
    <2> QED BY <2>4, <2>5
  <1>4. CASE pc = "idle" /\ ~capture.attached /\ nsx_pmu_capture_reset
    <2>1. status' = "INVALID_HANDLE" /\ UNCHANGED <<captureVars, meter>>
      BY <1>4 DEF nsx_pmu_capture_reset
    <2>2. MeterOK' /\ ApplicationOK'
      BY <1>1, <2>1 DEF TypeOK, MeterOK, ApplicationOK, meter
    <2> QED BY <1>1, <1>4, <2>1, <2>2, RowsWait
            DEF Running, Accepted, InCapture
  <1> QED BY <1>2, <1>3, <1>4 DEF Stray

LEMMA StutterStep ==
  ASSUME TypeOK, CaptureInv, UNCHANGED vars
  PROVE  TypeOK' /\ CaptureInv'
  <1>1. UNCHANGED <<capture, current_chunk_start, current_chunk_ops,
                    current_event_base, current_pass_events, chunk_ready,
                    complete, matrix_storage, status, ready, owner, want,
                    tally, pc, op, upsets>>
    BY DEF vars, captureVars, progress, meter, application
  <1>2. TypeOK'
    BY <1>1 DEF TypeOK, ProgressOK, BufferOK, MeterOK, ApplicationOK
  <1>3. CaptureInv'
    BY <1>1 DEF CaptureInv, ShapeInv, ChunkInv, MeterInv, LayerInv, CellsInv,
                ReadyRowsExact, Accepted, InCapture, Running, PassEnd, Column,
                Columns, Measured, LayersDone, Offset, Sampled
  <1> QED BY <1>2, <1>3

(* What layer_end reads in a slot of the pass: the layer's own occurrences. *)
LEMMA PassReading ==
  ASSUME TypeOK, CaptureInv, pc = "close", Sampled(op),
         NEW value \in Readings(Mine), NEW s \in 0 .. current_pass_events - 1
  PROVE  /\ Cost(op, Column(current_event_base + s)) \in Nat
         /\ value[s] = Cost(op, Column(current_event_base + s)) % Word
  <1> DEFINE e == current_event_base + s
             map == capture.event_map_indices
  <1>1. /\ s \in Slot /\ s < current_pass_events
        /\ e \in 0 .. PassEnd - 1
    <2>1. /\ current_event_base \in Nat /\ current_pass_events \in Nat
          /\ current_pass_events <= MaxPerPass
      BY CaptureAssumption DEF TypeOK, ProgressOK
    <2> QED BY <2>1, CaptureAssumption DEF PassEnd
  <1>2. Column(e) \in MapEvent
    BY <1>1 DEF CaptureInv, ChunkInv, InCapture
  <1>3. owner = Mine /\ want = PassRequest(map, current_event_base,
                                          current_pass_events)
    BY DEF CaptureInv, MeterInv, Running
  <1>4. want[s].enabled /\ want[s].eventId = Column(e)
        /\ want[s].counterSize = 32
    BY <1>1, <1>3 DEF PassRequest, Column
  <1>5. tally = [x \in MapEvent |-> Cost(op, x)]
    BY DEF CaptureInv, LayerInv
  <1>6. value = [t \in Slot |-> Exact(t)]
    BY <1>3 DEF Readings
  <1>7. value[s] = Cost(op, Column(e)) % Word
    BY <1>1, <1>2, <1>4, <1>5, <1>6 DEF Exact, Word
  <1>8. Cost(op, Column(e)) \in Nat
    BY <1>2, <1>5 DEF TypeOK, MeterOK
  <1> QED BY <1>7, <1>8

(* The buffer after layer_end has sampled operator op. *)
LEMMA RowAccumulated ==
  ASSUME TypeOK, CaptureInv, pc = "close", Sampled(op),
         NEW value \in Readings(Mine),
         matrix_storage' = Accumulated(op - current_chunk_start, value)
  PROVE  /\ BufferOK'
         /\ \A r \in 0 .. current_chunk_ops - 1, e \in Columns :
              matrix_storage'[Offset(r, e)] =
                IF e < current_event_base
                     \/ (e < PassEnd /\ current_chunk_start + r < op + 1)
                  THEN Cost(current_chunk_start + r, Column(e)) % Word
                  ELSE 0
  <1> DEFINE E == capture.total_event_count
             base == current_event_base
             n == current_pass_events
             start == current_chunk_start
             a == op - start
             first == a * E + base
  <1>1. /\ E \in Nat /\ base \in Nat /\ n \in Nat /\ base + n <= E
        /\ start \in Nat /\ current_chunk_ops \in Nat /\ op \in Nat
        /\ start <= op /\ op < start + current_chunk_ops
    BY DEF TypeOK, ShapeOK, ProgressOK, ApplicationOK, CaptureInv, ChunkInv,
           InCapture, PassEnd, Sampled
  <1>2. a \in 0 .. current_chunk_ops - 1 /\ start + a = op /\ first \in Nat
    <2>1. a \in 0 .. current_chunk_ops - 1 /\ a \in Nat /\ start + a = op
      BY <1>1
    <2>2. a * E \in Nat
      BY <1>1, <2>1, ProductGrows
    <2> QED BY <1>1, <2>1, <2>2
  <1>3. matrix_storage' = [k \in 0 .. StorageSize - 1 |->
          IF first <= k /\ k < first + n
            THEN (matrix_storage[k] + value[k - first]) % Word
            ELSE matrix_storage[k]]
    BY DEF Accumulated, Offset
  <1>4. \A k \in 0 .. StorageSize - 1 : matrix_storage[k] \in 0 .. Word - 1
    BY DEF TypeOK, BufferOK
  <1>5. ASSUME NEW s \in 0 .. n - 1
        PROVE  /\ Cost(op, Column(base + s)) \in Nat
               /\ value[s] = Cost(op, Column(base + s)) % Word
               /\ value[s] \in 0 .. Word - 1
               /\ (0 + value[s]) % Word = value[s]
    BY PassReading, Remainder, WordType
  <1> HIDE DEF E, base, n, start, a, first
  <1>6. BufferOK'
    <2>1. ASSUME NEW k \in 0 .. StorageSize - 1
          PROVE  matrix_storage'[k] \in 0 .. Word - 1
      <3>1. CASE first <= k /\ k < first + n
        <4>1. k - first \in 0 .. n - 1
          BY <1>1, <1>2, <3>1, CaptureAssumption
        <4>2. matrix_storage[k] + value[k - first] \in Nat
          BY <1>4, <1>5, <4>1, WordType
        <4>3. (matrix_storage[k] + value[k - first]) % Word \in 0 .. Word - 1
          BY <4>2, Remainder, WordType
        <4> QED BY <1>3, <3>1, <4>3
      <3>2. CASE ~(first <= k /\ k < first + n)
        BY <1>3, <1>4, <3>2
      <3> QED BY <3>1, <3>2
    <2> QED BY <1>3, <2>1 DEF BufferOK
  <1>7. ASSUME NEW r \in 0 .. current_chunk_ops - 1, NEW e \in 0 .. E - 1
        PROVE  matrix_storage'[r * E + e] =
                 IF e < base \/ (e < base + n /\ start + r < op + 1)
                   THEN Cost(start + r, Column(e)) % Word
                   ELSE 0
    <2> DEFINE k == r * E + e
    <2>1. k \in 0 .. StorageSize - 1
      <3>1. k \in Nat /\ k < current_chunk_ops * E
        BY <1>1, RowFits
      <3>2. /\ current_chunk_ops <= capture.ops_per_chunk
            /\ capture.ops_per_chunk \in Nat
            /\ capture.ops_per_chunk * E <= capture.matrix_storage_count
            /\ capture.matrix_storage_count \in 0 .. StorageSize
        BY DEF CaptureInv, ChunkInv, ShapeInv, Fits, Accepted, InCapture,
               TypeOK, ShapeOK, E
      <3>3. /\ current_chunk_ops * E <= capture.ops_per_chunk * E
            /\ current_chunk_ops * E \in Nat
            /\ capture.ops_per_chunk * E \in Nat
        BY <1>1, <3>2, ProductGrows
      <3> HIDE DEF k
      <3> QED BY <3>1, <3>2, <3>3, CaptureAssumption
    <2>2. matrix_storage[k] =
            IF e < base \/ (e < base + n /\ start + r < op)
              THEN Cost(start + r, Column(e)) % Word
              ELSE 0
      BY DEF CaptureInv, CellsInv, Running, Columns, Measured, PassEnd,
             LayersDone, Offset, E, base, n, start
    <2>3. r \in Nat /\ a \in Nat
      BY <1>1, <1>2
    <2>4. (first <= k /\ k < first + n) <=> (r = a /\ base <= e /\ e < base + n)
      BY <1>1, <2>3, InPass DEF first
    <2>5. CASE r = a /\ base <= e /\ e < base + n
      <3>1. /\ start + r = op /\ ~(e < base) /\ ~(start + r < op)
            /\ e < base + n /\ start + r < op + 1
            /\ e - base \in 0 .. n - 1 /\ base + (e - base) = e
        BY <1>1, <1>2, <2>5
      <3>2. k - first = e - base
        <4>1. \A x, y, z \in Int : (x + y) - (x + z) = y - z
          OBVIOUS
        <4>2. a * E \in Nat
          BY <1>1, <2>3, ProductGrows
        <4> QED BY <1>1, <2>5, <4>1, <4>2 DEF first
      <3>3. matrix_storage[k] = 0
        BY <2>2, <3>1
      <3>4. matrix_storage'[k] = (matrix_storage[k] + value[k - first]) % Word
        BY <1>3, <2>1, <2>4, <2>5
      <3>5. matrix_storage'[k] = (0 + value[e - base]) % Word
        BY <3>2, <3>3, <3>4
      <3>6. value[e - base] = Cost(op, Column(base + (e - base))) % Word
            /\ (0 + value[e - base]) % Word = value[e - base]
        BY <1>5, <3>1
      <3>7. matrix_storage'[k] = Cost(op, Column(e)) % Word
        BY <3>1, <3>5, <3>6
      <3> QED BY <3>1, <3>7
    <2>6. CASE ~(r = a /\ base <= e /\ e < base + n)
      <3>1. matrix_storage'[k] = matrix_storage[k]
        BY <1>3, <2>1, <2>4, <2>6
      <3>2. (e < base \/ (e < base + n /\ start + r < op + 1))
              <=> (e < base \/ (e < base + n /\ start + r < op))
        BY <1>1, <1>2, <2>3, <2>6
      <3> QED BY <2>2, <3>1, <3>2
    <2> QED BY <2>5, <2>6
  <1> QED BY <1>6, <1>7 DEF Columns, Offset, PassEnd, E, base, n, start

LEMMA LayerEndStep ==
  ASSUME TypeOK, CaptureInv, LayerEnd
  PROVE  TypeOK' /\ CaptureInv'
  <1>1. /\ pc = "close" /\ pc' = "gap" /\ op' = op
        /\ UNCHANGED <<capture, progress, status, upsets>>
        /\ nsx_pmu_capture_layer_end(op)
    BY DEF LayerEnd, nsx_pmu_capture_layer_end
  <1>2. UNCHANGED <<capture, current_chunk_start, current_chunk_ops,
                    current_event_base, current_pass_events, chunk_ready,
                    complete, status, upsets>>
    BY <1>1 DEF progress
  <1>3. ready
    BY <1>1 DEF CaptureInv, MeterInv, Running
  <1>4. /\ UNCHANGED <<ready, owner, want>>
        /\ tally' \in [MapEvent -> Nat]
    <2>1. Zero \/ UNCHANGED meter
      BY <1>1 DEF nsx_pmu_capture_layer_end
    <2> QED BY <2>1, ZerosType DEF Zero, meter, TypeOK, MeterOK
  <1>5. /\ BufferOK'
        /\ \A r \in 0 .. current_chunk_ops - 1, e \in Columns :
             matrix_storage'[Offset(r, e)] =
               IF e < current_event_base
                    \/ (e < PassEnd /\ current_chunk_start + r < op + 1)
                 THEN Cost(current_chunk_start + r, Column(e)) % Word
                 ELSE 0
    <2>1. CASE Sampled(op)
      <3>1. PICK value \in Readings(Mine) :
              matrix_storage' = Accumulated(op - current_chunk_start, value)
        BY <1>1, <1>3, <2>1 DEF nsx_pmu_capture_layer_end
      <3> QED BY <1>1, <2>1, <3>1, RowAccumulated
    <2>2. CASE ~Sampled(op)
      <3>1. matrix_storage' = matrix_storage
        BY <1>1, <2>2 DEF nsx_pmu_capture_layer_end
      <3>2. BufferOK'
        BY <3>1 DEF TypeOK, BufferOK
      <3>3. ASSUME NEW r \in 0 .. current_chunk_ops - 1, NEW e \in Columns
            PROVE  Measured(r, e) <=>
                     (e < current_event_base
                       \/ (e < PassEnd /\ current_chunk_start + r < op + 1))
        <4>1. /\ current_chunk_start \in Nat /\ current_chunk_ops \in Nat
              /\ op \in Nat
          BY DEF TypeOK, ProgressOK, ApplicationOK
        <4>2. current_chunk_start + r # op
          BY <2>2, <4>1 DEF Sampled
        <4>3. current_chunk_start + r < op + 1 <=> current_chunk_start + r < op
          BY <4>1, <4>2
        <4> QED BY <1>1, <4>3 DEF Measured, LayersDone
      <3> QED BY <1>1, <3>1, <3>2, <3>3 DEF CaptureInv, CellsInv, Running
    <2> QED BY <2>1, <2>2
  <1>6. TypeOK'
    BY <1>1, <1>2, <1>4, <1>5 DEF TypeOK, ProgressOK, MeterOK, ApplicationOK
  <1>7. ShapeInv' /\ MeterInv'
    BY <1>1, <1>2, <1>4
       DEF CaptureInv, ShapeInv, MeterInv, Accepted, InCapture, Running
  <1>8. ChunkInv'
    BY <1>1, <1>2 DEF CaptureInv, ChunkInv, InCapture, Running, PassEnd, Column
  <1>9. LayerInv'
    BY <1>1, <1>2 DEF CaptureInv, LayerInv, Running
  <1>10. CellsInv'
    <2>1. LayersDone' = op + 1
      BY <1>1 DEF LayersDone
    <2> QED BY <1>2, <1>5, <2>1
            DEF CellsInv, Measured, PassEnd, Column, Columns, Offset
  <1>11. ReadyRowsExact'
    BY <1>1 DEF ReadyRowsExact
  <1> QED BY <1>6, <1>7, <1>8, <1>9, <1>10, <1>11 DEF CaptureInv

(* At the end of a run every column up to the end of the pass is measured.  *)
LEMMA PassMeasured ==
  ASSUME TypeOK, CaptureInv, pc = "layer", op = capture.total_ops
  PROVE  \A r \in 0 .. current_chunk_ops - 1, e \in Columns :
           matrix_storage[Offset(r, e)] =
             IF e < PassEnd
               THEN Cost(current_chunk_start + r, Column(e)) % Word
               ELSE 0
  <1> SUFFICES ASSUME NEW r \in 0 .. current_chunk_ops - 1, NEW e \in Columns
               PROVE  Measured(r, e) <=> e < PassEnd
    BY DEF CaptureInv, CellsInv, Running
  <1>1. /\ current_chunk_start \in Nat /\ current_chunk_ops \in Nat
        /\ current_event_base \in Nat /\ current_pass_events \in Nat
        /\ capture.total_ops \in Nat /\ capture.total_event_count \in Nat
        /\ current_chunk_start + current_chunk_ops <= capture.total_ops
    BY DEF TypeOK, ShapeOK, ProgressOK, CaptureInv, ChunkInv, InCapture
  <1>2. LayersDone = capture.total_ops
    BY DEF LayersDone
  <1>3. current_chunk_start + r < LayersDone
    BY <1>1, <1>2
  <1>4. e < current_event_base => e < PassEnd
    BY <1>1 DEF PassEnd, Columns
  <1> QED BY <1>3, <1>4 DEF Measured

LEMMA ModelEndStep ==
  ASSUME TypeOK, CaptureInv, ModelEnd
  PROVE  TypeOK' /\ CaptureInv'
  <1> DEFINE E == capture.total_event_count
             map == capture.event_map_indices
  <1>1. /\ pc = "layer" /\ op = capture.total_ops
        /\ nsx_pmu_capture_model_end
        /\ Then(IF chunk_ready' THEN "ready" ELSE "layer")
    BY DEF ModelEnd
  <1>2. upsets' \in 0 .. MaxUpsets
    BY UpsetsBounded DEF ModelEnd
  <1>3. /\ ~chunk_ready /\ ~complete
        /\ current_chunk_start + current_chunk_ops <= capture.total_ops
        /\ current_chunk_ops <= capture.ops_per_chunk
        /\ PassEnd <= E /\ Fits(capture) /\ ShapeOK(capture)
        /\ \A e \in 0 .. PassEnd - 1 : Column(e) \in MapEvent
    BY <1>1 DEF CaptureInv, ChunkInv, ShapeInv, Accepted, InCapture, Running,
                TypeOK
  <1>4. PassEnd \in Nat /\ E \in Nat
    BY DEF TypeOK, ProgressOK, ShapeOK, PassEnd
  <1>5. \A r \in 0 .. current_chunk_ops - 1, e \in Columns :
          matrix_storage[Offset(r, e)] =
            IF e < PassEnd
              THEN Cost(current_chunk_start + r, Column(e)) % Word
              ELSE 0
    BY <1>1, PassMeasured
  <1>6. CASE /\ PassEnd >= E /\ chunk_ready' = TRUE
             /\ complete' = LastChunk /\ status' = "SUCCESS"
             /\ UNCHANGED <<capture, current_chunk_start, current_chunk_ops,
                            current_event_base, current_pass_events,
                            matrix_storage, meter>>
    <2>1. pc' = "ready" /\ op' = 0 /\ PassEnd = E
      BY <1>1, <1>3, <1>4, <1>6 DEF Then
    <2>2. TypeOK'
      BY <1>2, <1>6, <2>1
         DEF TypeOK, ProgressOK, BufferOK, MeterOK, ApplicationOK, meter,
             LastChunk
    <2>3. ShapeInv'
      BY <1>3, <1>6 DEF ShapeInv
    <2>4. ChunkInv'
      <3>1. PassEnd' = PassEnd
        BY <1>6 DEF PassEnd
      <3> QED BY <1>3, <1>6, <2>1, <3>1 DEF ChunkInv, Running, Column
    <2>5. MeterInv' /\ LayerInv' /\ CellsInv'
      BY <2>1 DEF MeterInv, LayerInv, CellsInv, Running
    <2>6. ReadyRowsExact'
      <3>1. \A e \in Columns : e < PassEnd /\ e \in 0 .. PassEnd - 1
        BY <1>4, <2>1 DEF Columns
      <3> QED BY <1>3, <1>5, <1>6, <3>1
              DEF ReadyRowsExact, Columns, Column, Offset
    <2> QED BY <2>2, <2>3, <2>4, <2>5, <2>6 DEF CaptureInv
  <1>7. CASE /\ PassEnd < E /\ PreparePass(capture, PassEnd)
             /\ UNCHANGED <<capture, current_chunk_start, current_chunk_ops,
                            chunk_ready, complete, matrix_storage>>
    <2> DEFINE n == PassEvents(capture, PassEnd)
    <2>1. PassEnd \in 0 .. E /\ capture.events_per_pass <= MaxPerPass /\ MeterOK
      BY <1>3, <1>4 DEF Fits, TypeOK
    <2>2. /\ MeterOK' /\ current_event_base' = PassEnd
          /\ current_pass_events' = n
          /\ status' \in {"SUCCESS", "INIT_FAILED", "INVALID_VERSION",
                          "INVALID_CONFIG"}
          /\ status' = "SUCCESS" =>
               /\ ready' /\ owner' = Mine
               /\ want' = PassRequest(map, PassEnd, n)
               /\ PassListed(map, PassEnd, n)
      BY <1>3, <1>7, <2>1, PassPrepared
    <2>3. /\ n \in 0 .. MaxPerPass /\ PassEnd + n <= E
          /\ PassEnd \in 0 .. MapSize
      BY <1>3, <2>1, PassBounds
    <2>4. /\ pc' = IF status' = "SUCCESS" THEN "layer" ELSE "failed"
          /\ op' = 0
      BY <1>1, <1>3, <1>7 DEF Then
    <2>5. TypeOK'
      BY <1>2, <1>7, <2>2, <2>3, <2>4
         DEF TypeOK, ProgressOK, BufferOK, ApplicationOK
    <2>6. ShapeInv'
      BY <1>3, <1>7 DEF ShapeInv
    <2>7. CASE pc' = "failed"
      BY <2>5, <2>6, <2>7
         DEF CaptureInv, ChunkInv, MeterInv, LayerInv, CellsInv,
             ReadyRowsExact, InCapture, Running
    <2>8. CASE pc' = "layer" /\ status' = "SUCCESS"
      <3> DEFINE top == PassEnd + n
      <3>1. PassEnd' = top
        BY <2>2 DEF PassEnd
      <3>2. ChunkInv'
        <4>1. ASSUME NEW e \in 0 .. top - 1
              PROVE  Column(e) \in MapEvent
          <5>1. CASE e < PassEnd
            BY <1>3, <1>4, <5>1
          <5>2. CASE ~(e < PassEnd)
            <6>1. e - PassEnd \in 0 .. n - 1 /\ PassEnd + (e - PassEnd) = e
              BY <1>4, <2>3, <5>2, CaptureAssumption
            <6>2. MapIndex(map, PassEnd + (e - PassEnd)) \in MapEvent
              BY <2>2, <2>8, <6>1 DEF PassListed
            <6> QED BY <6>1, <6>2 DEF Column
          <5> QED BY <5>1, <5>2
        <4>2. \A e \in 0 .. PassEnd' - 1 : Column(e)' \in MapEvent
          <5>1. \A e \in 0 .. PassEnd' - 1 : Column(e) \in MapEvent
            <6>1. 0 .. PassEnd' - 1 = 0 .. top - 1
              BY ONLY <3>1, Zenon
            <6> QED BY ONLY <4>1, <6>1, Zenon
          <5>2. \A e : Column(e)' = Column(e)
            BY <1>7 DEF Column
          <5> QED BY <5>1, <5>2
        <4>3. PassEnd' <= E
          BY <2>3, <3>1
        <4> HIDE DEF n
        <4> QED BY <1>3, <1>7, <2>8, <4>2, <4>3 DEF ChunkInv, Running
      <3>3. MeterInv'
        BY <1>7, <2>2, <2>8 DEF MeterInv
      <3>4. LayerInv'
        <4>1. capture.total_ops \in Nat
          BY DEF TypeOK, ShapeOK
        <4> QED BY <1>7, <2>4, <2>8, <4>1 DEF LayerInv, Running
      <3>5. CellsInv'
        <4>1. ASSUME NEW r \in 0 .. current_chunk_ops - 1, NEW e \in Columns
              PROVE  Measured(r, e)' <=> e < PassEnd
          <5>1. LayersDone' = 0
            BY <2>4, <2>8 DEF LayersDone
          <5>2. ~(current_chunk_start + r < 0)
            BY DEF TypeOK, ProgressOK
          <5> QED BY <1>7, <2>2, <5>1, <5>2 DEF Measured
        <4> QED BY <1>5, <1>7, <4>1 DEF CellsInv, Columns, Column, Offset
      <3>6. ReadyRowsExact'
        BY <2>8 DEF ReadyRowsExact
      <3> QED BY <2>6, <3>2, <3>3, <3>4, <3>5, <3>6, <2>5 DEF CaptureInv
    <2> QED BY <2>4, <2>7, <2>8
  <1> QED BY <1>1, <1>3, <1>6, <1>7 DEF nsx_pmu_capture_model_end, PassEnd

-----------------------------------------------------------------------------
(* The words of the buffer that are not the capture's.                      *)

(* Whatever lies beyond the storage of the capture in hand stays as it is.  *)
BeyondKept ==
  \A k \in capture'.matrix_storage_count .. StorageSize - 1 :
    matrix_storage'[k] = matrix_storage[k]

LEMMA ResetKeeps ==
  ASSUME TypeOK, NEW c, ShapeOK(c), Fits(c), NEW start \in 0 .. c.total_ops,
         capture' = c, ResetChunk(c, start)
  PROVE  BeyondKept
  <1> DEFINE E == c.total_event_count
             len == ChunkOps(c, start)
             M == c.matrix_storage_count
  <1>1. /\ len \in Nat /\ len <= c.ops_per_chunk /\ c.ops_per_chunk \in Nat
        /\ E \in Nat /\ M \in Nat /\ c.ops_per_chunk * E <= M
    <2>1. len \in Nat /\ len <= c.ops_per_chunk
      BY ChunkBounds
    <2>2. /\ c.ops_per_chunk \in Nat /\ E \in Nat /\ M \in Nat
          /\ c.ops_per_chunk * E <= M
      BY CaptureAssumption DEF ShapeOK, Fits
    <2> QED BY <2>1, <2>2
  <1>2. len * E \in Nat /\ c.ops_per_chunk * E \in Nat
        /\ len * E <= c.ops_per_chunk * E
    BY <1>1, ProductGrows
  <1>3. matrix_storage' = [k \in 0 .. StorageSize - 1 |->
          IF k < len * E THEN 0 ELSE matrix_storage[k]]
    BY DEF ResetChunk
  <1>4. ASSUME NEW k \in M .. StorageSize - 1
        PROVE  matrix_storage'[k] = matrix_storage[k]
    <2> HIDE DEF len, E, M
    <2>1. ~(k < len * E) /\ k \in 0 .. StorageSize - 1
      BY <1>1, <1>2, CaptureAssumption
    <2> QED BY <1>3, <2>1
  <1> QED BY <1>4 DEF BeyondKept

LEMMA LayerEndKeeps ==
  ASSUME TypeOK, CaptureInv, LayerEnd
  PROVE  BeyondKept
  <1> DEFINE E == capture.total_event_count
             M == capture.matrix_storage_count
             base == current_event_base
             n == current_pass_events
             a == op - current_chunk_start
             first == a * E + base
  <1>1. pc = "close" /\ nsx_pmu_capture_layer_end(op) /\ capture' = capture
    BY DEF LayerEnd, nsx_pmu_capture_layer_end
  <1>2. CASE matrix_storage' = matrix_storage
    BY <1>2 DEF BeyondKept
  <1>3. CASE Sampled(op) /\ matrix_storage' # matrix_storage
    <2>1. PICK value \in Readings(Mine) :
            matrix_storage' = Accumulated(a, value)
      BY <1>1, <1>3 DEF nsx_pmu_capture_layer_end
    <2>2. matrix_storage' = [k \in 0 .. StorageSize - 1 |->
            IF first <= k /\ k < first + n
              THEN (matrix_storage[k] + value[k - first]) % Word
              ELSE matrix_storage[k]]
      BY <2>1 DEF Accumulated, Offset
    <2>3. /\ E \in Nat /\ M \in Nat /\ base \in Nat /\ n \in Nat
          /\ base + n <= E /\ current_chunk_ops \in Nat
          /\ a \in 0 .. current_chunk_ops - 1
          /\ current_chunk_ops <= capture.ops_per_chunk
          /\ capture.ops_per_chunk \in Nat
          /\ capture.ops_per_chunk * E <= M
      <3>1. /\ E \in Nat /\ M \in Nat /\ base \in Nat /\ n \in Nat
            /\ current_chunk_ops \in Nat /\ capture.ops_per_chunk \in Nat
            /\ current_chunk_start \in Nat /\ op \in Nat
        BY CaptureAssumption
           DEF TypeOK, ShapeOK, ProgressOK, ApplicationOK
      <3>2. /\ Fits(capture) /\ PassEnd <= E
            /\ current_chunk_ops <= capture.ops_per_chunk
        BY <1>1 DEF CaptureInv, ShapeInv, ChunkInv, Accepted, InCapture
      <3>3. a \in 0 .. current_chunk_ops - 1
        BY <1>3, <3>1 DEF Sampled
      <3>4. capture.ops_per_chunk * E <= M
        BY <3>2 DEF Fits
      <3>5. base + n <= E
        BY <3>2 DEF PassEnd
      <3> HIDE DEF a, E, M, base, n
      <3> QED BY <3>1, <3>2, <3>3, <3>4, <3>5
    <2>4. /\ current_chunk_ops * E <= capture.ops_per_chunk * E
          /\ current_chunk_ops * E \in Nat /\ capture.ops_per_chunk * E \in Nat
      BY <2>3, ProductGrows
    <2>5. first + n <= current_chunk_ops * E /\ first \in Nat
      <3>1. \A x, y, z \in Nat : x \in 0 .. y - 1 => x * z + z <= y * z
                                                   /\ x * z \in Nat
        BY Z3
      <3>2. a * E + E <= current_chunk_ops * E /\ a * E \in Nat
        BY <2>3, <3>1
      <3> HIDE DEF a, E, base, n
      <3> QED BY <2>3, <2>4, <3>2
    <2>6. ASSUME NEW k \in M .. StorageSize - 1
          PROVE  matrix_storage'[k] = matrix_storage[k]
      <3> HIDE DEF a, E, base, n, first, M
      <3>1. ~(k < first + n) /\ k \in 0 .. StorageSize - 1
        BY <2>3, <2>4, <2>5, CaptureAssumption
      <3> QED BY <2>2, <3>1
    <2> QED BY <1>1, <2>6 DEF BeyondKept
  <1> QED BY <1>1, <1>2, <1>3 DEF nsx_pmu_capture_layer_end

LEMMA NextKeeps ==
  TypeOK /\ CaptureInv /\ [Next]_vars => [BeyondKept]_vars
  <1> SUFFICES ASSUME TypeOK, CaptureInv, Next
               PROVE  BeyondKept
    OBVIOUS
  <1>1. ASSUME matrix_storage' = matrix_storage
        PROVE  BeyondKept
    BY <1>1 DEF BeyondKept
  <1>2. ASSUME nsx_pmu_capture_reset, Accepted
        PROVE  BeyondKept
    <2>1. ShapeOK(capture) /\ Fits(capture) /\ 0 \in 0 .. capture.total_ops
      BY <1>2 DEF TypeOK, CaptureInv, ShapeInv, ShapeOK
    <2> QED BY <1>2, <2>1, ResetKeeps DEF nsx_pmu_capture_reset, Fits
  <1>3. ASSUME NEW cfg \in CaptureCfg, Setup(cfg)
        PROVE  BeyondKept
    <2>1. CASE matrix_storage' = matrix_storage
      BY <1>1, <2>1
    <2>2. CASE /\ ~InitRefused(cfg)
               /\ ~TooManyPerPass(cfg) /\ ~StorageTooSmall(cfg)
               /\ capture' = Installed(cfg)
               /\ ResetChunk(Installed(cfg), 0)
      <3>1. ShapeOK(Installed(cfg)) /\ Fits(Installed(cfg))
        BY <2>2, InstalledShape
      <3>2. 0 \in 0 .. Installed(cfg).total_ops
        BY <3>1 DEF ShapeOK
      <3> QED BY <2>2, <3>1, <3>2, ResetKeeps
    <2> QED BY <1>3, <2>1, <2>2
            DEF Setup, nsx_pmu_capture_init, captureVars
  <1>4. CASE Restart
    BY <1>2, <1>4 DEF Restart, Accepted, InCapture, TypeOK, ApplicationOK
  <1>5. CASE Recover
    BY <1>2, <1>5 DEF Recover, Accepted
  <1>6. CASE LayerEnd
    BY <1>6, LayerEndKeeps
  <1>7. ASSUME nsx_pmu_capture_advance_chunk, pc = "taken" \/ pc = "layer"
        PROVE  BeyondKept
    <2>1. CASE matrix_storage' = matrix_storage
      BY <1>1, <2>1
    <2>2. CASE capture' = capture /\ ResetChunk(capture, NextChunk)
      <3>1. /\ ShapeOK(capture) /\ Fits(capture)
            /\ NextChunk \in 0 .. capture.total_ops
        BY <1>7 DEF TypeOK, ShapeOK, ProgressOK, CaptureInv, ShapeInv,
                    ChunkInv, Accepted, InCapture, NextChunk
      <3> QED BY <2>2, <3>1, ResetKeeps
    <2> QED BY <1>7, <2>1, <2>2 DEF nsx_pmu_capture_advance_chunk, captureVars
  <1>8. CASE Stray
    <2>1. CASE nsx_pmu_capture_advance_chunk /\ pc = "layer"
      BY <1>7, <2>1
    <2>2. CASE pc \in {"ready", "taken"} /\ nsx_pmu_capture_model_end
      BY <1>1, <2>2 DEF nsx_pmu_capture_model_end, captureVars
    <2>3. CASE ~capture.attached /\ nsx_pmu_capture_reset
      BY <1>1, <2>3 DEF nsx_pmu_capture_reset, captureVars
    <2> QED BY <1>8, <2>1, <2>2, <2>3 DEF Stray
  <1>9. CASE LayerBegin \/ RunLayer \/ BetweenLayers \/ ModelEnd \/ TakeRows
             \/ GiveUp
    BY <1>1, <1>9
       DEF LayerBegin, nsx_pmu_capture_layer_begin, RunLayer, BetweenLayers,
           ModelEnd, nsx_pmu_capture_model_end, TakeRows, GiveUp, captureVars
  <1>10. CASE Advance
    BY <1>7, <1>10 DEF Advance
  <1>11. CASE \E c \in Config \ {Mine} : Lend(c)
    BY <1>1, <1>11 DEF Lend, captureVars
  <1> QED BY <1>3, <1>4, <1>5, <1>6, <1>8, <1>9, <1>10, <1>11 DEF Next, Work

-----------------------------------------------------------------------------
(* The theorems. *)

LEMMA InitInv == Init => TypeOK /\ CaptureInv
  <1> SUFFICES ASSUME Init PROVE TypeOK /\ CaptureInv
    OBVIOUS
  <1>1. ShapeOK(capture)
    <2> DEFINE c == [api |-> FALSE, attached |-> FALSE,
                     event_map_indices |-> None, matrix_storage_count |-> 0,
                     total_ops |-> 0, ops_per_chunk |-> 0,
                     total_event_count |-> 0, events_per_pass |-> 0]
    <2>1. ShapeOK(c)
      BY CaptureAssumption DEF ShapeOK
    <2>2. capture = c
      BY DEF Init, CaptureInit
    <2> HIDE DEF c
    <2> QED BY <2>1, <2>2
  <1>2. ProgressOK
    <2>1. 0 \in 0 .. MapSize /\ 0 \in 0 .. MaxPerPass /\ 0 \in Nat
      BY CaptureAssumption
    <2>2. /\ current_chunk_start = 0 /\ current_chunk_ops = 0
          /\ current_event_base = 0 /\ current_pass_events = 0
          /\ chunk_ready = FALSE /\ complete = FALSE
      BY DEF Init, CaptureInit
    <2> QED BY <2>1, <2>2 DEF ProgressOK
  <1>3. BufferOK
    <2>1. 0 \in 0 .. Word - 1
      BY WordType
    <2> QED BY <2>1 DEF Init, CaptureInit, BufferOK
  <1>4. MeterOK
    BY NothingType, ZerosType DEF Init, CaptureInit, MeterInit, MeterOK
  <1>5. ApplicationOK
    BY RunAssumption DEF Init, CaptureInit, ApplicationOK
  <1>6. CaptureInv
    BY DEF Init, CaptureInit, CaptureInv, ShapeInv, ChunkInv, MeterInv,
           LayerInv, CellsInv, ReadyRowsExact, Accepted, InCapture, Running
  <1> QED BY <1>1, <1>2, <1>3, <1>4, <1>5, <1>6 DEF TypeOK

LEMMA NextInv ==
  TypeOK /\ CaptureInv /\ [Next]_vars => TypeOK' /\ CaptureInv'
  <1> SUFFICES ASSUME TypeOK, CaptureInv, [Next]_vars
               PROVE  TypeOK' /\ CaptureInv'
    OBVIOUS
  <1>1. ASSUME NEW cfg \in CaptureCfg, Setup(cfg)
        PROVE  TypeOK' /\ CaptureInv'
    BY <1>1, SetupStep
  <1>2. CASE Work
    BY <1>2, LayerBeginStep, RunLayerStep, LayerEndStep, BetweenLayersStep,
       ModelEndStep, TakeRowsStep, AdvanceStep, RecoverStep, GiveUpStep
       DEF Work
  <1>3. CASE Restart
    BY <1>3, RestartStep
  <1>4. CASE Stray
    BY <1>4, StrayStep
  <1>5. ASSUME NEW c \in Config, Lend(c)
        PROVE  TypeOK' /\ CaptureInv'
    BY <1>5, LendStep
  <1>6. CASE UNCHANGED vars
    BY <1>6, StutterStep
  <1> QED BY <1>1, <1>2, <1>3, <1>4, <1>5, <1>6 DEF Next

LEMMA Inductive == Spec => [](TypeOK /\ CaptureInv)
  BY InitInv, NextInv, PTL DEF Spec

(* Whatever the configurations, failures and other users of the PMU, the    *)
(* fields of the capture, its buffer and the PMU keep their types: indices  *)
(* stay in the map, in a pass and in the buffer's words.                    *)
THEOREM TypeCorrect == Spec => []TypeOK
  BY Inductive, PTL

(* The inductive invariant of nsx_pmu_capture.c and its application holds.  *)
THEOREM CaptureCorrect == Spec => []CaptureInv
  BY Inductive, PTL

(* Every row an application finds in a ready chunk is exact, for all sizes  *)
(* of map, model, chunk, pass and buffer and all costs of the operators.    *)
THEOREM RowsExact == Spec => []ReadyRowsExact
  <1>1. CaptureInv => ReadyRowsExact
    BY DEF CaptureInv
  <1> QED BY CaptureCorrect, <1>1, PTL

(* No call stores beyond the matrix_storage_count words nsx_pmu_capture_init *)
(* was given: neither reset_chunk nor layer_end, wherever the capture is.   *)
THEOREM StorageSafe == Spec => StorageRespected
  <1>1. [BeyondKept]_vars <=>
          [\A k \in capture'.matrix_storage_count .. StorageSize - 1 :
             matrix_storage'[k] = matrix_storage[k]]_vars
    BY DEF BeyondKept
  <1> QED BY Inductive, NextKeeps, <1>1, PTL DEF Spec, StorageRespected
===============================================================================
