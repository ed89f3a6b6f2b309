----------------------------- MODULE Characterize -----------------------------
(***************************************************************************)
(* nsx_pmu_characterize_function: the whole event map, one batch of events *)
(* after the other, each batch with a run of func of its own, printed as   *)
(* it is read.  func may use the PMU itself.  The function returns void:   *)
(* when the PMU cannot be initialised it stops where it is.                *)
(***************************************************************************)
EXTENDS PmuMeter, Sequences

CONSTANTS
  MapSize,   \* NSX_PMU_MAP_SIZE; an event is known by its map index
  Batch,     \* NSX_PMU_CHARACTERIZATION_BATCH_SIZE
  Mine,      \* the configuration passed in
  Leftover,  \* what its events[] may hold before the call
  Work(_)    \* occurrences of an event while func runs

(* NSX_PMU_MAX_COUNTERS is twice the batch. *)
ASSUME CharacterizeAssumption ==
  /\ MapSize \in Nat \ {0} /\ MapEvent = 0 .. MapSize - 1
  /\ Batch \in Nat \ {0} /\ Slot = 0 .. 2 * Batch - 1
  /\ Mine \in Config
  /\ Leftover \subseteq [Slot -> Request]
  /\ \A e \in MapEvent : Work(e) \in Nat

VARIABLES
  pc,         \* where the function is
  map_index,  \* the first event of the batch
  slot,       \* the slot that is printed next
  events,     \* cfg->events[]; counter[].mapIndex names the same events
  value,      \* counter[].counterValue
  printed,    \* the lines printed by the call
  alone       \* history: events of the batches whose func left the PMU alone

call == <<pc, map_index, slot, events, value, printed, alone>>
vars == <<meter, call>>

Word == Modulus(32)

Wanted(e, size) == [enabled |-> TRUE, eventId |-> e, counterSize |-> size]

(* Mutant: batches of 16-bit counters, of which twice as many would fit. *)
NarrowRequest(e) == Wanted(e, 16)

BatchRequest(e) == Wanted(e, 32)

(* Mutant: the configuration is not reset between batches. *)
KeptRequest(s) == events[s]

ResetRequest(s) == Nothing[s]

(* nsx_pmu_reset_config and a nsx_pmu_event_create for every slot filled. *)
BatchEvents ==
  [s \in Slot |-> IF s < Batch /\ map_index + s < MapSize
                    THEN BatchRequest(map_index + s)
                    ELSE ResetRequest(s)]

-----------------------------------------------------------------------------
Call ==
  /\ pc = "idle"
  /\ pc' = "batch"
  /\ map_index' = 0
  /\ events' \in Leftover
  /\ printed' = <<>> /\ alone' = {}
  /\ Forget(Mine)
  /\ UNCHANGED <<slot, value>>

Prepare ==
  /\ pc = "batch"
  /\ map_index < MapSize
  /\ events' = BatchEvents
  /\ value' = [s \in Slot |-> 0]
  /\ \/ /\ Program(Mine, BatchEvents)
        /\ pc' = "func"
        /\ alone' = alone \cup {e \in MapEvent :
                                  map_index <= e /\ e < map_index + Batch}
     \/ /\ Disturb
        /\ pc' = "idle"
        /\ UNCHANGED alone
  /\ UNCHANGED <<map_index, slot, printed>>

(* What func is there for. *)
RunFunc ==
  /\ pc = "func"
  /\ Accrue([e \in MapEvent |-> Work(e)])
  /\ pc' = "read"
  /\ UNCHANGED <<map_index, slot, events, value, printed, alone>>

(* func, before or after that, initialises the PMU for something else, fails *)
(* to, or resets the counters (a read of its own does so, too).              *)
FuncUsesPmu ==
  /\ pc = "func" \/ pc = "read"
  /\ \/ \E c \in Config \ {Mine} : Program(c, Nothing)
     \/ Disturb
     \/ Zero
  /\ alone' = {e \in alone : e < map_index}
  /\ UNCHANGED <<pc, map_index, slot, events, value, printed>>

(* nsx_pmu_get_counters, which cannot fail here: Prepare has initialised. *)
Read ==
  /\ pc = "read"
  /\ ready
  /\ \E v \in Readings(Mine) : value' = v
  /\ Zero
  /\ pc' = "print" /\ slot' = 0
  /\ UNCHANGED <<map_index, events, printed, alone>>

(* One turn of the loop of nsx_pmu_print_counters. *)
PrintSlot ==
  /\ pc = "print"
  /\ slot \in Slot
  /\ printed' = IF events[slot].enabled
                  THEN Append(printed, [regname |-> events[slot].eventId,
                                        count |-> value[slot]])
                  ELSE printed
  /\ slot' = slot + 1
  /\ UNCHANGED <<meter, pc, map_index, events, value, alone>>

NextBatch ==
  /\ pc = "print"
  /\ slot \notin Slot
  /\ map_index' = map_index + Batch
  /\ pc' = "batch"
  /\ UNCHANGED <<meter, slot, events, value, printed, alone>>

Return ==
  /\ pc = "batch"
  /\ map_index >= MapSize
  /\ pc' = "idle"
  /\ UNCHANGED <<meter, map_index, slot, events, value, printed, alone>>

Init ==
  /\ MeterInit
  /\ pc = "idle" /\ map_index = 0 /\ slot = 0
  /\ events = Nothing
  /\ value = [s \in Slot |-> 0]
  /\ printed = <<>> /\ alone = {}

Next ==
  \/ Call \/ Prepare \/ RunFunc \/ FuncUsesPmu \/ Read \/ PrintSlot
  \/ NextBatch \/ Return

Spec == Init /\ [][Next]_vars

-----------------------------------------------------------------------------
Line == [regname : MapEvent, count : Nat]

TypeOK ==
  /\ ready \in BOOLEAN /\ owner \in Config \cup {None}
  /\ want \in [Slot -> Request] /\ tally \in [MapEvent -> Nat]
  /\ pc \in {"idle", "batch", "func", "read", "print"}
  /\ map_index \in Nat /\ slot \in 0 .. 2 * Batch
  /\ events \in [Slot -> Request] /\ value \in [Slot -> Nat]
  /\ printed \in Seq(Line)
  /\ alone \subseteq MapEvent

Lesser(a, b) == IF a < b THEN a ELSE b

(* The events printed are those of the map from its beginning, each once    *)
(* and in order, across batches, the short last one included: as many as    *)
(* the batches that are through and the slots printed of this one.          *)
EventsOnceInOrder ==
  /\ \A i \in DOMAIN printed : printed[i].regname = i - 1
  /\ Len(printed) =
       LET seen == IF pc = "print" THEN Lesser(slot, Batch) ELSE 0
       IN Lesser(map_index + seen, MapSize)

(* What is printed for an event of a batch whose func left the PMU alone is *)
(* what occurred while func ran, modulo 2^32, whatever func did with the    *)
(* PMU in other batches and whatever the configuration held before.         *)
AloneIsExact ==
  \A i \in DOMAIN printed :
    printed[i].regname \in alone =>
      printed[i].count = Work(printed[i].regname) % Word
===============================================================================
