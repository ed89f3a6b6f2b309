----------------------------- MODULE Accumulator -----------------------------
(***************************************************************************)
(* nsx_pmu_accumulator.c: a matrix of operators by events, filled over     *)
(* several inferences of a model.  Every inference measures EVENTS_PER_RUN *)
(* columns; inference_end goes on to the next columns until the matrix is  *)
(* complete.  A row is an operator index, or what resolve_tag gives for    *)
(* the operator's tag, so that operators with equal tags share a row.      *)
(*                                                                         *)
(* Each operator named nsx_pmu_accm_... is one call of the interface as an *)
(* action on g_acc, on the caller's backing buffer and on the PMU.         *)
(* AccumulatorRun is the application that makes the calls.                 *)
(***************************************************************************)
EXTENDS PmuMeter, Sequences, FiniteSetsExt

CONSTANTS
  MapSize,       \* NSX_PMU_MAP_SIZE; an event is known by its map index
  MaxMatrices,   \* NSX_PMU_MAX_ACTIVE_MATRICES
  MaxOps,        \* NSX_PMU_MAX_OPS
  EventsPerRun,  \* EVENTS_PER_RUN
  Client,        \* the callers, each with a backing buffer
  BufferSize,    \* words in a backing buffer
  Tag,           \* tag pointers
  Text(_),       \* Text(tag): the string a tag points to
  BackendFails   \* whether the backend may fail (TRUE or FALSE)

Id == 0 .. MaxMatrices - 1
NoHandle == 255    \* the id of a refused handle
NoRow == 65535     \* UINT16_MAX

(* &g_acc[id].cfg is known by id. *)
ASSUME AccumulatorAssumption ==
  /\ MapSize \in Nat \ {0} /\ MapEvent = 0 .. MapSize - 1
  /\ EventsPerRun \in Nat \ {0} /\ Slot = 0 .. 2 * EventsPerRun - 1
  /\ MaxMatrices \in 1 .. NoHandle - 1 /\ Id \subseteq Config
  /\ MaxOps \in 1 .. NoRow /\ BufferSize \in Nat
  /\ BackendFails \in BOOLEAN

VARIABLES
  g_acc,   \* the pool of matrices
  handle,  \* the handle of every client, or None
  buffer,  \* its backing buffer
  row      \* the row the application frames an operator with

accVars == <<g_acc, handle, buffer>>

Word == Modulus(32)

Unused == [in_use |-> FALSE, complete |-> FALSE, ops |-> 0, events |-> 0,
           next_event |-> 0, tag_map |-> <<>>, sum |-> None]

(* handle_to_acc *)
Live(h) == h \in Id /\ g_acc[h].in_use

Cell(a, r, e) == r * a.events + e

Lesser(a, b) == IF a < b THEN a ELSE b

(* The columns that the pass at next_event measures. *)
PassColumns(a) ==
  a.next_event .. Lesser(a.next_event + EventsPerRun, a.events) - 1

-----------------------------------------------------------------------------
(* cfg_select_events, whose nsx_pmu_init may fail unnoticed: listed events, *)
(* no more than the counters there are, and a supported version leave only  *)
(* the backend to fail.                                                     *)
PassRequest(a) ==
  [s \in Slot |->
     IF s < EventsPerRun /\ a.next_event + s < a.events
       THEN [enabled |-> TRUE, eventId |-> a.next_event + s,
             counterSize |-> 32]
       ELSE Nothing[s]]

cfg_select_events(id, a) ==
  \/ Program(id, PassRequest(a))
  \/ BackendFails /\ Disturb

(* The arguments are refused, or every matrix is in use. *)
FreeIds == {id \in Id : ~g_acc[id].in_use}

CreateRefused(ops, events) ==
  \/ ops = 0 \/ ops > MaxOps
  \/ events = 0 \/ events > MapSize
  \/ FreeIds = {}

(* Mutant: the buffer is not cleared. *)
ClearedNot(c, ops, events) == buffer

Cleared(c, ops, events) ==
  [buffer EXCEPT ![c] = [k \in 0 .. BufferSize - 1 |->
                           IF k < ops * events THEN 0 ELSE @[k]]]

nsx_pmu_accm_create(c, ops, events) ==
  \/ /\ CreateRefused(ops, events)
     /\ handle' = [handle EXCEPT ![c] = NoHandle]
     /\ UNCHANGED <<g_acc, buffer, meter>>
  \/ /\ ~CreateRefused(ops, events)
     /\ LET idx == Min(FreeIds)
            a == [Unused EXCEPT !.in_use = TRUE, !.ops = ops,
                                !.events = events, !.sum = c]
        IN /\ g_acc' = [g_acc EXCEPT ![idx] = a]
           /\ buffer' = Cleared(c, ops, events)
           /\ cfg_select_events(idx, a)
           /\ handle' = [handle EXCEPT ![c] = idx]

(* Clearing the matrix clears the events of its configuration too. *)
nsx_pmu_accm_destroy(h) ==
  IF Live(h)
    THEN /\ g_acc' = [g_acc EXCEPT ![h] = Unused]
         /\ Forget(h)
    ELSE UNCHANGED <<g_acc, meter>>

-----------------------------------------------------------------------------
(* Mutant: the matrix is complete when its last pass begins. *)
CompleteEarly(a) == a.next_event + 2 * EventsPerRun >= a.events

(* The pass just ended was the last. *)
LastPass(a) == a.next_event + EventsPerRun >= a.events

(* Mutant: a complete matrix keeps the columns of its last pass. *)
NextEventKept(a) ==
  IF a.next_event + EventsPerRun >= a.events
    THEN a.next_event ELSE a.next_event + EventsPerRun

(* Mutant: the next inference measures the same columns again. *)
NextEventStays(a) == a.next_event

NextEvent(a) == a.next_event + EventsPerRun

nsx_pmu_accm_inference_end(h) ==
  IF Live(h) /\ ~g_acc[h].complete
    THEN LET a == [g_acc[h] EXCEPT !.next_event = NextEvent(g_acc[h]),
                                   !.complete = LastPass(g_acc[h])]
         IN /\ g_acc' = [g_acc EXCEPT ![h] = a]
            /\ IF a.complete THEN UNCHANGED meter ELSE cfg_select_events(h, a)
    ELSE UNCHANGED <<g_acc, meter>>

(* The operator has a row in the matrix. *)
HasRow(h, op_idx) == Live(h) /\ op_idx < g_acc[h].ops

nsx_pmu_accm_op_begin(h, op_idx) ==
  IF HasRow(h, op_idx) THEN Zero ELSE UNCHANGED meter

(* The pass asks for the slots that the PMU is programmed for. *)
SameSlots(a) == \A s \in Slot : PassRequest(a)[s].enabled = want[s].enabled

(* What the slots hold after nsx_pmu_get_counters, whose status is ignored: *)
(* before any nsx_pmu_init has succeeded, the zeros of nsx_pmu_reset_config;*)
(* in the slots of another owner, all of them 32 bits wide, its counts.     *)
CounterValues(id) ==
  IF ~ready THEN {[s \in Slot |-> 0]}
  ELSE IF owner # None /\ SameSlots(g_acc[id])
    THEN {[s \in Slot |-> Exact(s)]}
  ELSE Readings(id)

nsx_pmu_accm_op_end(h, op_idx) ==
  IF HasRow(h, op_idx)
    THEN LET a == g_acc[h]
             ColumnOf(k) == k - Cell(a, op_idx, 0)
         IN /\ \E value \in CounterValues(h) :
                 buffer' = [buffer EXCEPT ![a.sum] =
                   [k \in 0 .. BufferSize - 1 |->
                      IF ColumnOf(k) \in PassColumns(a)
                        THEN (@[k] + value[ColumnOf(k) - a.next_event]) % Word
                        ELSE @[k]]]
            /\ IF ready THEN Zero ELSE UNCHANGED meter
    ELSE UNCHANGED <<buffer, meter>>

-----------------------------------------------------------------------------
(* tag_lookup: equal pointers first, then equal strings.  tag_map[i].row is *)
(* always i, so the map is a sequence of tags, and next_row is its length.  *)
SamePointer(a, tag) == {i \in DOMAIN a.tag_map : a.tag_map[i] = tag}

(* Mutant: only pointers are compared. *)
SameTextByPointer(a, tag) == SamePointer(a, tag)

SameText(a, tag) == {i \in DOMAIN a.tag_map : Text(a.tag_map[i]) = Text(tag)}

Known(a, tag) == SamePointer(a, tag) # {} \/ SameText(a, tag) # {}

RowOfTag(a, tag) ==
  (IF SamePointer(a, tag) # {} THEN Min(SamePointer(a, tag))
                               ELSE Min(SameText(a, tag))) - 1

(* Mutant: a row beyond the matrix is given out. *)
TagMapNeverFull(a) == FALSE

TagMapFull(a) == Len(a.tag_map) >= a.ops

nsx_pmu_accm_resolve_tag(h, tag) ==
  LET a == g_acc[h]
  IN \/ /\ ~Live(h)
        /\ row' = NoRow
        /\ UNCHANGED g_acc
     \/ /\ Live(h) /\ Known(a, tag)
        /\ row' = RowOfTag(a, tag)
        /\ UNCHANGED g_acc
     \/ /\ Live(h) /\ ~Known(a, tag) /\ TagMapFull(a)
        /\ row' = NoRow
        /\ UNCHANGED g_acc
     \/ /\ Live(h) /\ ~Known(a, tag) /\ ~TagMapFull(a)
        /\ row' = Len(a.tag_map)
        /\ g_acc' = [g_acc EXCEPT ![h].tag_map = Append(@, tag)]

(* nsx_pmu_accm_find_tag *)
FindTag(h, tag) ==
  IF Live(h) /\ Known(g_acc[h], tag) THEN RowOfTag(g_acc[h], tag) ELSE NoRow

nsx_pmu_accm_complete(h) == Live(h) /\ g_acc[h].complete

(* What is printed of the matrix that nsx_pmu_accm_get gives, in rows of as *)
(* many words as the caller says.                                           *)
nsx_pmu_accm_get(h) == buffer[g_acc[h].sum]

nsx_pmu_accmprint_matrix(h, ops, events) ==
  [i \in 0 .. ops - 1 |-> [j \in 0 .. events - 1 |->
                             nsx_pmu_accm_get(h)[i * events + j]]]

(* nsx_pmu_accm_get_layer: as much of the row as the caller has room for. *)
Layer(h, layer, caller_capacity) ==
  LET a == g_acc[h]
  IN [e \in 0 .. Lesser(caller_capacity, a.events) - 1 |->
        buffer[a.sum][Cell(a, layer, e)]]

AccumulatorInit ==
  /\ MeterInit
  /\ g_acc = [id \in Id |-> Unused]
  /\ handle = [c \in Client |-> None]
  /\ buffer = [c \in Client |-> [k \in 0 .. BufferSize - 1 |-> 0]]
  /\ row = 0
===============================================================================
