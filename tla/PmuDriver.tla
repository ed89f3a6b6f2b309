------------------------------ MODULE PmuDriver ------------------------------
(***************************************************************************)
(* nsx_pmu_utils.c on the Armv8.1-M PMU: event configurations, the         *)
(* allocation of 16-bit hardware counters to their slots (a 32-bit slot is *)
(* an even counter chained to the odd one above it), and the stop / read / *)
(* reset / restart sequence of nsx_pmu_get_counters.                       *)
(*                                                                         *)
(* The driver is called from one thread.  The PMU counts beside it, so an  *)
(* event may occur between any two steps of a read.                        *)
(***************************************************************************)
EXTENDS Integers, FiniteSets

CONSTANTS
  Config,         \* the nsx_pmu_config_t objects callers own
  MapEvent,       \* event ids listed in nsx_pmu_map
  UnlistedEvent,  \* event ids a caller may ask for that the map lacks
  Entry0,         \* nsx_pmu_map[0].eventId, which mapIndex 0 names
  Preset,         \* the requests of each nsx_pmu_preset_e
  MaxCounters,    \* NSX_PMU_MAX_COUNTERS: slots, and hardware counters
  Radix,          \* a hardware counter holds 0 .. Radix-1 (2^16)
  EditSlot,       \* the slots callers fill by hand (bound for TLC)
  MaxOccur,       \* occurrences of an event between resets (bound for TLC)
  None, Chain, Unused

Index == 0 .. MaxCounters - 1
EventId == MapEvent \cup UnlistedEvent
Event == [enabled : BOOLEAN, eventId : EventId, counterSize : {16, 32}]

ASSUME DriverAssumption ==
  /\ MaxCounters \in Nat \ {0} /\ MaxCounters % 2 = 0
  /\ Radix \in Nat /\ Radix > 1
  /\ Entry0 \in MapEvent
  /\ MapEvent \cap UnlistedEvent = {}
  /\ {Chain, Unused} \cap (MapEvent \cup UnlistedEvent) = {}
  /\ Chain # Unused
  /\ None \notin Config \cup (0 .. Radix - 1) \cup [Index -> Event]
  /\ {"Invalid handle", "Not enabled"} \cap MapEvent = {}
  /\ \A p \in DOMAIN Preset, s \in Index :
       s \in DOMAIN Preset[p] => Preset[p][s] \in EventId
  /\ EditSlot \subseteq Index
  /\ MaxOccur \in Nat

VARIABLES
  events,          \* cfg->events[]
  counter,         \* cfg->counter[]: the event mapIndex names, counterValue
  counters,        \* ns_ambiq_pmu_config.counters, as a set of bits
  config_index,    \* nsx_pmu_config_index[]
  initialized,     \* nsx_pmu_initialized and nsx_pmu_profiling
  evtyper, evcntr, \* hardware: event type and value of each counter
  cnten,           \* hardware: enabled counters
  reading,         \* the configuration nsx_pmu_get_counters works on, or None
  pmu_index, low,  \* its loop variable and base_value
  owner,           \* history: configuration the PMU was last programmed for,
                   \* unless it was edited since
  meant,           \* history: the events[] the PMU was programmed with, or
                   \* None once an nsx_pmu_init has failed half way
  author,          \* history: the configuration whose counter[] has the names
                   \* of these events, or None
  occurred         \* history: occurrences of each event since the last reset

hardware == <<evtyper, evcntr, cnten>>
driver == <<counters, config_index, initialized>>
read == <<reading, pmu_index, low>>
history == <<owner, meant, author>>
vars == <<events, counter, driver, hardware, read, history, occurred>>

Cycles == MaxCounters       \* the bit of the cycle counter in a counter mask
Modulus(size) == IF size = 32 THEN Radix * Radix ELSE Radix

Disabled == [enabled |-> FALSE, eventId |-> Entry0, counterSize |-> 16]
Cleared == [mapIndex |-> Entry0, counterValue |-> 0]

-----------------------------------------------------------------------------
(* Requests w: the events[] of a configuration. *)

Enabled(w, size) == {s \in Index : w[s].enabled /\ w[s].counterSize = size}

EnabledSlots(w) == {s \in Index : w[s].enabled}

-----------------------------------------------------------------------------
(* Configurations *)

(* History: once the events of c are edited the PMU counts something else. *)
Disown(c) == owner' = IF owner = c THEN None ELSE owner

(* History: counter[] of c is cleared, names included. *)
Unname(c) == author' = IF author = c THEN None ELSE author

(* History: nobody knows what the PMU counts. *)
Lost == owner' = None /\ meant' = None /\ author' = None

nsx_pmu_event_create(c, s, e, size) ==
  /\ reading = None
  /\ events' = [events EXCEPT ![c][s] =
                  [enabled |-> TRUE, eventId |-> e, counterSize |-> size]]
  /\ Disown(c)
  /\ UNCHANGED <<counter, driver, hardware, read, meant, author, occurred>>

nsx_pmu_reset_config(c) ==
  /\ reading = None
  /\ events' = [events EXCEPT ![c] = [s \in Index |-> Disabled]]
  /\ counter' = [counter EXCEPT ![c] = [s \in Index |-> Cleared]]
  /\ Disown(c) /\ Unname(c)
  /\ UNCHANGED <<driver, hardware, read, meant, occurred>>

(* A preset fills slots 0, 1, ... with 32-bit requests; an unknown preset   *)
(* still leaves a reset configuration behind.                               *)
nsx_pmu_apply_preset(c, p) ==
  /\ reading = None
  /\ LET filled == IF p \in DOMAIN Preset THEN DOMAIN Preset[p] ELSE {}
     IN events' = [events EXCEPT ![c] = [s \in Index |->
          IF s \in filled
            THEN [enabled |-> TRUE, eventId |-> Preset[p][s],
                  counterSize |-> 32]
            ELSE Disabled]]
  /\ counter' = [counter EXCEPT ![c] = [s \in Index |-> Cleared]]
  /\ Disown(c) /\ Unname(c)
  /\ UNCHANGED <<driver, hardware, read, meant, occurred>>

-----------------------------------------------------------------------------
(* nsx_pmu_init *)

Below(S, s) == Cardinality({t \in S : t < s})

(* Mutant: counters are handed out in slot order, whatever the widths. *)
FirstCounterInSlotOrder(w, s) ==
  2 * Below(Enabled(w, 32), s) + Below(Enabled(w, 16), s)

(* The first hardware counter given to slot s: 32-bit slots take pairs from *)
(* 0 upwards, 16-bit slots the counters above them.                         *)
FirstCounter(w, s) ==
  IF w[s].counterSize = 32
    THEN 2 * Below(Enabled(w, 32), s)
    ELSE 2 * Cardinality(Enabled(w, 32)) + Below(Enabled(w, 16), s)

EventTypes(w) ==
  [i \in Index |->
     IF \E s \in EnabledSlots(w) : FirstCounter(w, s) = i
       THEN w[CHOOSE s \in EnabledSlots(w) :
                        FirstCounter(w, s) = i].eventId
     ELSE IF \E s \in Enabled(w, 32) : FirstCounter(w, s) + 1 = i
       THEN Chain
     ELSE Unused]

CounterMask(w) == {i \in Index : EventTypes(w)[i] # Unused} \cup {Cycles}

(* nsx_pmu_config_index is written at the first counter of a slot only. *)
ConfigIndex(w) ==
  [i \in Index |->
     IF \E s \in EnabledSlots(w) : FirstCounter(w, s) = i
       THEN CHOOSE s \in EnabledSlots(w) : FirstCounter(w, s) = i
       ELSE config_index[i]]

(* Mutant: a 32-bit slot is counted as one counter. *)
TotalCountersUnweighted(w) == Cardinality(EnabledSlots(w))

TotalCounters(w) ==
  2 * Cardinality(Enabled(w, 32)) + Cardinality(Enabled(w, 16))

(* Mutant: the arguments are refused after the mask has been emptied. *)
InitRefusedLate(c, apiOk) ==
  /\ ~apiOk \/ TotalCounters(events[c]) > MaxCounters
  /\ counters' = {}
  /\ UNCHANGED <<counter, config_index, initialized, hardware, history,
                 occurred>>

(* The arguments are refused before anything is touched: INVALID_VERSION,   *)
(* INVALID_CONFIG.                                                          *)
InitRefused(c, apiOk) ==
  /\ ~apiOk \/ TotalCounters(events[c]) > MaxCounters
  /\ UNCHANGED <<counter, driver, hardware, history, occurred>>

(* nsx_pmu_get_map_index finds an entry for e; a mapIndex is known by the   *)
(* event of its entry.                                                      *)
Listed(e) == e \in MapEvent

(* An event the map lacks is found while the counters are being cleared:    *)
(* INVALID_CONFIG, but the slots up to it are cleared and the mask is empty.*)
InitUnlisted(c) ==
  LET unlisted == {s \in EnabledSlots(events[c]) :
                     ~Listed(events[c][s].eventId)}
      first == CHOOSE s \in unlisted : \A t \in unlisted : s <= t
  IN /\ TotalCounters(events[c]) <= MaxCounters
     /\ unlisted # {}
     /\ counter' = [counter EXCEPT ![c] = [s \in Index |->
          IF s > first THEN @[s]
          ELSE [mapIndex |-> IF s < first /\ events[c][s].enabled
                               THEN events[c][s].eventId ELSE @[s].mapIndex,
                counterValue |-> 0]]]
     /\ counters' = {}
     /\ Lost
     /\ UNCHANGED <<config_index, initialized, hardware, occurred>>

(* Counters are allocated, then the backend (nsx_ambiq_pmu_enable and       *)
(* nsx_ambiq_pmu_init) programs and starts them, or fails: INIT_FAILED.     *)
InitProgram(c, backendOk) ==
  /\ TotalCounters(events[c]) <= MaxCounters
  /\ \A s \in EnabledSlots(events[c]) : Listed(events[c][s].eventId)
  /\ counter' = [counter EXCEPT ![c] = [s \in Index |->
       [mapIndex |-> IF events[c][s].enabled THEN events[c][s].eventId
                                             ELSE @[s].mapIndex,
        counterValue |-> 0]]]
  /\ config_index' = ConfigIndex(events[c])
  /\ counters' = CounterMask(events[c])
  /\ \/ /\ backendOk
        /\ evtyper' = EventTypes(events[c])
        /\ evcntr' = [i \in Index |-> 0]
        /\ cnten' = CounterMask(events[c])
        /\ initialized' = TRUE
        /\ owner' = c /\ meant' = events[c] /\ author' = c
        /\ occurred' = [e \in MapEvent |-> 0]
     \/ /\ ~backendOk
        /\ Lost
        /\ UNCHANGED <<hardware, initialized, occurred>>

nsx_pmu_init(c, apiOk, backendOk) ==
  /\ reading = None
  /\ \/ InitRefused(c, apiOk)
     \/ apiOk /\ InitUnlisted(c)
     \/ apiOk /\ InitProgram(c, backendOk)
  /\ UNCHANGED <<events, read>>

-----------------------------------------------------------------------------
(* nsx_pmu_reset_counters, nsx_pmu_get_counters *)

ResetCounters ==
  /\ evcntr' = [i \in Index |-> 0]
  /\ occurred' = [e \in MapEvent |-> 0]

nsx_pmu_reset_counters ==
  /\ reading = None
  /\ ResetCounters
  /\ UNCHANGED <<events, counter, driver, evtyper, cnten, read, history>>

(* INIT_FAILED: nothing was ever initialised. *)
GetRefused(c) ==
  /\ reading = None
  /\ ~initialized
  /\ UNCHANGED vars

(* Mutant: the counters go on counting while they are read. *)
cntr_disable_forgotten(mask) == cnten

cntr_disable(mask) == cnten \ mask
cntr_enable(mask) == cnten \cup mask

(* cntr_disable, then the loop over pmu_index starts. *)
GetBegin(c) ==
  /\ reading = None
  /\ initialized
  /\ cnten' = cntr_disable(counters)
  /\ reading' = c
  /\ pmu_index' = 0
  /\ UNCHANGED <<events, counter, driver, evtyper, evcntr, low, history,
                 occurred>>

AtSlot == config_index[pmu_index]

Store(value) ==
  counter' = [counter EXCEPT ![reading][AtSlot].counterValue = value]

GetSkip ==
  /\ reading # None
  /\ low = None
  /\ pmu_index < MaxCounters
  /\ pmu_index \notin counters
  /\ pmu_index' = pmu_index + 1
  /\ UNCHANGED <<events, counter, driver, hardware, reading, low, history,
                 occurred>>

(* ARM_PMU_Get_EVCNTR(pmu_index): a 16-bit value, or the lower half of a    *)
(* 32-bit one whose upper half is read next.  The width is that of the      *)
(* configuration passed in, not of the one the PMU was programmed for.      *)
GetCounter ==
  /\ reading # None
  /\ low = None
  /\ pmu_index < MaxCounters
  /\ pmu_index \in counters
  /\ IF events[reading][AtSlot].counterSize = 32
       THEN /\ low' = evcntr[pmu_index]
            /\ UNCHANGED <<counter, pmu_index>>
       ELSE /\ Store(evcntr[pmu_index])
            /\ pmu_index' = pmu_index + 1
            /\ UNCHANGED low
  /\ UNCHANGED <<events, driver, hardware, reading, history, occurred>>

(* Mutant: the upper half is shifted too far. *)
ChainOverShifted(base_value, chain_value) ==
  base_value + chain_value * Radix * Radix

Chained(base_value, chain_value) == base_value + chain_value * Radix

(* The counter above the last one does not exist and reads as anything. *)
ReadEvcntr(i) == IF i \in Index THEN {evcntr[i]} ELSE 0 .. Radix - 1

GetChained ==
  /\ reading # None
  /\ low # None
  /\ \E chain_value \in ReadEvcntr(pmu_index + 1) :
       Store(Chained(low, chain_value))
  /\ low' = None
  /\ pmu_index' = pmu_index + 2
  /\ UNCHANGED <<events, driver, hardware, reading, history, occurred>>

(* The loop is over: nsx_pmu_reset_counters, cntr_enable. *)
GetEnd ==
  /\ reading # None
  /\ low = None
  /\ pmu_index >= MaxCounters
  /\ ResetCounters
  /\ cnten' = cntr_enable(counters)
  /\ reading' = None
  /\ pmu_index' = 0
  /\ UNCHANGED <<events, counter, driver, evtyper, low, history>>

GetStep == GetSkip \/ GetCounter \/ GetChained \/ GetEnd

-----------------------------------------------------------------------------
(* The PMU: event e occurs once.  What occurs while nothing counts changes   *)
(* nothing and is no step.  A counter that wraps carries into the chained   *)
(* counter above it, and only an odd counter can be chained.                *)
Counts(e) == {i \in Index \cap cnten : evtyper[i] = e}

Carries(e) ==
  {i \in Index \cap cnten :
     /\ evtyper[i] = Chain
     /\ i % 2 = 1
     /\ (i - 1) \in Counts(e)
     /\ evcntr[i - 1] = Radix - 1}

Occur(e) ==
  /\ cnten # {}
  /\ occurred[e] < MaxOccur
  /\ occurred' = [occurred EXCEPT ![e] = @ + 1]
  /\ evcntr' = [i \in Index |-> IF i \in Counts(e) \cup Carries(e)
                                  THEN (evcntr[i] + 1) % Radix
                                  ELSE evcntr[i]]
  /\ UNCHANGED <<events, counter, driver, evtyper, cnten, read, history>>

-----------------------------------------------------------------------------
Init ==
  /\ events = [c \in Config |-> [s \in Index |-> Disabled]]
  /\ counter = [c \in Config |-> [s \in Index |-> Cleared]]
  /\ counters = {}
  /\ config_index = [i \in Index |-> 0]
  /\ initialized = FALSE
  /\ evtyper = [i \in Index |-> Unused]
  /\ evcntr = [i \in Index |-> 0]
  /\ cnten = {}
  /\ reading = None /\ pmu_index = 0 /\ low = None
  /\ owner = None /\ meant = None /\ author = None
  /\ occurred = [e \in MapEvent |-> 0]

Next ==
  \/ \E c \in Config :
       \/ \E s \in EditSlot, e \in EventId, size \in {16, 32} :
            nsx_pmu_event_create(c, s, e, size)
       \/ nsx_pmu_reset_config(c)
       \/ \E p \in DOMAIN Preset \cup {None} : nsx_pmu_apply_preset(c, p)
       \/ \E apiOk, backendOk \in BOOLEAN : nsx_pmu_init(c, apiOk, backendOk)
       \/ GetRefused(c)
       \/ GetBegin(c)
  \/ GetStep
  \/ nsx_pmu_reset_counters
  \/ \E e \in MapEvent : Occur(e)

Spec == Init /\ [][Next]_vars

-----------------------------------------------------------------------------
TypeOK ==
  /\ events \in [Config -> [Index -> Event]]
  /\ counter \in [Config -> [Index ->
                    [mapIndex : MapEvent, counterValue : 0 .. Radix * Radix - 1]]]
  /\ counters \subseteq 0 .. MaxCounters
  /\ config_index \in [Index -> Index]
  /\ initialized \in BOOLEAN
  /\ evtyper \in [Index -> MapEvent \cup {Chain, Unused}]
  /\ evcntr \in [Index -> 0 .. Radix - 1]
  /\ cnten \subseteq 0 .. MaxCounters
  /\ reading \in Config \cup {None}
  /\ pmu_index \in 0 .. MaxCounters + 1
  /\ low \in 0 .. Radix - 1 \cup {None}
  /\ owner \in Config \cup {None}
  /\ meant \in [Index -> Event] \cup {None}
  /\ author \in Config \cup {None}
  /\ occurred \in [MapEvent -> Nat]

(* Mutant: a line is named after the event asked for, not after mapIndex. *)
PrintRequestedNames(c) ==
  [s \in EnabledSlots(events[c]) |-> [regname |-> events[c][s].eventId,
                                      value |-> counter[c][s].counterValue]]

(* What nsx_pmu_print_counters prints for c. *)
nsx_pmu_print_counters(c) ==
  [s \in EnabledSlots(events[c]) |-> [regname |-> counter[c][s].mapIndex,
                                      value |-> counter[c][s].counterValue]]

(* The name of slot i: its event, or why it has none. *)
nsx_pmu_get_name(c, i) ==
  IF i \notin Index THEN "Invalid handle"
  ELSE IF ~events[c][i].enabled THEN "Not enabled"
  ELSE counter[c][i].mapIndex

(* Mutant: the difference is taken modulo 2^32. *)
DeltaModulo(sv, ev) == (ev - sv) % Modulus(32)

(* The difference of the values sv and then ev of one slot. *)
ns_delta_pmu(sv, ev) == IF ev >= sv THEN ev - sv ELSE ev

ReadDone == reading # None /\ low = None /\ pmu_index >= MaxCounters

(* When nsx_pmu_get_counters has read the configuration the PMU is          *)
(* programmed for, its report names the event of every enabled slot and     *)
(* gives the number of its occurrences since the last reset, modulo the     *)
(* width of the slot, although events go on occurring until the counters    *)
(* are stopped and each half of a 32-bit value is read on its own.  A slot  *)
(* by its number has the same name, or none.                                *)
ReportIsExact ==
  ReadDone /\ reading = owner =>
    /\ nsx_pmu_print_counters(reading) =
         [s \in EnabledSlots(events[reading]) |->
            LET ev == events[reading][s]
            IN [regname |-> ev.eventId,
                value |-> occurred[ev.eventId] % Modulus(ev.counterSize)]]
    /\ \A i \in 0 .. MaxCounters :
         nsx_pmu_get_name(reading, i) \in MapEvent =>
           i \in EnabledSlots(events[reading]) /\
           nsx_pmu_get_name(reading, i) = events[reading][i].eventId

(* The slots that the requests w ask for have the same widths in r. *)
SameWidths(r, w) ==
  \A s \in EnabledSlots(w) : events[r][s].counterSize = w[s].counterSize

(* A read gives the counts of the events the PMU was programmed with,       *)
(* whatever configuration it is asked of, as long as that has the widths:   *)
(* nsx_pmu_get_counters takes the slots from nsx_pmu_config_index and only  *)
(* the widths from its argument.  The same configuration, edited since, or  *)
(* refused by a later nsx_pmu_init, still reports the old counts, under the *)
(* old names: mapIndex, and not the edited eventId, names a printed line.   *)
(* Another user of the PMU that asks for as many events reads them as its   *)
(* own.                                                                     *)
ReadsProgrammedCounts ==
  ReadDone /\ meant # None /\ SameWidths(reading, meant) =>
    \A s \in EnabledSlots(meant) :
      LET ev == meant[s]
      IN /\ counter[reading][s].counterValue =
              occurred[ev.eventId] % Modulus(ev.counterSize)
         /\ reading = author /\ events[reading][s].enabled =>
              nsx_pmu_print_counters(reading)[s].regname = ev.eventId

(* The read in hand stores the value of slot s of the PMU's owner. *)
ReadsItsOwn(s) ==
  /\ reading # None /\ reading = owner
  /\ pmu_index \in Index /\ AtSlot = s
  /\ GetCounter \/ GetChained

(* An application that keeps each value it reads and subtracts it from the  *)
(* next: every read resets the counters, so the second value alone is what  *)
(* occurred since the last reset.  The difference is never more than that,  *)
(* and it is exact, modulo the width, if the first value was zero or larger *)
(* than the second.                                                         *)
DeltaIsLowerBound ==
  [][\A s \in Index : ReadsItsOwn(s) /\ low' = None =>
       LET before == counter[reading][s].counterValue
           after  == counter'[reading][s].counterValue
           delta  == ns_delta_pmu(before, after)
           ev     == events[reading][s]
       IN /\ delta <= occurred[ev.eventId]
          /\ before = 0 \/ after < before =>
               delta = occurred[ev.eventId] % Modulus(ev.counterSize)]_vars

(* nsx_pmu_utils.h:53 calls counterValue the value read from the PMU: a     *)
(* call of nsx_pmu_get_counters that succeeds on a configuration with       *)
(* events has counters to read.                                             *)
SuccessHasRead ==
  ReadDone /\ EnabledSlots(events[reading]) # {} => Cycles \in counters

-----------------------------------------------------------------------------
(* The events the PMU was programmed for, and the values in the reports:    *)
(* those of the configuration being read are not there yet.                 *)
Wanted ==
  IF owner = None
    THEN [s \in Index |-> [enabled |-> FALSE,
                           eventId |-> CHOOSE e \in MapEvent : TRUE,
                           counterSize |-> 16]]
    ELSE events[owner]

Reported ==
  [c \in Config |-> [s \in Index |->
     IF c = reading THEN 0 ELSE counter[c][s].counterValue]]

Contract == INSTANCE PmuContract WITH
  Slot    <- Index,
  Foreign <- 0 .. Radix * Radix - 1,
  ready   <- initialized,
  want    <- Wanted,
  tally   <- occurred,
  report  <- Reported

(* The driver keeps the contract that Capture relies on: a read is exact    *)
(* for the configuration initialised last, whoever else used the PMU or     *)
(* failed to, and no call on one configuration changes another's report.    *)
ImplementsContract == Contract!Spec
===============================================================================
