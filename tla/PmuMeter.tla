------------------------------- MODULE PmuMeter -------------------------------
(***************************************************************************)
(* The PMU as the users of nsx_pmu_utils.c see it: one meter, shared by    *)
(* every nsx_pmu_config_t of the program.  The configuration whose         *)
(* nsx_pmu_init succeeded last, and that has not been edited since, owns   *)
(* the meter; nsx_pmu_get_counters gives the owner, for every slot, the    *)
(* number of occurrences of the slot's event since the counters were last  *)
(* reset, modulo the width of the slot.  Anybody else reads foreign values.*)
(*                                                                         *)
(* The operators below are the steps of the meter.  PmuContract makes a    *)
(* specification of them, which PmuDriver implements; Capture uses them as *)
(* the PMU it runs on.                                                     *)
(***************************************************************************)
EXTENDS Integers

CONSTANTS
  Config,    \* the nsx_pmu_config_t objects of the program
  MapEvent,  \* the events listed in nsx_pmu_map
  Slot,      \* indices of events[] and counter[] in a configuration
  Radix,     \* a 16-bit event counter holds 0 .. Radix-1
  Foreign,   \* values a configuration that does not own the meter may read
  None       \* nobody

ASSUME MeterAssumption ==
  /\ Radix \in Nat /\ Radix > 1
  /\ Foreign \subseteq Nat
  /\ MapEvent # {}
  /\ None \notin Config

VARIABLES
  ready,  \* nsx_pmu_initialized (and nsx_pmu_profiling, set with it)
  owner,  \* the configuration the PMU is programmed for, or None
  want,   \* the events[] the owner was initialised with
  tally   \* occurrences of every event since the counters were reset

meter == <<ready, owner, want, tally>>

Request == [enabled : BOOLEAN, eventId : MapEvent, counterSize : {16, 32}]

(* Slots that ask for nothing, as nsx_pmu_reset_config leaves them. *)
Nothing == [s \in Slot |-> [enabled |-> FALSE,
                            eventId |-> CHOOSE e \in MapEvent : TRUE,
                            counterSize |-> 16]]

Zeros == [e \in MapEvent |-> 0]

(* A 32-bit slot is a pair of chained 16-bit counters. *)
Modulus(size) == IF size = 32 THEN Radix * Radix ELSE Radix

(* What the owner reads in slot s. *)
Exact(s) ==
  IF want[s].enabled THEN tally[want[s].eventId] % Modulus(want[s].counterSize)
                     ELSE 0

(* The values nsx_pmu_get_counters may leave in the slots of c. *)
Readings(c) ==
  IF owner = c THEN {[s \in Slot |-> Exact(s)]} ELSE [Slot -> Foreign]

MeterInit ==
  /\ ready = FALSE
  /\ owner = None
  /\ want = Nothing
  /\ tally = Zeros

(* nsx_pmu_init(c) succeeds: the PMU counts the requests w of c from zero. *)
Program(c, w) ==
  /\ ready' = TRUE
  /\ owner' = c
  /\ want' = w
  /\ tally' = Zeros

(* nsx_pmu_init fails half way: nobody knows what the PMU counts. *)
Disturb ==
  /\ owner' = None
  /\ want' = Nothing
  /\ UNCHANGED <<ready, tally>>

(* A caller rewrites the events of c without a new init. *)
Forget(c) == IF owner = c THEN Disturb ELSE UNCHANGED meter

(* The processor works: event e occurs work[e] times. *)
Accrue(work) ==
  /\ tally' = [e \in MapEvent |-> tally[e] + work[e]]
  /\ UNCHANGED <<ready, owner, want>>

(* nsx_pmu_reset_counters, which also ends nsx_pmu_get_counters. *)
Zero ==
  /\ tally' = Zeros
  /\ UNCHANGED <<ready, owner, want>>
===============================================================================
