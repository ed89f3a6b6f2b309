----------------------------- MODULE PmuContract -----------------------------
(***************************************************************************)
(* What nsx_pmu_utils.h promises its callers, without hardware counters,   *)
(* masks or chaining: PmuMeter's steps as a specification.  A read has a   *)
(* beginning and an end, the PMU is stopped in between, and the report it  *)
(* leaves is exact for the owner of the meter.                             *)
(***************************************************************************)
EXTENDS PmuMeter

VARIABLES
  reading,  \* the configuration being read, or None
  report    \* the counterValues of every configuration

NoReport == [s \in Slot |-> 0]

ReportOf(c, values) ==
  /\ report'[c] \in values
  /\ \A d \in Config \ {c} : report'[d] = report[d]

Init ==
  /\ MeterInit
  /\ reading = None
  /\ report = [c \in Config |-> NoReport]

(* nsx_pmu_event_create, nsx_pmu_reset_config, nsx_pmu_apply_preset. *)
Configure(c) ==
  /\ reading = None
  /\ Forget(c)
  /\ ReportOf(c, {report[c], NoReport})
  /\ UNCHANGED reading

InitSucceeds(c) ==
  /\ reading = None
  /\ want' \in [Slot -> Request]
  /\ Program(c, want')
  /\ ReportOf(c, {NoReport})
  /\ UNCHANGED reading

InitFails(c) ==
  /\ reading = None
  /\ Disturb
  /\ ReportOf(c, [Slot -> Foreign])
  /\ UNCHANGED reading

ResetCounters ==
  /\ reading = None
  /\ Zero
  /\ UNCHANGED <<reading, report>>

BeginRead(c) ==
  /\ reading = None
  /\ ready
  /\ reading' = c
  /\ ReportOf(c, {NoReport})
  /\ UNCHANGED meter

EndRead ==
  /\ reading # None
  /\ ReportOf(reading, Readings(reading))
  /\ Zero
  /\ reading' = None

(* While the PMU is stopped for a read nothing is added to the tally. *)
Occur(e) ==
  /\ reading = None \/ owner = None
  /\ Accrue([x \in MapEvent |-> IF x = e THEN 1 ELSE 0])
  /\ UNCHANGED <<reading, report>>

Next ==
  \/ \E c \in Config : Configure(c) \/ InitSucceeds(c) \/ InitFails(c)
                         \/ BeginRead(c)
  \/ ResetCounters
  \/ EndRead
  \/ \E e \in MapEvent : Occur(e)

Spec == Init /\ [][Next]_<<meter, reading, report>>
===============================================================================
