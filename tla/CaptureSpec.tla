----------------------------- MODULE CaptureSpec -----------------------------
(***************************************************************************)
(* What a capture is for, with no passes, chunks or PMU: the application   *)
(* names a job, that is how many operators its model has and which events  *)
(* it wants of each, and receives one exact row per operator, in order, in *)
(* batches.  It may start over or give up at any time.                     *)
(***************************************************************************)
EXTENDS Integers, Sequences

CONSTANTS
  Job,   \* jobs: records with ops (a number) and columns (a function)
  NoJob,
  Cell(_, _)  \* the count a row must hold for an operator and an event

VARIABLES
  job,  \* the job in hand, or NoJob
  rows  \* the rows received

Row(op) == [e \in DOMAIN job.columns |-> Cell(op, job.columns[e])]

Init == job = NoJob /\ rows = <<>>

Begin(j) == job' = j /\ rows' = <<>>

Abandon == job' = NoJob /\ rows' = <<>>

(* Rows already received are never touched again, and none is skipped. *)
Deliver ==
  /\ job # NoJob
  /\ \E n \in Len(rows) + 1 .. job.ops :
       rows' = rows \o [i \in 1 .. n - Len(rows) |-> Row(Len(rows) + i - 1)]
  /\ UNCHANGED job

Next == (\E j \in Job : Begin(j)) \/ Abandon \/ Deliver

Spec == Init /\ [][Next]_<<job, rows>>
===============================================================================
