---------------------------- MODULE AccumulatorRun ----------------------------
(***************************************************************************)
(* Applications that profile their models with nsx_pmu_accumulator.c, as   *)
(* the usage note of nsx_pmu_accumulator.h shows it: create a matrix, run  *)
(* the model with every operator framed by op_begin and op_end until the   *)
(* matrix is complete.  An operator's row is its index, or the row of its  *)
(* tag.  The clients share one thread and one PMU: they take turns between *)
(* inferences.  A client whose matrix was refused still runs its model     *)
(* with the calls in it.                                                   *)
(*                                                                         *)
(* Clients may lapse: abandon an inference in the middle and run the model *)
(* again, or destroy a matrix and keep its handle, with which they go on   *)
(* framing operators, and may destroy once more, when the slot of the pool *)
(* has become somebody else's.                                             *)
(***************************************************************************)
EXTENDS Accumulator

CONSTANTS
  Model,        \* Model[c]: the tags of the operators of client c's model
  Job,          \* the matrices a client may ask for
  Cost(_, _),   \* Cost(n, e): occurrences of event e in operator n
  Overhead(_),  \* Overhead(e): occurrences of event e between operators
  MaxTally,     \* a client with nothing to measure runs its model only while
                \* the counts since the last reset are below this (for TLC)
  MaxLapses     \* inferences abandoned and handles kept (bound for TLC)

(* The usage note's backing buffer has a word for every cell; op_idx is a   *)
(* uint16_t, and so is a row.                                               *)
ASSUME RunAssumption ==
  /\ Model \in [Client -> Seq(Tag)]
  /\ \A c \in Client : Len(Model[c]) <= NoRow + 1
  /\ Job # {}
  /\ \A j \in Job : /\ j.ops \in Nat /\ j.events \in Nat
                    /\ j.by_tag \in BOOLEAN
                    /\ j.ops * j.events <= BufferSize
  /\ \A c \in Client : \A n \in 0 .. Len(Model[c]) - 1, e \in MapEvent :
       Cost(n, e) \in Nat
  /\ \A e \in MapEvent : Overhead(e) \in Nat
  /\ MaxTally \in Nat /\ MaxLapses \in Nat

VARIABLES
  pc,      \* "idle", or the next step of the inference that runs
  who,     \* the client whose model runs
  op,      \* the operator it runs, counted from 0
  job,     \* what every client asked for
  spoiled, \* history: the columns of a client's matrix that a lapse, or a
           \* read of somebody else's PMU, has touched
  lapses   \* lapses so far

inference == <<pc, who, op>>
vars == <<accVars, row, meter, inference, job, spoiled, lapses>>

(* The handle names the client's own matrix. *)
Owns(c) == Live(handle[c]) /\ g_acc[handle[c]].sum = c

(* Columns of the matrix that the handle h names go wrong. *)
Spoil(h, columns) ==
  spoiled' = IF Live(h) THEN [spoiled EXCEPT ![g_acc[h].sum] = @ \cup columns]
                        ELSE spoiled

Create(c, j) ==
  /\ pc = "idle"
  /\ ~Owns(c)
  /\ nsx_pmu_accm_create(c, j.ops, j.events)
  /\ job' = [job EXCEPT ![c] = j]
  /\ UNCHANGED <<row, inference, spoiled, lapses>>

(* The client forgets its handle, or lapses. *)
Destroy(c) ==
  /\ pc = "idle"
  /\ handle[c] \notin {None, NoHandle}
  /\ nsx_pmu_accm_destroy(handle[c])
  /\ \/ handle' = [handle EXCEPT ![c] = None] /\ UNCHANGED lapses
     \/ lapses < MaxLapses /\ lapses' = lapses + 1 /\ UNCHANGED handle
  /\ spoiled' = [d \in Client |->
                   IF Live(handle[c]) /\ g_acc[handle[c]].sum = d
                     THEN {} ELSE spoiled[d]]
  /\ UNCHANGED <<buffer, row, inference, job>>

(* Running the model may reset no counter and leads to no completion. *)
Idles(c) ==
  Owns(c) => nsx_pmu_accm_complete(handle[c]) /\ spoiled[c] = MapEvent

(* nsx_pmu_accm_inference_begin does nothing. *)
Infer(c) ==
  /\ pc = "idle"
  /\ handle[c] # None
  /\ Idles(c) => \A e \in MapEvent : tally[e] <= MaxTally
  /\ pc' = "row" /\ who' = c /\ op' = 0
  /\ UNCHANGED <<accVars, row, meter, job, spoiled, lapses>>

FindRow ==
  /\ pc = "row"
  /\ op < Len(Model[who])
  /\ IF job[who].by_tag
       THEN nsx_pmu_accm_resolve_tag(handle[who], Model[who][op + 1])
       ELSE row' = op /\ UNCHANGED g_acc
  /\ Spoil(handle[who], IF Owns(who) \/ g_acc' = g_acc THEN {} ELSE MapEvent)
  /\ pc' = "begin"
  /\ UNCHANGED <<handle, buffer, meter, who, op, job, lapses>>

OpBegin ==
  /\ pc = "begin"
  /\ nsx_pmu_accm_op_begin(handle[who], row)
  /\ pc' = "body"
  /\ UNCHANGED <<accVars, row, who, op, job, spoiled, lapses>>

RunOp ==
  /\ pc = "body"
  /\ Accrue([e \in MapEvent |-> Cost(op, e)])
  /\ pc' = "end"
  /\ UNCHANGED <<accVars, row, who, op, job, spoiled, lapses>>

OpEnd ==
  /\ pc = "end"
  /\ nsx_pmu_accm_op_end(handle[who], row)
  /\ LET h == handle[who]
     IN Spoil(h, IF HasRow(h, row) /\ (owner # h \/ ~Owns(who))
                   THEN PassColumns(g_acc[h]) ELSE {})
  /\ pc' = "gap"
  /\ UNCHANGED <<g_acc, handle, row, who, op, job, lapses>>

BetweenOps ==
  /\ pc = "gap"
  /\ Accrue([e \in MapEvent |-> Overhead(e)])
  /\ pc' = "row" /\ op' = op + 1
  /\ UNCHANGED <<accVars, row, who, job, spoiled, lapses>>

(* The inference is over, and with it its local variables. *)
Return == pc' = "idle" /\ op' = 0 /\ row' = 0 /\ UNCHANGED who

InferenceEnd ==
  /\ pc = "row"
  /\ op = Len(Model[who])
  /\ nsx_pmu_accm_inference_end(handle[who])
  /\ LET h == handle[who]
     IN Spoil(h, IF Live(h) /\ ~Owns(who) THEN PassColumns(g_acc[h]) ELSE {})
  /\ Return
  /\ UNCHANGED <<handle, buffer, job, lapses>>

(* The inference is given up, and its pass measured again by the next one.  *)
Abandon ==
  /\ pc # "idle"
  /\ lapses < MaxLapses
  /\ lapses' = lapses + 1
  /\ LET h == handle[who]
     IN Spoil(h, IF Live(h) THEN PassColumns(g_acc[h]) ELSE {})
  /\ Return
  /\ UNCHANGED <<accVars, meter, job>>

Step ==
  FindRow \/ OpBegin \/ RunOp \/ OpEnd \/ BetweenOps \/ InferenceEnd

Init ==
  /\ AccumulatorInit
  /\ pc = "idle" /\ op = 0
  /\ who \in Client
  /\ job = [c \in Client |-> CHOOSE j \in Job : TRUE]
  /\ spoiled = [c \in Client |-> {}]
  /\ lapses = 0

Next ==
  \/ Step
  \/ Abandon
  \/ \E c \in Client : \/ \E j \in Job : Create(c, j)
                       \/ Destroy(c)
                       \/ Infer(c)

Spec == Init /\ [][Next]_vars

(* An inference that has begun ends, and the usage note's loop runs the     *)
(* model again and again until the matrix is complete, whatever the other   *)
(* clients do in between.                                                   *)
Measure(c) == ~nsx_pmu_accm_complete(handle[c]) /\ Infer(c)

FairSpec ==
  /\ Spec
  /\ WF_vars(Step)
  /\ \A c \in Client : SF_vars(Measure(c))

-----------------------------------------------------------------------------
AccOK ==
  \A id \in Id :
    LET a == g_acc[id]
    IN a = Unused \/ /\ a.in_use /\ a.complete \in BOOLEAN
                     /\ a.ops \in 1 .. MaxOps /\ a.events \in 1 .. MapSize
                     /\ a.next_event \in 0 .. a.events - 1 + EventsPerRun
                     /\ a.tag_map \in Seq(Tag) /\ Len(a.tag_map) <= a.ops
                     /\ a.sum \in Client

TypeOK ==
  /\ AccOK
  /\ handle \in [Client -> Id \cup {NoHandle, None}]
  /\ buffer \in [Client -> [0 .. BufferSize - 1 -> 0 .. Word - 1]]
  /\ row \in 0 .. NoRow
  /\ ready \in BOOLEAN /\ owner \in Config \cup {None}
  /\ want \in [Slot -> Request] /\ tally \in [MapEvent -> Nat]
  /\ pc \in {"idle", "row", "begin", "body", "end", "gap"}
  /\ who \in Client /\ op \in Nat
  /\ job \in [Client -> Job]
  /\ spoiled \in [Client -> SUBSET MapEvent]
  /\ lapses \in 0 .. MaxLapses

(* The rows of a model, from its tags alone: one for every string, in the   *)
(* order in which the strings first occur; without tags, one for every      *)
(* operator.                                                                *)
TextOf(c, n) == Text(Model[c][n + 1])
Operators(c) == 0 .. Len(Model[c]) - 1

RowIn(c, by_tag, n) ==
  IF by_tag
    THEN LET first == Min({m \in Operators(c) : TextOf(c, m) = TextOf(c, n)})
         IN Cardinality({TextOf(c, m) : m \in 0 .. first - 1})
    ELSE n

RowOf(c, n) == RowIn(c, job[c].by_tag, n)

(* One inference's occurrences of event e in those of the first n operators *)
(* whose row is r.                                                          *)
Occurrences(c, by_tag, r, e) ==
  LET count[n \in 0 .. Len(Model[c])] ==
        IF n = 0 THEN 0
        ELSE count[n - 1] +
               IF RowIn(c, by_tag, n - 1) = r THEN Cost(n - 1, e) ELSE 0
  IN count

(* What cell (r, e) of c's matrix must hold: those in all operators. *)
Expected(c, r, e) ==
  Occurrences(c, job[c].by_tag, r, e)[Len(Model[c])] % Word

Exactly(c, columns) ==
  LET h == handle[c]
  IN Owns(c) /\ nsx_pmu_accm_complete(h) =>
       \A r \in 0 .. g_acc[h].ops - 1 :
         LET layer == Layer(h, r, g_acc[h].events)
             printed == nsx_pmu_accmprint_matrix(h, g_acc[h].ops,
                                                 g_acc[h].events)[r]
         IN \A e \in columns \cap DOMAIN layer :
              layer[e] = Expected(c, r, e) /\ printed[e] = layer[e]

(* A complete matrix is exact in every cell: each operator's occurrences of *)
(* each event are in its row once, though the columns were measured in      *)
(* different inferences, with others in between, in a buffer and a slot of  *)
(* the pool that were used before.  Rows no operator has are zero, and      *)
(* operators for which there is no row are left out.                        *)
CompleteMatrixExact == \A c \in Client : Exactly(c, MapEvent)

(* With failing initialisations, several matrices on the PMU, abandoned     *)
(* inferences and clients that use a handle after they have destroyed its   *)
(* matrix, a complete matrix is exact in the columns of all passes in which *)
(* none of that happened: what goes wrong in one pass does not leak into    *)
(* the columns of another, unless tags are entered under a stale handle.    *)
OwnColumnsExact == \A c \in Client : Exactly(c, MapEvent \ spoiled[c])

(* find_tag gives every tag of the model the row its operators were added   *)
(* to, through any pointer to the same string, and no row to a tag that     *)
(* came when the matrix was full.                                           *)
TagsFindTheirRows ==
  \A c \in Client :
    Owns(c) /\ nsx_pmu_accm_complete(handle[c]) /\ job[c].by_tag =>
      \A n \in Operators(c) :
        FindTag(handle[c], Model[c][n + 1]) =
          IF RowOf(c, n) < job[c].ops THEN RowOf(c, n) ELSE NoRow

(* A caller's buffer changes only when a matrix is created on it and in     *)
(* inferences under that matrix's handle until it is complete: the matrix   *)
(* that nsx_pmu_accm_get hands out stands still, and after destroy the      *)
(* buffer is the caller's again, whoever still keeps a handle.              *)
BuffersLeftAlone ==
  [][\A c \in Client :
       buffer'[c] # buffer[c] =>
         \/ ~Owns(c) /\ Owns(c)'
         \/ LET h == handle[who]
            IN Live(h) /\ g_acc[h].sum = c /\ ~g_acc[h].complete]_vars

(* The usage note's loop ends: every matrix is complete after finitely many *)
(* inferences, unless it is destroyed, by its client or under an old handle.*)
EveryLoopEnds ==
  \A c \in Client :
    Owns(c) ~> (nsx_pmu_accm_complete(handle[c]) \/ ~Owns(c))

(* nsx_pmu_accumulator.h:13-15 creates a matrix and runs the model while    *)
(* nsx_pmu_accm_complete is false, whatever create has answered: that loop  *)
(* ends.                                                                    *)
UsageLoopEnds ==
  \A c \in Client :
    handle[c] # None ~>
      (nsx_pmu_accm_complete(handle[c]) \/ handle[c] = None)
===============================================================================
