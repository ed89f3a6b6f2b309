-------------------------- MODULE CharacterizeProofs --------------------------
(***************************************************************************)
(* Theorems about Characterize, for every size of the map and of a batch,  *)
(* every func and whatever configuration is passed in.                     *)
(***************************************************************************)
EXTENDS Characterize, SequenceTheorems, TLAPS

(* The batch in hand has had the PMU to itself. *)
Undisturbed == \E e \in alone : map_index <= e

(* What makes EventsOnceInOrder and AloneIsExact inductive: while a batch   *)
(* is in hand the configuration asks for it, and if func has left the PMU   *)
(* alone the PMU counts it, from zero, then as func runs, and the values    *)
(* read are those counts.                                                   *)
BatchInv ==
  /\ pc \in {"func", "read", "print"} =>
       /\ map_index < MapSize /\ events = BatchEvents
       /\ \A e \in alone : e < map_index + Batch
  /\ pc \in {"idle", "batch"} => ~Undisturbed
  /\ pc \in {"func", "read"} /\ Undisturbed =>
       /\ owner = Mine /\ want = events
       /\ tally = IF pc = "func" THEN Zeros ELSE [e \in MapEvent |-> Work(e)]
  /\ pc = "print" =>
       \A s \in Slot : map_index + s \in alone /\ s < Batch =>
         value[s] = Work(map_index + s) % Word

IInv == TypeOK /\ EventsOnceInOrder /\ AloneIsExact /\ BatchInv

-----------------------------------------------------------------------------
(* Types of the operators. *)

LEMMA WordType == Modulus(16) \in Nat \ {0} /\ Word \in Nat \ {0}
  <1>1. \A n \in Nat : n > 1 => n * n \in Nat /\ n * n > 0
    BY Z3
  <1> QED BY <1>1, MeterAssumption DEF Word, Modulus

LEMMA Remainder ==
  ASSUME NEW n \in Nat, NEW w \in Nat \ {0}
  PROVE  n % w \in Nat
  BY Z3

LEMMA NothingType ==
  Nothing \in [Slot -> Request] /\ \A s \in Slot : ~Nothing[s].enabled
  <1>1. (CHOOSE e \in MapEvent : TRUE) \in MapEvent
    BY MeterAssumption
  <1> QED BY <1>1 DEF Nothing, Request

LEMMA ZerosType == Zeros \in [MapEvent -> Nat]
  BY DEF Zeros

(* Which slots a batch fills, and with what. *)
LEMMA BatchSlots ==
  ASSUME map_index \in Nat
  PROVE  /\ BatchEvents \in [Slot -> Request]
         /\ \A s \in Slot :
              /\ BatchEvents[s].enabled <=> s < Batch /\ map_index + s < MapSize
              /\ s < Batch /\ map_index + s < MapSize =>
                   /\ map_index + s \in MapEvent
                   /\ BatchEvents[s].eventId = map_index + s
                   /\ BatchEvents[s].counterSize = 32
  <1> DEFINE filled(s) == s < Batch /\ map_index + s < MapSize
  <1>1. ASSUME NEW s \in Slot, filled(s)
        PROVE  map_index + s \in MapEvent
    BY <1>1, CharacterizeAssumption
  <1>2. ASSUME NEW s \in Slot, filled(s)
        PROVE  BatchEvents[s] = Wanted(map_index + s, 32)
    BY <1>2 DEF BatchEvents, BatchRequest
  <1>3. ASSUME NEW s \in Slot, ~filled(s)
        PROVE  BatchEvents[s] = Nothing[s]
    BY <1>3 DEF BatchEvents, ResetRequest
  <1>4. ASSUME NEW s \in Slot
        PROVE  BatchEvents[s] \in Request
    <2>1. CASE filled(s)
      <3>1. \A e \in MapEvent : Wanted(e, 32) \in Request
        BY DEF Wanted, Request
      <3> HIDE DEF filled
      <3> QED BY <1>1, <1>2, <2>1, <3>1
    <2>2. CASE ~filled(s)
      BY <1>3, <2>2, NothingType
    <2> QED BY <2>1, <2>2
  <1>5. BatchEvents \in [Slot -> Request]
    BY <1>4 DEF BatchEvents
  <1> HIDE DEF filled
  <1>6. ASSUME NEW s \in Slot
        PROVE  /\ BatchEvents[s].enabled <=> filled(s)
               /\ filled(s) => /\ map_index + s \in MapEvent
                               /\ BatchEvents[s].eventId = map_index + s
                               /\ BatchEvents[s].counterSize = 32
    <2>1. CASE filled(s)
      <3>1. BatchEvents[s] = Wanted(map_index + s, 32)
        BY <1>2, <2>1
      <3>2. \A e : /\ Wanted(e, 32).enabled /\ Wanted(e, 32).eventId = e
                   /\ Wanted(e, 32).counterSize = 32
        BY DEF Wanted
      <3> QED BY ONLY <1>1, <2>1, <3>1, <3>2, s \in Slot
    <2>2. CASE ~filled(s)
      BY <1>3, <2>2, NothingType
    <2> QED BY <2>1, <2>2
  <1> QED BY <1>5, <1>6 DEF filled

(* What is read is a number, in a counter of either width. *)
LEMMA ReadingType ==
  ASSUME want \in [Slot -> Request], tally \in [MapEvent -> Nat],
         NEW v \in Readings(Mine)
  PROVE  v \in [Slot -> Nat]
  <1>1. ASSUME NEW s \in Slot
        PROVE  Exact(s) \in Nat
    <2>1. want[s] \in Request /\ tally[want[s].eventId] \in Nat
      BY DEF Request
    <2>2. Modulus(want[s].counterSize) \in Nat \ {0}
      BY <2>1, WordType DEF Request, Modulus, Word
    <2>3. tally[want[s].eventId] % Modulus(want[s].counterSize) \in Nat
      BY <2>1, <2>2, Remainder
    <2> QED BY <2>3 DEF Exact
  <1> QED BY <1>1, MeterAssumption DEF Readings

-----------------------------------------------------------------------------
(* One lemma per step. *)

LEMMA InitInv == Init => IInv
  <1> SUFFICES ASSUME Init
               PROVE  IInv
    OBVIOUS
  <1>1. TypeOK
    <2>1. /\ ready \in BOOLEAN /\ owner \in Config \cup {None}
          /\ want \in [Slot -> Request] /\ tally \in [MapEvent -> Nat]
      BY NothingType, ZerosType DEF Init, MeterInit
    <2>2. /\ pc = "idle" /\ map_index \in Nat /\ slot \in 0 .. 2 * Batch
          /\ events \in [Slot -> Request] /\ value \in [Slot -> Nat]
          /\ printed \in Seq(Line) /\ alone \subseteq MapEvent
      BY NothingType, CharacterizeAssumption DEF Init
    <2> QED BY <2>1, <2>2 DEF TypeOK
  <1>2. EventsOnceInOrder /\ AloneIsExact
    BY CharacterizeAssumption
       DEF Init, EventsOnceInOrder, AloneIsExact, Lesser
  <1>3. BatchInv
    BY DEF Init, BatchInv, Undisturbed
  <1> QED BY <1>1, <1>2, <1>3 DEF IInv

LEMMA CallStep == IInv /\ Call => IInv'
  <1> SUFFICES ASSUME IInv, Call
               PROVE  IInv'
    OBVIOUS
  <1>1. /\ pc' = "batch" /\ map_index' = 0 /\ printed' = <<>> /\ alone' = {}
        /\ events' \in [Slot -> Request] /\ UNCHANGED <<slot, value>>
    BY CharacterizeAssumption DEF Call
  <1>2. /\ ready' \in BOOLEAN /\ owner' \in Config \cup {None}
        /\ want' \in [Slot -> Request] /\ tally' \in [MapEvent -> Nat]
    BY NothingType DEF Call, Forget, Disturb, meter, IInv, TypeOK
  <1>3. TypeOK'
    BY <1>1, <1>2 DEF IInv, TypeOK
  <1>4. EventsOnceInOrder' /\ AloneIsExact'
    BY <1>1, CharacterizeAssumption
       DEF EventsOnceInOrder, AloneIsExact, Lesser
  <1>5. BatchInv'
    BY <1>1 DEF BatchInv, Undisturbed
  <1> QED BY <1>3, <1>4, <1>5 DEF IInv

LEMMA PrepareStep == IInv /\ Prepare => IInv'
  <1> SUFFICES ASSUME IInv, Prepare
               PROVE  IInv'
    OBVIOUS
  <1> DEFINE batch == {e \in MapEvent :
                         map_index <= e /\ e < map_index + Batch}
  <1>1. /\ pc = "batch" /\ map_index \in Nat /\ map_index < MapSize
        /\ events' = BatchEvents /\ value' = [s \in Slot |-> 0]
        /\ UNCHANGED <<map_index, slot, printed>>
    BY DEF Prepare, IInv, TypeOK
  <1>2. BatchEvents' = BatchEvents
    BY <1>1 DEF BatchEvents, ResetRequest, Nothing
  <1>3. \/ /\ Program(Mine, BatchEvents)
           /\ pc' = "func" /\ alone' = alone \cup batch
        \/ /\ Disturb
           /\ pc' = "idle" /\ alone' = alone
    BY DEF Prepare
  <1>4. TypeOK'
    <2>1. BatchEvents \in [Slot -> Request]
      BY <1>1, BatchSlots
    <2>2. /\ ready' \in BOOLEAN /\ owner' \in Config \cup {None}
          /\ want' \in [Slot -> Request] /\ tally' \in [MapEvent -> Nat]
      BY <1>3, <2>1, NothingType, ZerosType, CharacterizeAssumption
         DEF Program, Disturb, IInv, TypeOK
    <2>3. alone' \subseteq MapEvent /\ pc' \in {"func", "idle"}
      BY <1>3 DEF IInv, TypeOK
    <2> QED BY <1>1, <2>1, <2>2, <2>3 DEF IInv, TypeOK
  <1>5. EventsOnceInOrder'
    BY <1>1, <1>3 DEF IInv, EventsOnceInOrder
  <1>6. AloneIsExact'
    <2>1. \A i \in DOMAIN printed : printed[i].regname < map_index
      <3>1. /\ DOMAIN printed = 1 .. Len(printed)
            /\ Len(printed) = Lesser(map_index + 0, MapSize)
        BY <1>1, LenProperties DEF IInv, TypeOK, EventsOnceInOrder
      <3>2. Len(printed) = map_index
        BY <1>1, <3>1, CharacterizeAssumption DEF Lesser
      <3> QED BY <1>1, <3>1, <3>2 DEF IInv, EventsOnceInOrder
    <2>2. \A i \in DOMAIN printed :
            printed[i].regname \in alone' => printed[i].regname \in alone
      <3>1. \A e \in batch : ~(e < map_index)
        BY <1>1, CharacterizeAssumption
      <3> HIDE DEF batch
      <3> QED BY <1>3, <2>1, <3>1
    <2> QED BY <1>1, <2>2 DEF IInv, AloneIsExact
  <1>7. BatchInv'
    <2>1. pc' = "idle" => ~Undisturbed'
      BY <1>1, <1>3 DEF IInv, BatchInv, Undisturbed
    <2>2. pc' = "func" => owner' = Mine /\ want' = events' /\ tally' = Zeros
      BY <1>1, <1>3 DEF Program
    <2>3. pc' = "func" => \A e \in alone' : e < map_index + Batch
      <3>1. ASSUME NEW e \in alone
            PROVE  e < map_index + Batch
        <4>1. e \in Nat /\ ~(map_index <= e) /\ Batch \in Nat
          BY <1>1, CharacterizeAssumption
             DEF IInv, TypeOK, BatchInv, Undisturbed
        <4> QED BY <1>1, <4>1
      <3> QED BY <1>3, <3>1
    <2> QED BY <1>1, <1>2, <1>3, <2>1, <2>2, <2>3 DEF BatchInv
  <1> QED BY <1>4, <1>5, <1>6, <1>7 DEF IInv

LEMMA RunFuncStep == IInv /\ RunFunc => IInv'
  <1> SUFFICES ASSUME IInv, RunFunc
               PROVE  IInv'
    OBVIOUS
  <1>1. /\ pc = "func" /\ pc' = "read"
        /\ tally' = [e \in MapEvent |->
                       tally[e] + [f \in MapEvent |-> Work(f)][e]]
        /\ UNCHANGED <<ready, owner, want, map_index, slot, events, value,
                       printed, alone>>
    BY DEF RunFunc, Accrue
  <1>2. tally' = [e \in MapEvent |-> tally[e] + Work(e)]
    BY <1>1
  <1>3. \A e \in MapEvent : tally[e] + Work(e) \in Nat
    <2>1. \A e \in MapEvent : tally[e] \in Nat
      BY DEF IInv, TypeOK
    <2>2. \A e \in MapEvent : Work(e) \in Nat
      BY CharacterizeAssumption
    <2> QED BY ONLY <2>1, <2>2
  <1>4. tally' \in [MapEvent -> Nat]
    BY <1>2, <1>3
  <1>5. TypeOK'
    BY <1>1, <1>4 DEF IInv, TypeOK
  <1>6. EventsOnceInOrder' /\ AloneIsExact'
    BY <1>1 DEF IInv, EventsOnceInOrder, AloneIsExact
  <1>7. BatchInv'
    <2>1. tally = Zeros => tally' = [e \in MapEvent |-> Work(e)]
      <3>1. \A e \in MapEvent : 0 + Work(e) = Work(e)
        BY CharacterizeAssumption
      <3>2. tally = Zeros => \A e \in MapEvent : tally[e] + Work(e) = 0 + Work(e)
        BY DEF Zeros
      <3>3. tally = Zeros => \A e \in MapEvent : tally[e] + Work(e) = Work(e)
        BY <3>1, <3>2
      <3> QED BY <1>2, <3>3
    <2>2. BatchEvents' = BatchEvents
      BY <1>1 DEF BatchEvents, ResetRequest, Nothing
    <2> QED BY <1>1, <2>1, <2>2 DEF IInv, BatchInv, Undisturbed
  <1> QED BY <1>5, <1>6, <1>7 DEF IInv

LEMMA FuncUsesPmuStep == IInv /\ FuncUsesPmu => IInv'
  <1> SUFFICES ASSUME IInv, FuncUsesPmu
               PROVE  IInv'
    OBVIOUS
  <1>1. /\ pc \in {"func", "read"}
        /\ alone' = {e \in alone : e < map_index}
        /\ UNCHANGED <<pc, map_index, slot, events, value, printed>>
    BY DEF FuncUsesPmu
  <1>2. /\ ready' \in BOOLEAN /\ owner' \in Config \cup {None}
        /\ want' \in [Slot -> Request] /\ tally' \in [MapEvent -> Nat]
    BY NothingType, ZerosType
       DEF FuncUsesPmu, Program, Disturb, Zero, IInv, TypeOK
  <1>3. TypeOK'
    BY <1>1, <1>2 DEF IInv, TypeOK
  <1>4. EventsOnceInOrder' /\ AloneIsExact'
    BY <1>1 DEF IInv, EventsOnceInOrder, AloneIsExact
  <1>5. BatchInv'
    <2>1. ~Undisturbed'
      <3>1. map_index \in Nat /\ \A e \in alone : e \in Nat
        BY CharacterizeAssumption DEF IInv, TypeOK
      <3>2. \A e \in alone : e < map_index => ~(map_index <= e)
        BY <3>1
      <3> QED BY <1>1, <3>2 DEF Undisturbed
    <2>2. BatchEvents' = BatchEvents
      BY <1>1 DEF BatchEvents, ResetRequest, Nothing
    <2> QED BY <1>1, <2>1, <2>2 DEF IInv, BatchInv
  <1> QED BY <1>3, <1>4, <1>5 DEF IInv

LEMMA ReadStep == IInv /\ Read => IInv'
  <1> SUFFICES ASSUME IInv, Read
               PROVE  IInv'
    OBVIOUS
  <1>1. /\ pc = "read" /\ pc' = "print" /\ slot' = 0
        /\ value' \in Readings(Mine) /\ tally' = Zeros
        /\ UNCHANGED <<ready, owner, want, map_index, events, printed, alone>>
    BY DEF Read, Zero
  <1>2. value' \in [Slot -> Nat]
    BY <1>1, ReadingType DEF IInv, TypeOK
  <1>3. TypeOK'
    <2>1. slot' \in 0 .. 2 * Batch
      BY <1>1, CharacterizeAssumption
    <2>2. tally' \in [MapEvent -> Nat]
      BY <1>1, ZerosType
    <2> QED BY <1>1, <1>2, <2>1, <2>2 DEF IInv, TypeOK
  <1>4. EventsOnceInOrder'
    <2>1. 0 < Batch /\ Lesser(0, Batch) = 0
      BY CharacterizeAssumption DEF Lesser
    <2> QED BY <1>1, <2>1 DEF IInv, EventsOnceInOrder
  <1>5. AloneIsExact'
    BY <1>1 DEF IInv, AloneIsExact
  <1>6. BatchInv'
    <2>1. BatchEvents' = BatchEvents
      BY <1>1 DEF BatchEvents, ResetRequest, Nothing
    <2>2. ASSUME NEW s \in Slot, map_index + s \in alone, s < Batch
          PROVE  value'[s] = Work(map_index + s) % Word
      <3>1. map_index \in Nat /\ s \in Nat /\ map_index + s \in MapEvent
        BY <2>2, CharacterizeAssumption DEF IInv, TypeOK
      <3>2. map_index <= map_index + s /\ map_index + s < MapSize
        BY <3>1, CharacterizeAssumption
      <3>3. /\ owner = Mine /\ want = BatchEvents
            /\ tally = [e \in MapEvent |-> Work(e)]
        BY <1>1, <2>2, <3>2 DEF IInv, BatchInv, Undisturbed
      <3>4. value'[s] = Exact(s)
        BY <1>1, <3>3 DEF Readings
      <3>5. /\ want[s].enabled /\ want[s].eventId = map_index + s
            /\ want[s].counterSize = 32
        BY <2>2, <3>1, <3>2, <3>3, BatchSlots
      <3> QED BY <3>1, <3>3, <3>4, <3>5 DEF Exact, Word
    <2> QED BY <1>1, <2>1, <2>2 DEF IInv, BatchInv
  <1> QED BY <1>3, <1>4, <1>5, <1>6 DEF IInv

LEMMA PrintSlotStep == IInv /\ PrintSlot => IInv'
  <1> SUFFICES ASSUME IInv, PrintSlot
               PROVE  IInv'
    OBVIOUS
  <1> DEFINE filled == slot < Batch /\ map_index + slot < MapSize
             line == [regname |-> map_index + slot, count |-> value[slot]]
  <1>1. /\ pc = "print" /\ slot \in Slot /\ slot' = slot + 1
        /\ UNCHANGED <<meter, pc, map_index, events, value, alone>>
    BY DEF PrintSlot
  <1>2. /\ map_index \in Nat /\ map_index < MapSize /\ slot \in Nat
        /\ MapSize \in Nat /\ Batch \in Nat
        /\ printed \in Seq(Line) /\ Len(printed) \in Nat
    BY <1>1, LenProperties, CharacterizeAssumption DEF IInv, TypeOK, BatchInv
  <1>3. printed' = IF filled THEN Append(printed, line) ELSE printed
    <2>1. events = BatchEvents
      BY <1>1 DEF IInv, BatchInv
    <2>2. /\ events[slot].enabled <=> filled
          /\ filled => events[slot].eventId = map_index + slot
      BY <1>1, <1>2, <2>1, BatchSlots
    <2> HIDE DEF filled
    <2> QED BY <2>2 DEF PrintSlot
  <1>4. Len(printed) = Lesser(map_index + Lesser(slot, Batch), MapSize)
    BY <1>1 DEF IInv, EventsOnceInOrder
  <1>5. filled => line \in Line
    BY <1>1, <1>2, BatchSlots DEF IInv, TypeOK, Line
  <1>6. filled => /\ printed' \in Seq(Line)
                  /\ Len(printed') = Len(printed) + 1
                  /\ \A i \in 1 .. Len(printed) : printed'[i] = printed[i]
                  /\ printed'[Len(printed) + 1] = line
    <2> HIDE DEF line, filled
    <2> QED BY <1>2, <1>3, <1>5, AppendProperties
  <1>7. TypeOK'
    <2>1. slot + 1 \in 0 .. 2 * Batch
      BY <1>1, CharacterizeAssumption
    <2>2. printed' \in Seq(Line)
      BY <1>2, <1>3, <1>6
    <2> QED BY <1>1, <2>1, <2>2 DEF IInv, TypeOK, meter
  <1>8. CASE filled
    <2>1. /\ Len(printed) = map_index + slot
          /\ Lesser(map_index + Lesser(slot + 1, Batch), MapSize)
               = (map_index + slot) + 1
      BY <1>2, <1>4, <1>8 DEF Lesser
    <2>2. /\ DOMAIN printed = 1 .. Len(printed)
          /\ DOMAIN printed' = 1 .. Len(printed')
      BY <1>2, <1>6, <1>8, LenProperties
    <2>3. ASSUME NEW i \in DOMAIN printed'
          PROVE  i \in DOMAIN printed \/ i = Len(printed) + 1
      <3>1. \A n \in Nat : \A j \in 1 .. n + 1 : j \in 1 .. n \/ j = n + 1
        OBVIOUS
      <3> QED BY <1>2, <1>6, <1>8, <2>2, <3>1
    <2>4. EventsOnceInOrder'
      <3>1. ASSUME NEW i \in DOMAIN printed'
            PROVE  printed'[i].regname = i - 1
        <4>1. CASE i \in DOMAIN printed
          BY <1>6, <1>8, <2>2, <4>1 DEF IInv, EventsOnceInOrder
        <4>2. CASE i = Len(printed) + 1
          <5>1. printed'[i].regname = map_index + slot
            BY <1>6, <1>8, <4>2
          <5>2. i - 1 = map_index + slot
            BY <1>2, <2>1, <4>2
          <5> QED BY <5>1, <5>2
        <4> QED BY <2>3, <4>1, <4>2
      <3>2. Len(printed') =
              Lesser(map_index + Lesser(slot + 1, Batch), MapSize)
        BY <1>6, <1>8, <2>1
      <3> QED BY <1>1, <3>1, <3>2 DEF EventsOnceInOrder, Lesser
    <2>5. AloneIsExact'
      <3>1. ASSUME NEW i \in DOMAIN printed', printed'[i].regname \in alone
            PROVE  printed'[i].count = Work(printed'[i].regname) % Word
        <4>1. CASE i \in DOMAIN printed
          BY <1>6, <1>8, <2>2, <3>1, <4>1 DEF IInv, AloneIsExact
        <4>2. CASE i = Len(printed) + 1
          <5>1. /\ printed'[i].regname = map_index + slot
                /\ printed'[i].count = value[slot]
            BY <1>6, <1>8, <4>2
          <5>2. value[slot] = Work(map_index + slot) % Word
            BY <1>1, <1>8, <3>1, <5>1 DEF IInv, BatchInv
          <5> QED BY <5>1, <5>2
        <4> QED BY <2>3, <4>1, <4>2
      <3> QED BY <1>1, <3>1 DEF AloneIsExact
    <2>6. BatchInv'
      <3>1. BatchEvents' = BatchEvents
        BY <1>1 DEF BatchEvents, ResetRequest, Nothing
      <3> QED BY <1>1, <3>1 DEF IInv, BatchInv
    <2> QED BY <1>7, <2>4, <2>5, <2>6 DEF IInv
  <1>9. CASE ~filled
    <2>1. Lesser(map_index + Lesser(slot + 1, Batch), MapSize)
            = Lesser(map_index + Lesser(slot, Batch), MapSize)
      BY <1>2, <1>9 DEF Lesser
    <2>2. printed' = printed
      BY <1>3, <1>9
    <2>3. EventsOnceInOrder' /\ AloneIsExact'
      BY <1>1, <1>4, <2>1, <2>2
         DEF IInv, EventsOnceInOrder, AloneIsExact, Lesser
    <2>4. BatchInv'
      <3>1. BatchEvents' = BatchEvents
        BY <1>1 DEF BatchEvents, ResetRequest, Nothing
      <3> QED BY <1>1, <3>1 DEF IInv, BatchInv
    <2> QED BY <1>7, <2>3, <2>4 DEF IInv
  <1> QED BY <1>8, <1>9

LEMMA NextBatchStep == IInv /\ NextBatch => IInv'
  <1> SUFFICES ASSUME IInv, NextBatch
               PROVE  IInv'
    OBVIOUS
  <1>1. /\ pc = "print" /\ pc' = "batch"
        /\ slot \notin Slot /\ map_index' = map_index + Batch
        /\ UNCHANGED <<meter, slot, events, value, printed, alone>>
    BY DEF NextBatch
  <1>2. map_index \in Nat /\ Batch \in Nat /\ slot = 2 * Batch
    BY <1>1, CharacterizeAssumption DEF IInv, TypeOK
  <1>3. map_index + Batch \in Nat
    BY <1>2
  <1>4. TypeOK'
    BY <1>1, <1>3 DEF IInv, TypeOK, meter
  <1>5. EventsOnceInOrder'
    <2>1. /\ Lesser(2 * Batch, Batch) = Batch
          /\ (map_index + Batch) + 0 = map_index + Batch
      BY <1>2 DEF Lesser
    <2>2. Len(printed) = Lesser((map_index + Batch) + 0, MapSize)
      BY <1>1, <1>2, <2>1 DEF IInv, EventsOnceInOrder
    <2> QED BY <1>1, <2>2 DEF IInv, EventsOnceInOrder, Lesser
  <1>6. AloneIsExact'
    BY <1>1 DEF IInv, AloneIsExact
  <1>7. BatchInv'
    <2>1. ASSUME NEW e \in alone
          PROVE  ~(map_index + Batch <= e)
      <3>1. e \in Nat /\ e < map_index + Batch
        BY <1>1, CharacterizeAssumption DEF IInv, TypeOK, BatchInv
      <3> QED BY <1>3, <3>1
    <2> QED BY <1>1, <2>1 DEF BatchInv, Undisturbed
  <1> QED BY <1>4, <1>5, <1>6, <1>7 DEF IInv

LEMMA ReturnStep == IInv /\ Return => IInv'
  <1> SUFFICES ASSUME IInv, Return
               PROVE  IInv'
    OBVIOUS
  <1>1. /\ pc = "batch" /\ pc' = "idle"
        /\ UNCHANGED <<meter, map_index, slot, events, value, printed, alone>>
    BY DEF Return
  <1>2. TypeOK'
    BY <1>1 DEF IInv, TypeOK, meter
  <1>3. EventsOnceInOrder' /\ AloneIsExact' /\ BatchInv'
    BY <1>1 DEF IInv, EventsOnceInOrder, AloneIsExact, BatchInv, Undisturbed
  <1> QED BY <1>2, <1>3 DEF IInv

LEMMA NextInv == IInv /\ [Next]_vars => IInv'
  <1> SUFFICES ASSUME IInv, [Next]_vars
               PROVE  IInv'
    OBVIOUS
  <1>1. CASE UNCHANGED vars
    <2>1. BatchEvents' = BatchEvents
      BY <1>1 DEF vars, call, BatchEvents, ResetRequest, Nothing
    <2> QED BY <1>1, <2>1 DEF vars, call, meter, IInv, TypeOK,
              EventsOnceInOrder, AloneIsExact, BatchInv, Undisturbed
  <1> QED BY <1>1, CallStep, PrepareStep, RunFuncStep, FuncUsesPmuStep,
             ReadStep, PrintSlotStep, NextBatchStep, ReturnStep DEF Next

THEOREM Inductive == Spec => []IInv
  <1> QED BY InitInv, NextInv, PTL DEF Spec

-----------------------------------------------------------------------------
(* nsx_pmu_characterize_function prints the events of the map from its      *)
(* beginning, each once and in order, whatever the size of the map, and     *)
(* stops between two batches only.                                          *)
THEOREM CharacterizesMap == Spec => []EventsOnceInOrder
  <1>1. IInv => EventsOnceInOrder
    BY DEF IInv
  <1> QED BY <1>1, Inductive, PTL

(* A batch whose func leaves the PMU alone is printed as it occurred,       *)
(* whatever func does in other batches.                                     *)
THEOREM AloneExact == Spec => []AloneIsExact
  <1>1. IInv => AloneIsExact
    BY DEF IInv
  <1> QED BY <1>1, Inductive, PTL
===============================================================================
