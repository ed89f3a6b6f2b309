---------------------------- MODULE DriverProofs ----------------------------
(***************************************************************************)
(* What holds of the PMU driver for every number of configurations, slots, *)
(* hardware counters and events, every counter width and every preset.     *)
(* The runs of PmuDriver check it with one-bit counters.                   *)
(*                                                                         *)
(* The argument: as long as the PMU is programmed with some requests,      *)
(* nsx_pmu_init has given each of their slots counters of its own (the     *)
(* counting lemmas), a counter and the one chained to it hold the          *)
(* occurrences of the slot's event in radix Radix (the arithmetic lemmas), *)
(* nothing counts during a read, and the loop of nsx_pmu_get_counters      *)
(* never stands on the upper half of a pair, whichever configuration of    *)
(* those widths it fills.                                                  *)
(***************************************************************************)
EXTENDS PmuDriver, FiniteSetTheorems, WellFoundedInduction, TLAPS

-----------------------------------------------------------------------------
(* The invariant *)

Requests == [Index -> Event]

(* The number nsx_pmu_get_counters is to report for slot s of requests w. *)
Count(w, s) == occurred[w[s].eventId] % Modulus(w[s].counterSize)

(* The counters of slot s hold the occurrences of its event. *)
Held(w, s) ==
  LET i == FirstCounter(w, s)
      n == occurred[w[s].eventId]
  IN /\ evcntr[i] = n % Radix
     /\ w[s].counterSize = 32 => evcntr[i + 1] = (n \div Radix) % Radix

(* The counters are allocated to the slots of w, and the driver knows it. *)
Allocated(w) ==
  /\ TotalCounters(w) <= MaxCounters
  /\ \A s \in EnabledSlots(w) : Listed(w[s].eventId)
  /\ evtyper = EventTypes(w)
  /\ counters = CounterMask(w)
  /\ \A s \in EnabledSlots(w) : config_index[FirstCounter(w, s)] = s

(* The PMU counts what w asks for, unless a read has stopped it. *)
Programmed(w) ==
  /\ Allocated(w)
  /\ cnten = IF reading = None THEN counters ELSE {}
  /\ \A s \in EnabledSlots(w) : Held(w, s)

(* The report of c names the events of w. *)
Named(w, c) ==
  \A s \in EnabledSlots(w) : counter[c][s].mapIndex = w[s].eventId

(* The report of c has no value for a slot that w does not ask for. *)
Vacant(w, c) ==
  \A s \in Index \ EnabledSlots(w) : counter[c][s].counterValue = 0

(* nsx_pmu_get_counters works on c, whose widths are those of w: the slots  *)
(* behind pmu_index are read, and base_value is the lower half of the pair  *)
(* the loop stands on.                                                      *)
Walk(w, c) ==
  /\ low = None => \A s \in Enabled(w, 32) : pmu_index # FirstCounter(w, s) + 1
  /\ low # None => \E s \in Enabled(w, 32) :
                     pmu_index = FirstCounter(w, s) /\ low = evcntr[pmu_index]
  /\ \A s \in EnabledSlots(w) :
       FirstCounter(w, s) < pmu_index => counter[c][s].counterValue = Count(w, s)

ReadInv ==
  /\ reading = None => low = None
  /\ low # None => pmu_index < MaxCounters

DisabledInv ==
  \A c \in Config, s \in Index :
    ~events[c][s].enabled => events[c][s].eventId \in MapEvent

MeantInv == \A w \in Requests : meant = w => Programmed(w)

AuthorInv ==
  \A w \in Requests, c \in Config : meant = w /\ author = c => Named(w, c)

OwnerInv ==
  \A c \in Config :
    owner = c => meant = events[c] /\ author = c /\ Vacant(events[c], c)

WalkInv ==
  \A w \in Requests, c \in Config :
    meant = w /\ reading = c /\ SameWidths(c, w) => Walk(w, c)

DriverInv ==
  ReadInv /\ DisabledInv /\ MeantInv /\ AuthorInv /\ OwnerInv /\ WalkInv

-----------------------------------------------------------------------------
(* Arithmetic *)

LEMMA ModUnique ==
  ASSUME NEW q \in Nat, NEW r \in Nat, r > 0, NEW m \in 0 .. r - 1
  PROVE  (q * r + m) % r = m
  BY Z3

LEMMA DivMod ==
  ASSUME NEW n \in Nat, NEW r \in Nat, r > 0
  PROVE  /\ n \div r \in Nat
         /\ n % r \in 0 .. r - 1
         /\ n = (n \div r) * r + (n % r)
  BY Z3

LEMMA ModStep ==
  ASSUME NEW n \in Nat, NEW r \in Nat, r > 1
  PROVE  ((n % r) + 1) % r = (n + 1) % r
<1> DEFINE q == n \div r
           m == n % r
<1>1. q \in Nat /\ m \in 0 .. r - 1 /\ n = q * r + m
  BY DivMod
<1> HIDE DEF q, m
<1>2. CASE m + 1 \in 0 .. r - 1
  <2>1. (q * r + (m + 1)) % r = m + 1
    BY <1>1, <1>2, ModUnique
  <2>2. (0 * r + (m + 1)) % r = m + 1
    BY <1>1, <1>2, ModUnique
  <2> QED
    BY <1>1, <1>2, <2>1, <2>2 DEF m
<1>3. CASE m + 1 = r
  <2>1. ((q + 1) * r + 0) % r = 0 /\ (1 * r + 0) % r = 0
    BY <1>1, ModUnique
  <2>2. n + 1 = (q + 1) * r + 0 /\ m + 1 = 1 * r + 0
    BY <1>1, <1>3, Z3
  <2> QED
    BY ONLY <2>1, <2>2 DEF m
<1> QED
  BY <1>1, <1>2, <1>3

LEMMA DivStep ==
  ASSUME NEW n \in Nat, NEW r \in Nat, r > 1
  PROVE  /\ n % r = r - 1 => (n + 1) \div r = (n \div r) + 1
         /\ n % r # r - 1 => (n + 1) \div r = n \div r
  BY Z3

(* Two digits in radix r are the number modulo r * r. *)
LEMMA TwoDigits ==
  ASSUME NEW n \in Nat, NEW r \in Nat, r > 1
  PROVE  (n % r) + ((n \div r) % r) * r = n % (r * r)
<1> DEFINE q == n \div r
           m == n % r
           k == q \div r
           d == q % r
<1>1. q \in Nat /\ m \in 0 .. r - 1 /\ n = q * r + m
  BY DivMod
<1>2. k \in Nat /\ d \in 0 .. r - 1 /\ q = k * r + d
  BY <1>1, DivMod
<1> HIDE DEF q, m, k, d
<1>3. /\ r * r \in Nat /\ r * r > 0
      /\ m + d * r \in 0 .. r * r - 1
      /\ n = k * (r * r) + (m + d * r)
  BY <1>1, <1>2, Z3
<1>4. (k * (r * r) + (m + d * r)) % (r * r) = m + d * r
  BY <1>2, <1>3, ModUnique
<1> QED
  BY ONLY <1>3, <1>4 DEF q, m, d

LEMMA TwoDigitsRange ==
  ASSUME NEW r \in Nat, r > 1, NEW a \in 0 .. r - 1, NEW b \in 0 .. r - 1
  PROVE  a + b * r \in 0 .. r * r - 1
  BY Z3

-----------------------------------------------------------------------------
(* Counting: slots of one width take distinct places, in slot order. *)

LEMMA MaxNat == MaxCounters \in Nat /\ MaxCounters > 0
<1>1. MaxCounters \in Nat \ {0}
  BY DriverAssumption
<1> QED
  BY <1>1

LEMMA RadixNat == Radix \in Nat /\ Radix > 1
  BY DriverAssumption

LEMMA IndexInt ==
  /\ Index \subseteq Nat
  /\ \A i \in Nat : i < MaxCounters => i \in Index
  /\ \A i \in Index : i < MaxCounters
  BY MaxNat DEF Index

LEMMA IndexFinite == IsFiniteSet(Index)
<1> DEFINE m == MaxCounters - 1
           z == 0
<1>1. z \in Int /\ m \in Int
  BY MaxNat
<1>2. Index = z .. m
  BY DEF Index
<1> HIDE DEF m, z
<1> QED
  BY <1>1, <1>2, FS_Interval

LEMMA Counted ==
  ASSUME NEW S, S \subseteq Index
  PROVE  /\ Cardinality(S) \in Nat
         /\ \A s : Below(S, s) \in Nat
<1>1. IsFiniteSet(S)
  BY IndexFinite, FS_Subset
<1>2. ASSUME NEW s PROVE IsFiniteSet({t \in S : t < s})
  BY <1>1, FS_Subset
<1> QED
  BY <1>1, <1>2, FS_CardinalityType DEF Below

LEMMA BelowStep ==
  ASSUME NEW S, S \subseteq Index, NEW s \in S, NEW t \in Index, s < t
  PROVE  Below(S, s) + 1 <= Below(S, t)
<1> DEFINE L == {u \in S : u < s}
           M == {u \in S : u < t}
<1>1. IsFiniteSet(L) /\ IsFiniteSet(M) /\ s \notin L
  <2>1. IsFiniteSet(S)
    BY IndexFinite, FS_Subset
  <2>2. s \in Int
    BY DEF Index
  <2> QED
    BY <2>1, <2>2, FS_Subset
<1>2. L \cup {s} \subseteq M
  <2>1. S \subseteq Int /\ t \in Int
    BY IndexInt
  <2>2. \A u \in S : u < s => u < t
    BY <2>1
  <2> QED
    BY <2>2
<1>3. Cardinality(L \cup {s}) = Cardinality(L) + 1
  BY <1>1, FS_AddElement
<1>4. Cardinality(L \cup {s}) <= Cardinality(M)
  BY <1>1, <1>2, FS_Subset
<1> QED
  BY <1>3, <1>4 DEF Below

LEMMA BelowAll ==
  ASSUME NEW S, S \subseteq Index, NEW s \in S
  PROVE  Below(S, s) + 1 <= Cardinality(S)
<1> DEFINE L == {u \in S : u < s}
<1>1. IsFiniteSet(S) /\ IsFiniteSet(L) /\ s \notin L
  <2>1. IsFiniteSet(S)
    BY IndexFinite, FS_Subset
  <2>2. s \in Int
    BY DEF Index
  <2> QED
    BY <2>1, <2>2, FS_Subset
<1>2. L \cup {s} \subseteq S
  OBVIOUS
<1>3. Cardinality(L \cup {s}) = Cardinality(L) + 1
  BY <1>1, FS_AddElement
<1>4. Cardinality(L \cup {s}) <= Cardinality(S)
  BY <1>1, <1>2, FS_Subset
<1> QED
  BY <1>3, <1>4 DEF Below

LEMMA BelowInjective ==
  ASSUME NEW S, S \subseteq Index, NEW s \in S, NEW t \in S,
         Below(S, s) = Below(S, t)
  PROVE  s = t
<1>1. s \in Int /\ t \in Int /\ s \in Index /\ t \in Index
  BY DEF Index
<1>2. Below(S, s) \in Nat /\ Below(S, t) \in Nat
  BY Counted
<1>3. CASE s < t
  <2>1. Below(S, s) + 1 <= Below(S, t)
    BY <1>1, <1>3, BelowStep
  <2> QED
    BY <1>2, <2>1
<1>4. CASE t < s
  <2>1. Below(S, t) + 1 <= Below(S, s)
    BY <1>1, <1>4, BelowStep
  <2> QED
    BY <1>2, <2>1
<1> QED
  BY <1>1, <1>3, <1>4

-----------------------------------------------------------------------------
(* The allocation of nsx_pmu_init *)

LEMMA SlotWidths ==
  ASSUME NEW w \in Requests
  PROVE  /\ EnabledSlots(w) = Enabled(w, 32) \cup Enabled(w, 16)
         /\ EnabledSlots(w) \subseteq Index
         /\ Enabled(w, 32) \cap Enabled(w, 16) = {}
         /\ \A s \in Enabled(w, 32) : w[s].counterSize = 32
         /\ \A s \in Enabled(w, 16) : w[s].counterSize = 16
         /\ \A s \in Index : w[s] \in Event
<1>1. \A s \in Index : w[s].counterSize \in {16, 32}
  BY DEF Requests, Event
<1> QED
  BY <1>1 DEF Requests, EnabledSlots, Enabled, Event

(* A 32-bit slot starts at an even counter and takes the odd one above it.  *)
LEMMA PairPlace ==
  ASSUME NEW w \in Requests, TotalCounters(w) <= MaxCounters,
         NEW s \in Enabled(w, 32)
  PROVE  /\ FirstCounter(w, s) = 2 * Below(Enabled(w, 32), s)
         /\ FirstCounter(w, s) \in Nat
         /\ FirstCounter(w, s) + 1 < 2 * Cardinality(Enabled(w, 32))
         /\ FirstCounter(w, s) \in Index
         /\ FirstCounter(w, s) + 1 \in Index
<1> DEFINE b == Below(Enabled(w, 32), s)
           k == Cardinality(Enabled(w, 32))
           l == Cardinality(Enabled(w, 16))
<1>1. Enabled(w, 32) \subseteq Index /\ Enabled(w, 16) \subseteq Index
  BY DEF Enabled
<1>2. b \in Nat /\ k \in Nat /\ l \in Nat
  BY <1>1, Counted
<1>3. b + 1 <= k
  BY <1>1, BelowAll
<1>4. FirstCounter(w, s) = 2 * b
  BY SlotWidths DEF FirstCounter
<1>5. 2 * k + l <= MaxCounters
  BY DEF TotalCounters
<1> HIDE DEF b, k, l
<1>6. 2 * b \in Nat /\ 2 * b + 1 < 2 * k /\ 2 * b + 1 < MaxCounters
  BY <1>2, <1>3, <1>5, MaxNat
<1>7. 2 * b \in Index /\ 2 * b + 1 \in Index
  BY <1>2, <1>6, MaxNat DEF Index
<1> QED
  BY <1>4, <1>6, <1>7 DEF b, k

(* A 16-bit slot takes one counter above all the pairs. *)
LEMMA SinglePlace ==
  ASSUME NEW w \in Requests, TotalCounters(w) <= MaxCounters,
         NEW s \in Enabled(w, 16)
  PROVE  /\ FirstCounter(w, s) =
              2 * Cardinality(Enabled(w, 32)) + Below(Enabled(w, 16), s)
         /\ FirstCounter(w, s) >= 2 * Cardinality(Enabled(w, 32))
         /\ FirstCounter(w, s) \in Index
<1> DEFINE b == Below(Enabled(w, 16), s)
           k == Cardinality(Enabled(w, 32))
           l == Cardinality(Enabled(w, 16))
<1>1. Enabled(w, 32) \subseteq Index /\ Enabled(w, 16) \subseteq Index
  BY DEF Enabled
<1>2. b \in Nat /\ k \in Nat /\ l \in Nat
  BY <1>1, Counted
<1>3. b + 1 <= l
  BY <1>1, BelowAll
<1>4. FirstCounter(w, s) = 2 * k + b
  <2>1. w[s].counterSize # 32
    BY SlotWidths
  <2> QED
    BY <2>1 DEF FirstCounter
<1>5. 2 * k + l <= MaxCounters
  BY DEF TotalCounters
<1> HIDE DEF b, k, l
<1>6. 2 * k + b \in Nat /\ 2 * k + b >= 2 * k /\ 2 * k + b < MaxCounters
  BY <1>2, <1>3, <1>5, MaxNat
<1>7. 2 * k + b \in Index
  BY <1>6, IndexInt
<1> QED
  BY <1>4, <1>6, <1>7 DEF b, k

(* Every counter of an allocation belongs to one slot. *)
LEMMA Places ==
  ASSUME NEW w \in Requests, TotalCounters(w) <= MaxCounters
  PROVE  /\ \A s \in EnabledSlots(w) : FirstCounter(w, s) \in Index
         /\ \A s \in Enabled(w, 32) :
              /\ FirstCounter(w, s) + 1 \in Index
              /\ FirstCounter(w, s) % 2 = 0
              /\ (FirstCounter(w, s) + 1) % 2 = 1
         /\ \A s, t \in EnabledSlots(w) :
              FirstCounter(w, s) = FirstCounter(w, t) => s = t
         /\ \A s \in Enabled(w, 32), t \in EnabledSlots(w) :
              FirstCounter(w, s) + 1 # FirstCounter(w, t)
<1> DEFINE P == Enabled(w, 32)
           Q == Enabled(w, 16)
           k == Cardinality(P)
<1>1. /\ EnabledSlots(w) = P \cup Q
      /\ P \subseteq Index /\ Q \subseteq Index
  BY SlotWidths DEF Enabled
<1>2. \A s \in P : Below(P, s) \in Nat
  BY <1>1, Counted
<1>3. \A s \in Q : Below(Q, s) \in Nat
  BY <1>1, Counted
<1>4. k \in Nat
  BY <1>1, Counted
<1>5. \A s \in P : /\ FirstCounter(w, s) = 2 * Below(P, s)
                   /\ FirstCounter(w, s) \in Nat
                   /\ FirstCounter(w, s) + 1 < 2 * k
                   /\ FirstCounter(w, s) \in Index
                   /\ FirstCounter(w, s) + 1 \in Index
  BY PairPlace
<1>6. \A s \in Q : /\ FirstCounter(w, s) = 2 * k + Below(Q, s)
                   /\ FirstCounter(w, s) >= 2 * k
                   /\ FirstCounter(w, s) \in Index
  BY SinglePlace
<1>7. \A s, t \in P : Below(P, s) = Below(P, t) => s = t
  BY <1>1, BelowInjective
<1>8. \A s, t \in Q : Below(Q, s) = Below(Q, t) => s = t
  BY <1>1, BelowInjective
<1> HIDE DEF P, Q, k
<1>9. \A s \in EnabledSlots(w) : FirstCounter(w, s) \in Index
  BY <1>1, <1>5, <1>6
<1>10. ASSUME NEW s \in P
       PROVE  /\ FirstCounter(w, s) % 2 = 0
              /\ (FirstCounter(w, s) + 1) % 2 = 1
  <2>1. PICK b \in Nat : FirstCounter(w, s) = 2 * b
    BY <1>2, <1>5
  <2>2. (2 * b) % 2 = 0 /\ (2 * b + 1) % 2 = 1
    OBVIOUS
  <2> QED
    BY <2>1, <2>2
<1>11. ASSUME NEW s \in P, NEW t \in P, FirstCounter(w, s) = FirstCounter(w, t)
       PROVE  s = t
  <2>1. 2 * Below(P, s) = 2 * Below(P, t)
    BY <1>5, <1>11
  <2>2. Below(P, s) = Below(P, t)
    BY <1>2, <2>1
  <2> QED
    BY <1>7, <2>2
<1>12. ASSUME NEW s \in Q, NEW t \in Q, FirstCounter(w, s) = FirstCounter(w, t)
       PROVE  s = t
  <2>1. 2 * k + Below(Q, s) = 2 * k + Below(Q, t)
    BY <1>6, <1>12
  <2>2. Below(Q, s) = Below(Q, t)
    BY <1>3, <1>4, <2>1
  <2> QED
    BY <1>8, <2>2
<1>13. ASSUME NEW s \in P, NEW t \in Q
       PROVE  /\ FirstCounter(w, s) # FirstCounter(w, t)
              /\ FirstCounter(w, s) + 1 # FirstCounter(w, t)
  <2>1. /\ FirstCounter(w, s) \in Nat
        /\ FirstCounter(w, s) + 1 < 2 * k
        /\ FirstCounter(w, t) \in Nat
        /\ FirstCounter(w, t) >= 2 * k
    BY <1>5, <1>6, IndexInt
  <2> QED
    BY <1>4, <2>1
<1>14. ASSUME NEW s \in P, NEW t \in P
       PROVE  FirstCounter(w, s) + 1 # FirstCounter(w, t)
  <2>1. /\ FirstCounter(w, s) = 2 * Below(P, s) /\ Below(P, s) \in Nat
        /\ FirstCounter(w, t) = 2 * Below(P, t) /\ Below(P, t) \in Nat
    BY <1>2, <1>5
  <2> QED
    BY <2>1
<1>15. \A s, t \in EnabledSlots(w) :
         FirstCounter(w, s) = FirstCounter(w, t) => s = t
  BY <1>1, <1>11, <1>12, <1>13
<1>16. \A s \in P, t \in EnabledSlots(w) :
         FirstCounter(w, s) + 1 # FirstCounter(w, t)
  BY <1>1, <1>13, <1>14
<1>17. \A s \in P : /\ FirstCounter(w, s) + 1 \in Index
                    /\ FirstCounter(w, s) % 2 = 0
                    /\ (FirstCounter(w, s) + 1) % 2 = 1
  BY <1>5, <1>10
<1> QED
  BY <1>9, <1>15, <1>16, <1>17 DEF P

(* The mask of w: what ARM_PMU_Set_EVTYPER is given, counter by counter. *)
LEMMA Types ==
  ASSUME NEW w \in Requests, TotalCounters(w) <= MaxCounters,
         \A s \in EnabledSlots(w) : Listed(w[s].eventId)
  PROVE  /\ EventTypes(w) \in [Index -> MapEvent \cup {Chain, Unused}]
         /\ \A s \in EnabledSlots(w) :
              EventTypes(w)[FirstCounter(w, s)] = w[s].eventId
         /\ \A s \in Enabled(w, 32) :
              EventTypes(w)[FirstCounter(w, s) + 1] = Chain
         /\ \A i \in Index : i \in CounterMask(w) =>
              \/ \E s \in EnabledSlots(w) : FirstCounter(w, s) = i
              \/ \E s \in Enabled(w, 32) : FirstCounter(w, s) + 1 = i
         /\ \A s \in EnabledSlots(w) : FirstCounter(w, s) \in CounterMask(w)
         /\ \A s \in Enabled(w, 32) : FirstCounter(w, s) + 1 \in CounterMask(w)
         /\ CounterMask(w) \subseteq 0 .. MaxCounters
         /\ Cycles \in CounterMask(w)
<1>1. /\ \A s \in EnabledSlots(w) : FirstCounter(w, s) \in Index
      /\ \A s \in Enabled(w, 32) : FirstCounter(w, s) + 1 \in Index
      /\ \A s, t \in EnabledSlots(w) :
           FirstCounter(w, s) = FirstCounter(w, t) => s = t
      /\ \A s \in Enabled(w, 32), t \in EnabledSlots(w) :
           FirstCounter(w, s) + 1 # FirstCounter(w, t)
  BY Places
<1>2. \A s \in EnabledSlots(w) : w[s].eventId \in MapEvent
  BY DEF Listed
<1>3. Chain # Unused /\ Chain \notin MapEvent /\ Unused \notin MapEvent
  BY DriverAssumption
<1>4. ASSUME NEW i \in Index
      PROVE  EventTypes(w)[i] \in MapEvent \cup {Chain, Unused}
  BY <1>2 DEF EventTypes
<1>5. EventTypes(w) \in [Index -> MapEvent \cup {Chain, Unused}]
  BY <1>4 DEF EventTypes
<1>6. ASSUME NEW s \in EnabledSlots(w)
      PROVE  EventTypes(w)[FirstCounter(w, s)] = w[s].eventId
  <2>1. (CHOOSE t \in EnabledSlots(w) :
           FirstCounter(w, t) = FirstCounter(w, s)) = s
    BY <1>1
  <2> QED
    BY <1>1, <2>1 DEF EventTypes
<1>7. ASSUME NEW s \in Enabled(w, 32)
      PROVE  EventTypes(w)[FirstCounter(w, s) + 1] = Chain
  <2>1. ~ \E t \in EnabledSlots(w) : FirstCounter(w, t) = FirstCounter(w, s) + 1
    BY <1>1
  <2>2. \E t \in Enabled(w, 32) : FirstCounter(w, t) + 1 = FirstCounter(w, s) + 1
    OBVIOUS
  <2> QED
    BY <1>1, <2>1, <2>2 DEF EventTypes
<1>8. \A i \in Index : i # Cycles /\ i \in 0 .. MaxCounters
  BY IndexInt, MaxNat DEF Cycles
<1>9. Cycles \in 0 .. MaxCounters
  BY MaxNat DEF Cycles
<1>10. ASSUME NEW i \in Index, i \in CounterMask(w)
       PROVE  \/ \E s \in EnabledSlots(w) : FirstCounter(w, s) = i
              \/ \E s \in Enabled(w, 32) : FirstCounter(w, s) + 1 = i
  <2>1. EventTypes(w)[i] # Unused
    BY <1>8, <1>10 DEF CounterMask
  <2> QED
    BY <2>1 DEF EventTypes
<1>11. \A s \in EnabledSlots(w) : FirstCounter(w, s) \in CounterMask(w)
  BY <1>1, <1>2, <1>3, <1>6 DEF CounterMask
<1>12. \A s \in Enabled(w, 32) : FirstCounter(w, s) + 1 \in CounterMask(w)
  BY <1>1, <1>3, <1>7 DEF CounterMask
<1>13. CounterMask(w) \subseteq 0 .. MaxCounters /\ Cycles \in CounterMask(w)
  BY <1>8, <1>9 DEF CounterMask
<1> QED
  BY <1>5, <1>6, <1>7, <1>10, <1>11, <1>12, <1>13

(* What nsx_pmu_config_index tells the reader. *)
LEMMA Indexed ==
  ASSUME NEW w \in Requests, TotalCounters(w) <= MaxCounters,
         config_index \in [Index -> Index]
  PROVE  /\ ConfigIndex(w) \in [Index -> Index]
         /\ \A s \in EnabledSlots(w) : ConfigIndex(w)[FirstCounter(w, s)] = s
<1>1. /\ \A s \in EnabledSlots(w) : FirstCounter(w, s) \in Index
      /\ \A s, t \in EnabledSlots(w) :
           FirstCounter(w, s) = FirstCounter(w, t) => s = t
  BY Places
<1>2. EnabledSlots(w) \subseteq Index
  BY DEF EnabledSlots
<1>3. ASSUME NEW i \in Index
      PROVE  ConfigIndex(w)[i] \in Index
  BY <1>2 DEF ConfigIndex
<1>4. ASSUME NEW s \in EnabledSlots(w)
      PROVE  ConfigIndex(w)[FirstCounter(w, s)] = s
  <2>1. (CHOOSE t \in EnabledSlots(w) :
           FirstCounter(w, t) = FirstCounter(w, s)) = s
    BY <1>1
  <2> QED
    BY <1>1, <2>1 DEF ConfigIndex
<1> QED
  BY <1>3, <1>4 DEF ConfigIndex

LEMMA Least ==
  ASSUME NEW T, T # {}, T \subseteq Nat
  PROVE  \E s \in T : \A t \in T : s <= t
<1>1. PICK s \in T : \A t \in T : ~(<<t, s>> \in OpToRel(<, Nat))
  BY WFMin, NatLessThanWellFounded
<1>2. \A t \in T : ~(t < s)
  BY <1>1 DEF OpToRel
<1>3. \A t \in T : s <= t
  BY <1>2
<1> QED
  BY <1>3

-----------------------------------------------------------------------------
(* Type correctness *)

(* An entry of cfg->counter[]. *)
Entry == [mapIndex : MapEvent, counterValue : 0 .. Radix * Radix - 1]

LEMMA EntryWritten ==
  ASSUME NEW f \in [Config -> [Index -> Entry]], NEW c \in Config,
         NEW s \in Index, NEW v \in 0 .. Radix * Radix - 1
  PROVE  [f EXCEPT ![c][s].counterValue = v] \in [Config -> [Index -> Entry]]
<1>1. f[c] \in [Index -> Entry] /\ f[c][s] \in Entry
  OBVIOUS
<1>2. [f[c][s] EXCEPT !.counterValue = v] \in Entry
  BY <1>1 DEF Entry
<1> QED
  BY <1>1, <1>2

LEMMA ValueRange ==
  /\ 0 \in 0 .. Radix * Radix - 1
  /\ 0 \in 0 .. Radix - 1
  /\ 0 .. Radix - 1 \subseteq 0 .. Radix * Radix - 1
  /\ None \notin 0 .. Radix - 1
  /\ None \notin Config
<1>1. Radix * Radix >= Radix
  BY RadixNat, Z3
<1>2. 0 .. Radix - 1 \subseteq 0 .. Radix * Radix - 1
  BY <1>1, RadixNat
<1>3. 0 \in 0 .. Radix - 1
  BY RadixNat
<1>4. None \notin 0 .. Radix - 1 /\ None \notin Config
  BY DriverAssumption
<1> QED
  BY <1>2, <1>3, <1>4

(* The types of the configurations, and of everything else. *)
ConfigType ==
  /\ events \in [Config -> [Index -> Event]]
  /\ counter \in [Config -> [Index -> Entry]]

MachineType ==
  /\ counters \subseteq 0 .. MaxCounters
  /\ config_index \in [Index -> Index]
  /\ initialized \in BOOLEAN
  /\ evtyper \in [Index -> MapEvent \cup {Chain, Unused}]
  /\ evcntr \in [Index -> 0 .. Radix - 1]
  /\ cnten \subseteq 0 .. MaxCounters
  /\ reading \in Config \cup {None}
  /\ pmu_index \in 0 .. MaxCounters + 1
  /\ low \in 0 .. Radix - 1 \cup {None}
  /\ owner \in Config \cup {None}
  /\ meant \in Requests \cup {None}
  /\ author \in Config \cup {None}
  /\ occurred \in [MapEvent -> Nat]

LEMMA TypeParts ==
  /\ TypeOK <=> ConfigType /\ MachineType
  /\ TypeOK' <=> ConfigType' /\ MachineType'
<1>1. TypeOK <=> ConfigType /\ MachineType
  BY DEF TypeOK, ConfigType, MachineType, Entry, Requests
<1>2. TypeOK' <=> ConfigType' /\ MachineType'
  BY DEF TypeOK, ConfigType, MachineType, Entry, Requests
<1> QED
  BY <1>1, <1>2

LEMMA DisabledType ==
  /\ Disabled \in Event
  /\ Cleared \in Entry
  /\ Disabled.enabled = FALSE /\ Disabled.eventId = Entry0
  /\ Cleared.counterValue = 0
  BY DriverAssumption, ValueRange
     DEF Disabled, Cleared, Event, Entry, EventId

LEMMA TypeInit ==
  ASSUME Init
  PROVE  TypeOK
<1>1. ConfigType
  BY DisabledType DEF Init, ConfigType
<1>2. MachineType
  <2>1. 0 \in Index /\ 0 \in 0 .. MaxCounters + 1
    BY MaxNat DEF Index
  <2> QED
    BY <2>1, ValueRange DEF Init, MachineType
<1> QED
  BY <1>1, <1>2, TypeParts

(* Functions that edit a configuration leave the machine alone. *)
LEMMA TypeEdit ==
  ASSUME TypeOK, NEW c \in Config,
         \/ \E s \in EditSlot, e \in EventId, size \in {16, 32} :
              nsx_pmu_event_create(c, s, e, size)
         \/ nsx_pmu_reset_config(c)
         \/ \E p \in DOMAIN Preset \cup {None} : nsx_pmu_apply_preset(c, p)
  PROVE  TypeOK'
<1>1. ConfigType /\ MachineType
  BY TypeParts
<1>2. CASE \E s \in EditSlot, e \in EventId, size \in {16, 32} :
             nsx_pmu_event_create(c, s, e, size)
  <2>1. PICK s \in EditSlot, e \in EventId, size \in {16, 32} :
               nsx_pmu_event_create(c, s, e, size)
    BY <1>2
  <2>2. [enabled |-> TRUE, eventId |-> e, counterSize |-> size] \in Event
    BY DEF Event
  <2>3. s \in Index
    BY DriverAssumption DEF Index
  <2>4. ConfigType'
    BY <1>1, <2>1, <2>2, <2>3 DEF ConfigType, nsx_pmu_event_create
  <2>5. MachineType'
    BY <1>1, <2>1
       DEF MachineType, nsx_pmu_event_create, Disown, driver, hardware, read
  <2> QED
    BY <2>4, <2>5, TypeParts
<1>3. CASE nsx_pmu_reset_config(c)
  <2>1. ConfigType'
    BY <1>1, <1>3, DisabledType DEF ConfigType, nsx_pmu_reset_config
  <2>2. MachineType'
    BY <1>1, <1>3
       DEF MachineType, nsx_pmu_reset_config, Disown, Unname, driver, hardware,
           read
  <2> QED
    BY <2>1, <2>2, TypeParts
<1>4. CASE \E p \in DOMAIN Preset \cup {None} : nsx_pmu_apply_preset(c, p)
  <2>1. PICK p : nsx_pmu_apply_preset(c, p)
    BY <1>4
  <2> DEFINE filled == IF p \in DOMAIN Preset THEN DOMAIN Preset[p] ELSE {}
             slot(s) == IF s \in filled
                          THEN [enabled |-> TRUE, eventId |-> Preset[p][s],
                                counterSize |-> 32]
                          ELSE Disabled
  <2>2. ASSUME NEW s \in Index PROVE slot(s) \in Event
    <3>1. CASE s \in filled
      <4>1. p \in DOMAIN Preset /\ s \in DOMAIN Preset[p]
        BY <3>1
      <4>2. Preset[p][s] \in EventId
        BY <4>1, DriverAssumption DEF EventId, Index
      <4> QED
        BY <3>1, <4>2 DEF Event
    <3>2. CASE s \notin filled
      BY <3>2, DisabledType
    <3> QED
      BY <3>1, <3>2
  <2>3. events' = [events EXCEPT ![c] = [s \in Index |-> slot(s)]]
    BY <2>1 DEF nsx_pmu_apply_preset
  <2> HIDE DEF slot
  <2>4. [s \in Index |-> slot(s)] \in [Index -> Event]
    BY <2>2
  <2>5. counter' = [counter EXCEPT ![c] = [s \in Index |-> Cleared]]
    BY <2>1 DEF nsx_pmu_apply_preset
  <2>6. ConfigType'
    BY <1>1, <2>3, <2>4, <2>5, DisabledType DEF ConfigType
  <2>7. MachineType'
    BY <1>1, <2>1
       DEF MachineType, nsx_pmu_apply_preset, Disown, Unname, driver, hardware,
           read
  <2> QED
    BY <2>6, <2>7, TypeParts
<1> QED
  BY <1>2, <1>3, <1>4

(* nsx_pmu_init clears, and may allocate and program. *)
LEMMA TypeInitialize ==
  ASSUME TypeOK, NEW c \in Config, NEW apiOk, NEW backendOk,
         nsx_pmu_init(c, apiOk, backendOk)
  PROVE  TypeOK'
<1>1. ConfigType /\ MachineType /\ events[c] \in Requests
  BY TypeParts DEF ConfigType, Requests
<1>2. UNCHANGED <<events, reading, pmu_index, low>>
  BY DEF nsx_pmu_init, read
<1>3. CASE InitRefused(c, apiOk)
  BY <1>1, <1>2, <1>3, TypeParts
     DEF InitRefused, ConfigType, MachineType, driver, hardware, history
<1>4. CASE InitUnlisted(c)
  <2> DEFINE unlisted == {s \in EnabledSlots(events[c]) : ~Listed(events[c][s].eventId)}
             first == CHOOSE s \in unlisted : \A t \in unlisted : s <= t
             slot(s) == IF s > first THEN counter[c][s]
                        ELSE [mapIndex |-> IF s < first /\ events[c][s].enabled
                                             THEN events[c][s].eventId
                                             ELSE counter[c][s].mapIndex,
                              counterValue |-> 0]
  <2>1. first \in unlisted /\ \A t \in unlisted : first <= t
    <3>1. unlisted # {} /\ unlisted \subseteq Nat
      BY <1>4, IndexInt DEF InitUnlisted, EnabledSlots
    <3> HIDE DEF unlisted
    <3> QED
      BY <3>1, Least
  <2>2. ASSUME NEW s \in Index PROVE slot(s) \in Entry
    <3>1. counter[c][s] \in Entry
      BY <1>1 DEF ConfigType
    <3>2. CASE s > first
      BY <3>1, <3>2
    <3>3. CASE ~(s > first)
      <4> DEFINE m == IF s < first /\ events[c][s].enabled
                        THEN events[c][s].eventId ELSE counter[c][s].mapIndex
      <4>1. s < first /\ events[c][s].enabled => events[c][s].eventId \in MapEvent
        <5>1. SUFFICES ASSUME s < first, events[c][s].enabled
                       PROVE  s \notin unlisted
          BY DEF Listed, EnabledSlots
        <5>2. first \in Index /\ s \in Index
          BY <2>1 DEF EnabledSlots
        <5>3. first \in Nat /\ s \in Nat
          BY <5>2, IndexInt
        <5> QED
          BY <2>1, <5>1, <5>3
      <4>2. m \in MapEvent
        BY <3>1, <4>1 DEF Entry
      <4>3. slot(s) = [mapIndex |-> m, counterValue |-> 0]
        BY <3>3
      <4> HIDE DEF m, slot
      <4>4. [mapIndex |-> m, counterValue |-> 0] \in Entry
        BY <4>2, ValueRange DEF Entry
      <4> QED
        BY <4>3, <4>4
    <3> QED
      BY <3>2, <3>3
  <2>3. counter' = [counter EXCEPT ![c] = [s \in Index |-> slot(s)]]
    BY <1>1, <1>4 DEF InitUnlisted, ConfigType
  <2>4. /\ counters' = {} /\ Lost
        /\ UNCHANGED <<config_index, initialized, hardware, occurred>>
    BY <1>4 DEF InitUnlisted
  <2> HIDE DEF slot
  <2>5. ConfigType'
    BY <1>1, <1>2, <2>2, <2>3 DEF ConfigType
  <2>6. MachineType'
    BY <1>1, <1>2, <2>4 DEF MachineType, hardware, Lost
  <2> QED
    BY <2>5, <2>6, TypeParts
<1>5. CASE InitProgram(c, backendOk)
  <2> DEFINE slot(s) == [mapIndex |-> IF events[c][s].enabled
                                        THEN events[c][s].eventId
                                        ELSE counter[c][s].mapIndex,
                         counterValue |-> 0]
  <2>1. /\ TotalCounters(events[c]) <= MaxCounters
        /\ \A s \in EnabledSlots(events[c]) : Listed(events[c][s].eventId)
    BY <1>5 DEF InitProgram
  <2>2. ASSUME NEW s \in Index PROVE slot(s) \in Entry
    <3>1. counter[c][s] \in Entry
      BY <1>1 DEF ConfigType
    <3>2. events[c][s].enabled => events[c][s].eventId \in MapEvent
      BY <2>1 DEF EnabledSlots, Listed
    <3> QED
      BY <3>1, <3>2, ValueRange DEF Entry
  <2>3. counter' = [counter EXCEPT ![c] = [s \in Index |-> slot(s)]]
    BY <1>1, <1>5 DEF InitProgram, ConfigType
  <2> HIDE DEF slot
  <2>4. ConfigType'
    BY <1>1, <1>2, <2>2, <2>3 DEF ConfigType
  <2>5. ConfigIndex(events[c]) \in [Index -> Index]
    BY <1>1, <2>1, Indexed DEF MachineType
  <2>6. /\ EventTypes(events[c]) \in [Index -> MapEvent \cup {Chain, Unused}]
        /\ CounterMask(events[c]) \subseteq 0 .. MaxCounters
    BY <1>1, <2>1, Types
  <2>7. config_index' = ConfigIndex(events[c]) /\ counters' = CounterMask(events[c])
    BY <1>5 DEF InitProgram
  <2>8. CASE UNCHANGED <<hardware, initialized, occurred>> /\ Lost
    BY <1>1, <1>2, <2>5, <2>6, <2>7, <2>8, TypeParts, <2>4
       DEF MachineType, hardware, Lost
  <2>9. CASE /\ evtyper' = EventTypes(events[c])
             /\ evcntr' = [i \in Index |-> 0]
             /\ cnten' = CounterMask(events[c])
             /\ initialized' = TRUE
             /\ owner' = c /\ meant' = events[c] /\ author' = c
             /\ occurred' = [e \in MapEvent |-> 0]
    BY <1>1, <1>2, <2>5, <2>6, <2>7, <2>9, TypeParts, <2>4, ValueRange
       DEF MachineType
  <2> QED
    BY <1>5, <2>8, <2>9 DEF InitProgram
<1> QED
  BY <1>3, <1>4, <1>5 DEF nsx_pmu_init

LEMMA ResetType ==
  ASSUME ResetCounters
  PROVE  /\ evcntr' \in [Index -> 0 .. Radix - 1]
         /\ occurred' \in [MapEvent -> Nat]
  BY ValueRange DEF ResetCounters

(* The loop stays within one counter of the last, and stores what fits.  *)
LEMMA TypeRead ==
  ASSUME TypeOK, ReadInv, GetStep \/ \E c \in Config : GetBegin(c)
  PROVE  TypeOK'
<1>1. ConfigType /\ MachineType
  BY TypeParts
<1>2. /\ \A i \in Index : i + 1 \in 0 .. MaxCounters + 1
      /\ \A i \in Index : i + 2 \in 0 .. MaxCounters + 1
      /\ 0 \in 0 .. MaxCounters + 1
      /\ pmu_index < MaxCounters => pmu_index \in Index
  <2>1. pmu_index \in Nat
    BY <1>1, MaxNat DEF MachineType
  <2> QED
    BY <2>1, MaxNat DEF Index
<1>3. CASE \E c \in Config : GetBegin(c)
  <2>1. PICK c \in Config : GetBegin(c)
    BY <1>3
  <2>2. ConfigType'
    BY <1>1, <2>1 DEF ConfigType, GetBegin
  <2>3. cntr_disable(counters) \subseteq 0 .. MaxCounters
    BY <1>1 DEF cntr_disable, MachineType
  <2>4. MachineType'
    BY <1>1, <1>2, <2>1, <2>3 DEF MachineType, GetBegin, driver, history
  <2> QED
    BY <2>2, <2>4, TypeParts
<1>4. CASE GetSkip
  <2>1. ConfigType'
    BY <1>1, <1>4 DEF ConfigType, GetSkip
  <2>2. pmu_index' \in 0 .. MaxCounters + 1
    BY <1>2, <1>4 DEF GetSkip
  <2>3. MachineType'
    BY <1>1, <1>4, <2>2 DEF MachineType, GetSkip, driver, hardware, history
  <2> QED
    BY <2>1, <2>3, TypeParts
<1>5. CASE GetCounter
  <2>1. /\ pmu_index \in Index /\ reading \in Config /\ AtSlot \in Index
        /\ evcntr[pmu_index] \in 0 .. Radix - 1
        /\ evcntr[pmu_index] \in 0 .. Radix * Radix - 1
    BY <1>1, <1>2, <1>5, ValueRange DEF GetCounter, MachineType, AtSlot
  <2>2. CASE UNCHANGED <<counter, pmu_index>> /\ low' = evcntr[pmu_index]
    <3>1. ConfigType'
      BY <1>1, <1>5, <2>2 DEF ConfigType, GetCounter
    <3>2. MachineType'
      BY <1>1, <1>5, <2>1, <2>2 DEF MachineType, GetCounter, driver, hardware, history
    <3> QED
      BY <3>1, <3>2, TypeParts
  <2>3. CASE /\ Store(evcntr[pmu_index]) /\ pmu_index' = pmu_index + 1
             /\ UNCHANGED low
    <3>1. counter' \in [Config -> [Index -> Entry]]
      BY <1>1, <2>1, <2>3, EntryWritten DEF Store, ConfigType
    <3>2. ConfigType'
      BY <1>1, <1>5, <3>1 DEF ConfigType, GetCounter
    <3>3. MachineType'
      BY <1>1, <1>2, <1>5, <2>1, <2>3
         DEF MachineType, GetCounter, driver, hardware, history
    <3> QED
      BY <3>2, <3>3, TypeParts
  <2> QED
    BY <1>5, <2>2, <2>3 DEF GetCounter
<1>6. CASE GetChained
  <2>1. /\ pmu_index \in Index /\ reading \in Config /\ AtSlot \in Index
        /\ low \in 0 .. Radix - 1
    BY <1>1, <1>2, <1>6 DEF GetChained, ReadInv, MachineType, AtSlot
  <2>2. PICK chain_value \in ReadEvcntr(pmu_index + 1) :
          Store(Chained(low, chain_value))
    BY <1>6 DEF GetChained
  <2>3. chain_value \in 0 .. Radix - 1
    BY <1>1 DEF ReadEvcntr, MachineType
  <2>4. Chained(low, chain_value) \in 0 .. Radix * Radix - 1
    BY <2>1, <2>3, RadixNat, TwoDigitsRange DEF Chained
  <2>5. counter' \in [Config -> [Index -> Entry]]
    BY <1>1, <2>1, <2>2, <2>4, EntryWritten DEF Store, ConfigType
  <2>6. ConfigType'
    BY <1>1, <1>6, <2>5 DEF ConfigType, GetChained
  <2>7. MachineType'
    BY <1>1, <1>2, <1>6, <2>1 DEF MachineType, GetChained, driver, hardware, history
  <2> QED
    BY <2>6, <2>7, TypeParts
<1>7. CASE GetEnd
  <2>1. ConfigType'
    BY <1>1, <1>7 DEF ConfigType, GetEnd
  <2>2. cntr_enable(counters) \subseteq 0 .. MaxCounters
    BY <1>1 DEF cntr_enable, MachineType
  <2>3. ResetCounters
    BY <1>7 DEF GetEnd
  <2>4. evcntr' \in [Index -> 0 .. Radix - 1] /\ occurred' \in [MapEvent -> Nat]
    BY <2>3, ResetType
  <2>5. MachineType'
    BY <1>1, <1>2, <1>7, <2>2, <2>4 DEF MachineType, GetEnd, driver, history
  <2> QED
    BY <2>1, <2>5, TypeParts
<1> QED
  BY <1>3, <1>4, <1>5, <1>6, <1>7 DEF GetStep

LEMMA TypeOther ==
  ASSUME TypeOK,
         \/ nsx_pmu_reset_counters
         \/ \E e \in MapEvent : Occur(e)
         \/ \E c \in Config : GetRefused(c)
         \/ UNCHANGED vars
  PROVE  TypeOK'
<1>1. ConfigType /\ MachineType
  BY TypeParts
<1>2. CASE nsx_pmu_reset_counters
  <2>1. ResetCounters
    BY <1>2 DEF nsx_pmu_reset_counters
  <2>2. evcntr' \in [Index -> 0 .. Radix - 1] /\ occurred' \in [MapEvent -> Nat]
    BY <2>1, ResetType
  <2> QED
    BY <1>1, <1>2, <2>2, TypeParts
       DEF nsx_pmu_reset_counters, ConfigType, MachineType, driver, read,
           history
<1>3. CASE \E e \in MapEvent : Occur(e)
  <2>1. PICK e \in MapEvent : Occur(e)
    BY <1>3
  <2>2. \A i \in Index : (evcntr[i] + 1) % Radix \in 0 .. Radix - 1
    BY <1>1, RadixNat DEF MachineType
  <2>3. evcntr' \in [Index -> 0 .. Radix - 1]
    BY <1>1, <2>1, <2>2 DEF Occur, MachineType
  <2>4. occurred' \in [MapEvent -> Nat]
    BY <1>1, <2>1 DEF Occur, MachineType
  <2> QED
    BY <1>1, <2>1, <2>3, <2>4, TypeParts
       DEF Occur, ConfigType, MachineType, driver, read, history
<1>4. CASE UNCHANGED vars \/ \E c \in Config : GetRefused(c)
  BY <1>1, <1>4, TypeParts
     DEF GetRefused, vars, driver, hardware, read, history, ConfigType,
         MachineType
<1> QED
  BY <1>2, <1>3, <1>4

LEMMA TypeStep ==
  ASSUME TypeOK, ReadInv, [Next]_vars
  PROVE  TypeOK'
  BY TypeEdit, TypeInitialize, TypeRead, TypeOther DEF Next

-----------------------------------------------------------------------------
(* The invariant is kept *)

LEMMA AllocatedKept ==
  ASSUME NEW w \in Requests, Allocated(w),
         UNCHANGED <<counters, config_index, evtyper>>
  PROVE  Allocated(w)'
  BY DEF Allocated

LEMMA HeldKept ==
  ASSUME NEW w \in Requests, NEW s, Held(w, s), UNCHANGED <<evcntr, occurred>>
  PROVE  Held(w, s)'
  BY DEF Held

LEMMA ProgrammedKept ==
  ASSUME NEW w \in Requests, Programmed(w),
         UNCHANGED <<counters, config_index, hardware, reading, occurred>>
  PROVE  Programmed(w)'
<1>1. Allocated(w)'
  BY AllocatedKept DEF Programmed, hardware
<1>2. \A s \in EnabledSlots(w) : Held(w, s)'
  BY HeldKept DEF Programmed, hardware
<1>3. (cnten = IF reading = None THEN counters ELSE {})'
  BY DEF Programmed, hardware
<1> QED
  BY <1>1, <1>2, <1>3 DEF Programmed

(* After a reset every counter holds the occurrences of its event: none.  *)
LEMMA HeldReset ==
  ASSUME NEW w \in Requests, TotalCounters(w) <= MaxCounters,
         \A s \in EnabledSlots(w) : Listed(w[s].eventId),
         evcntr' = [i \in Index |-> 0], occurred' = [e \in MapEvent |-> 0]
  PROVE  \A s \in EnabledSlots(w) : Held(w, s)'
<1> SUFFICES ASSUME NEW s \in EnabledSlots(w)
             PROVE  Held(w, s)'
  OBVIOUS
<1>1. /\ FirstCounter(w, s) \in Index
      /\ w[s].counterSize = 32 => FirstCounter(w, s) + 1 \in Index
  BY Places DEF EnabledSlots, Enabled
<1>2. occurred'[w[s].eventId] = 0
  BY DEF Listed
<1>3. 0 % Radix = 0 /\ (0 \div Radix) % Radix = 0
  <2>1. (0 * Radix + 0) % Radix = 0 /\ 0 \div Radix = 0
    BY RadixNat
  <2>2. 0 * Radix + 0 = 0
    BY RadixNat
  <2> QED
    BY <2>1, <2>2
<1>4. evcntr'[FirstCounter(w, s)] = 0
  BY <1>1
<1>5. w[s].counterSize = 32 => evcntr'[FirstCounter(w, s) + 1] = 0
  BY <1>1
<1> QED
  BY <1>2, <1>3, <1>4, <1>5 DEF Held

LEMMA NoConfig == None \notin Config
  BY ValueRange

LEMMA NoRequests == None \notin Requests
  BY DriverAssumption DEF Requests

(* Steps that leave the counters alone keep what they were programmed with. *)
LEMMA MeantKept ==
  ASSUME MeantInv,
         UNCHANGED <<meant, counters, config_index, hardware, reading, occurred>>
  PROVE  MeantInv'
<1>1. ASSUME NEW w \in Requests, meant' = w
      PROVE  Programmed(w)'
  BY <1>1, ProgrammedKept DEF MeantInv
<1> QED
  BY <1>1 DEF MeantInv

(* A caller edits a configuration. *)
LEMMA EditStep ==
  ASSUME TypeOK, DriverInv, NEW c \in Config,
         \/ \E s \in EditSlot, e \in EventId, size \in {16, 32} :
              nsx_pmu_event_create(c, s, e, size)
         \/ nsx_pmu_reset_config(c)
         \/ \E p \in DOMAIN Preset \cup {None} : nsx_pmu_apply_preset(c, p)
  PROVE  DriverInv'
<1>1. ConfigType /\ MachineType
  BY TypeParts
<1>2. /\ reading = None /\ Disown(c)
      /\ UNCHANGED <<driver, hardware, read, meant, occurred>>
      /\ (counter' = counter /\ author' = author) \/ Unname(c)
      /\ \A d \in Config \ {c} : /\ events'[d] = events[d]
                                /\ counter'[d] = counter[d]
  BY <1>1 DEF nsx_pmu_event_create, nsx_pmu_reset_config, nsx_pmu_apply_preset,
              ConfigType
<1>3. ReadInv' /\ WalkInv'
  BY <1>2, NoConfig DEF DriverInv, ReadInv, WalkInv, read
<1>4. MeantInv'
  BY <1>2, MeantKept DEF DriverInv, driver, read
<1>5. AuthorInv'
  <2>1. ASSUME NEW w \in Requests, NEW d \in Config, meant' = w, author' = d
        PROVE  Named(w, d)'
    <3>1. meant = w /\ author = d /\ counter'[d] = counter[d]
      BY <1>2, <2>1, NoConfig DEF Unname
    <3> QED
      BY <3>1 DEF DriverInv, AuthorInv, Named
  <2> QED
    BY <2>1 DEF AuthorInv
<1>6. OwnerInv'
  <2>1. ASSUME NEW d \in Config, owner' = d
        PROVE  meant' = events'[d] /\ author' = d /\ Vacant(events[d], d)'
    <3>1. owner = d /\ d # c
      BY <1>2, <2>1, NoConfig DEF Disown
    <3>2. /\ meant = events[d] /\ author = d /\ Vacant(events[d], d)
          /\ events'[d] = events[d] /\ counter'[d] = counter[d]
      BY <1>2, <3>1 DEF DriverInv, OwnerInv
    <3> QED
      BY <1>2, <3>1, <3>2 DEF Unname, Vacant
  <2> QED
    BY <2>1 DEF OwnerInv
<1>7. DisabledInv'
  <2>1. \A s \in Index : ~events'[c][s].enabled => events'[c][s].eventId \in MapEvent
    <3>1. CASE \E s \in EditSlot, e \in EventId, size \in {16, 32} :
                 nsx_pmu_event_create(c, s, e, size)
      <4>1. PICK s \in EditSlot, e \in EventId, size \in {16, 32} :
                   nsx_pmu_event_create(c, s, e, size)
        BY <3>1
      <4>2. ASSUME NEW t \in Index
            PROVE  events'[c][t].enabled \/ events'[c][t] = events[c][t]
        BY <1>1, <4>1 DEF nsx_pmu_event_create, ConfigType
      <4> QED
        BY <4>2 DEF DriverInv, DisabledInv
    <3>2. CASE \/ nsx_pmu_reset_config(c)
               \/ \E p \in DOMAIN Preset \cup {None} : nsx_pmu_apply_preset(c, p)
      <4>1. \A s \in Index : events'[c][s].enabled \/ events'[c][s] = Disabled
        BY <1>1, <3>2 DEF nsx_pmu_reset_config, nsx_pmu_apply_preset, ConfigType
      <4>2. Disabled.eventId \in MapEvent
        BY DisabledType, DriverAssumption
      <4> QED
        BY <4>1, <4>2
    <3> QED
      BY <3>1, <3>2
  <2> QED
    BY <1>2, <2>1 DEF DriverInv, DisabledInv
<1> QED
  BY <1>3, <1>4, <1>5, <1>6, <1>7 DEF DriverInv

(* nsx_pmu_init: whatever it touched before it failed, nobody knows then    *)
(* what the PMU counts; when it succeeds the PMU is programmed for c.       *)
LEMMA InitStep ==
  ASSUME TypeOK, DriverInv, NEW c \in Config, NEW apiOk, NEW backendOk,
         nsx_pmu_init(c, apiOk, backendOk)
  PROVE  DriverInv'
<1>1. ConfigType /\ MachineType /\ events[c] \in Requests
  BY TypeParts DEF ConfigType, Requests
<1>2. reading = None /\ UNCHANGED <<events, reading, pmu_index, low>>
  BY DEF nsx_pmu_init, read
<1>3. ReadInv' /\ WalkInv' /\ DisabledInv'
  BY <1>2, NoConfig DEF DriverInv, ReadInv, WalkInv, DisabledInv
<1>4. CASE InitRefused(c, apiOk)
  <2>1. UNCHANGED <<counter, driver, hardware, history, occurred>>
    BY <1>4 DEF InitRefused
  <2>2. MeantInv'
    BY <1>2, <2>1, MeantKept DEF DriverInv, driver, history
  <2>3. AuthorInv' /\ OwnerInv'
    BY <1>2, <2>1 DEF DriverInv, AuthorInv, OwnerInv, Named, Vacant, history
  <2> QED
    BY <1>3, <2>2, <2>3 DEF DriverInv
<1>5. CASE Lost
  BY <1>3, <1>5, NoConfig, NoRequests
     DEF DriverInv, MeantInv, AuthorInv, OwnerInv, Lost
<1>6. CASE InitProgram(c, backendOk) /\ owner' = c
  <2> DEFINE w == events[c]
  <2>1. /\ TotalCounters(w) <= MaxCounters
        /\ \A s \in EnabledSlots(w) : Listed(w[s].eventId)
        /\ config_index' = ConfigIndex(w) /\ counters' = CounterMask(w)
        /\ counter' = [counter EXCEPT ![c] = [s \in Index |->
             [mapIndex |-> IF w[s].enabled THEN w[s].eventId
                                           ELSE @[s].mapIndex,
              counterValue |-> 0]]]
    BY <1>6 DEF InitProgram
  <2>2. /\ evtyper' = EventTypes(w)
        /\ evcntr' = [i \in Index |-> 0]
        /\ cnten' = CounterMask(w)
        /\ owner' = c /\ meant' = w /\ author' = c
        /\ occurred' = [e \in MapEvent |-> 0]
    BY <1>6, NoConfig DEF InitProgram, Lost
  <2>3. ASSUME NEW s \in Index
        PROVE  /\ w[s].enabled => counter'[c][s].mapIndex = w[s].eventId
               /\ counter'[c][s].counterValue = 0
    <3>1. counter'[c][s] =
            [mapIndex |-> IF w[s].enabled THEN w[s].eventId
                                          ELSE counter[c][s].mapIndex,
             counterValue |-> 0]
      BY <1>1, <2>1 DEF ConfigType
    <3> QED
      BY <3>1
  <2>4. ASSUME NEW v \in Requests, meant' = v
        PROVE  Programmed(v)' /\ Named(v, c)' /\ Vacant(v, c)'
    <3>1. v = w
      BY <2>2, <2>4
    <3>2. Allocated(v)'
      <4>1. \A s \in EnabledSlots(v) : ConfigIndex(v)[FirstCounter(v, s)] = s
        BY <1>1, <2>1, <3>1, Indexed DEF MachineType
      <4>2. TotalCounters(v) <= MaxCounters
        BY ONLY <2>1, <3>1
      <4>3. \A s \in EnabledSlots(v) : Listed(v[s].eventId)
        BY ONLY <2>1, <3>1
      <4>4. /\ evtyper' = EventTypes(v) /\ counters' = CounterMask(v)
            /\ config_index' = ConfigIndex(v)
        BY ONLY <2>1, <2>2, <3>1
      <4> QED
        BY <4>1, <4>2, <4>3, <4>4 DEF Allocated
    <3>3. \A s \in EnabledSlots(v) : Held(v, s)'
      <4>1. TotalCounters(v) <= MaxCounters
        BY ONLY <2>1, <3>1
      <4>2. \A s \in EnabledSlots(v) : Listed(v[s].eventId)
        BY ONLY <2>1, <3>1
      <4> QED
        BY <2>2, <4>1, <4>2, HeldReset
    <3>4. (cnten = IF reading = None THEN counters ELSE {})'
      BY <1>2, <2>1, <2>2
    <3>5. Named(v, c)' /\ Vacant(v, c)'
      BY <2>3, <3>1 DEF Named, Vacant, EnabledSlots
    <3> QED
      BY <3>2, <3>3, <3>4, <3>5 DEF Programmed
  <2>5. MeantInv' /\ AuthorInv'
    BY <2>2, <2>4 DEF MeantInv, AuthorInv
  <2>6. OwnerInv'
    <3>1. meant' = events'[c] /\ author' = c /\ Vacant(events[c], c)'
      BY <1>1, <1>2, <2>2, <2>3 DEF Vacant, EnabledSlots
    <3> QED
      BY <2>2, <3>1 DEF OwnerInv
  <2> QED
    BY <1>3, <2>5, <2>6 DEF DriverInv
<1> QED
  BY <1>4, <1>5, <1>6 DEF nsx_pmu_init, InitUnlisted, InitProgram

(* nsx_pmu_reset_counters, by itself or at the end of a read. *)
LEMMA MeantReset ==
  ASSUME TypeOK, MeantInv, ResetCounters,
         UNCHANGED <<driver, evtyper, meant>>, reading' = None,
         cnten' = IF reading = None THEN cnten ELSE cnten \cup counters
  PROVE  MeantInv'
<1> SUFFICES ASSUME NEW w \in Requests, meant' = w
             PROVE  Programmed(w)'
  BY DEF MeantInv
<1>1. Programmed(w)
  BY DEF MeantInv
<1>2. Allocated(w)'
  BY <1>1, AllocatedKept DEF Programmed, driver
<1>3. \A s \in EnabledSlots(w) : Held(w, s)'
  BY <1>1, HeldReset DEF ResetCounters, Programmed, Allocated
<1>4. (cnten = IF reading = None THEN counters ELSE {})'
  BY <1>1 DEF Programmed, driver
<1> QED
  BY <1>2, <1>3, <1>4 DEF Programmed

(* Nothing is asked of a step that changes no report, no configuration and  *)
(* no history.                                                              *)
LEMMA ReportsKept ==
  ASSUME DriverInv, UNCHANGED <<events, counter, history>>
  PROVE  DisabledInv' /\ AuthorInv' /\ OwnerInv'
  BY DEF DriverInv, DisabledInv, AuthorInv, OwnerInv, Named, Vacant, history

LEMMA ResetStep ==
  ASSUME TypeOK, DriverInv, nsx_pmu_reset_counters
  PROVE  DriverInv'
<1>1. /\ reading = None /\ ResetCounters
      /\ UNCHANGED <<events, counter, driver, evtyper, cnten, read, history>>
  BY DEF nsx_pmu_reset_counters
<1>2. ReadInv' /\ WalkInv'
  BY <1>1, NoConfig DEF DriverInv, ReadInv, WalkInv, read
<1>3. MeantInv'
  BY <1>1, MeantReset DEF DriverInv, read, history
<1> QED
  BY <1>1, <1>2, <1>3, ReportsKept DEF DriverInv

LEMMA EndStep ==
  ASSUME TypeOK, DriverInv, GetEnd
  PROVE  DriverInv'
<1>1. /\ reading # None /\ ResetCounters /\ low = None
      /\ cnten' = cnten \cup counters /\ reading' = None
      /\ UNCHANGED <<events, counter, driver, evtyper, low, history>>
  BY DEF GetEnd, cntr_enable
<1>2. ReadInv' /\ WalkInv'
  BY <1>1, NoConfig DEF DriverInv, ReadInv, WalkInv
<1>3. MeantInv'
  BY <1>1, MeantReset DEF DriverInv, history
<1> QED
  BY <1>1, <1>2, <1>3, ReportsKept DEF DriverInv

(* The counters are stopped, and the loop stands before them. *)
LEMMA BeginStep ==
  ASSUME TypeOK, DriverInv, NEW c \in Config, GetBegin(c)
  PROVE  DriverInv'
<1>1. /\ reading = None /\ reading' = c /\ pmu_index' = 0
      /\ cnten' = cnten \ counters
      /\ UNCHANGED <<events, counter, driver, evtyper, evcntr, low, history,
                     occurred>>
  BY DEF GetBegin, cntr_disable
<1>2. low = None /\ c # None
  BY <1>1, NoConfig DEF DriverInv, ReadInv
<1>3. ReadInv'
  BY <1>1, <1>2 DEF ReadInv
<1>4. ASSUME NEW w \in Requests, meant' = w
      PROVE  Programmed(w)'
  <2>1. Programmed(w)
    BY <1>1, <1>4 DEF DriverInv, MeantInv, history
  <2>2. Allocated(w)'
    BY <1>1, <2>1, AllocatedKept DEF Programmed, driver
  <2>3. \A s \in EnabledSlots(w) : Held(w, s)'
    BY <1>1, <2>1, HeldKept DEF Programmed
  <2>4. (cnten = IF reading = None THEN counters ELSE {})'
    BY <1>1, <1>2, <2>1 DEF Programmed
  <2> QED
    BY <2>2, <2>3, <2>4 DEF Programmed
<1>5. ASSUME NEW w \in Requests, NEW d \in Config, meant' = w
      PROVE  Walk(w, d)'
  <2>1. TotalCounters(w) <= MaxCounters
    BY <1>4, <1>5 DEF Programmed, Allocated
  <2>2. \A s \in EnabledSlots(w) : FirstCounter(w, s) \in Nat
    BY <2>1, Places, IndexInt
  <2>3. Enabled(w, 32) \subseteq EnabledSlots(w)
    BY DEF Enabled, EnabledSlots
  <2>4. \A s \in Enabled(w, 32) : pmu_index' # FirstCounter(w, s) + 1
    BY <1>1, <2>2, <2>3
  <2>5. \A s \in EnabledSlots(w) : ~(FirstCounter(w, s) < pmu_index')
    BY <1>1, <2>2
  <2> QED
    BY <1>1, <1>2, <2>4, <2>5 DEF Walk
<1>6. MeantInv' /\ WalkInv'
  BY <1>4, <1>5 DEF MeantInv, WalkInv
<1> QED
  BY <1>1, <1>3, <1>6, ReportsKept DEF DriverInv

-----------------------------------------------------------------------------
(* The loop of nsx_pmu_get_counters *)

(* What the counters of a slot hold is what is to be reported. *)
LEMMA ValueOfSlot ==
  ASSUME TypeOK, NEW w \in Requests, Programmed(w), NEW s \in EnabledSlots(w)
  PROVE  /\ w[s].counterSize # 32 => evcntr[FirstCounter(w, s)] = Count(w, s)
         /\ w[s].counterSize = 32 =>
              Chained(evcntr[FirstCounter(w, s)],
                      evcntr[FirstCounter(w, s) + 1]) = Count(w, s)
<1> DEFINE n == occurred[w[s].eventId]
<1>1. n \in Nat
  BY TypeParts DEF MachineType, Programmed, Allocated, Listed
<1>2. Held(w, s)
  BY DEF Programmed
<1>3. CASE w[s].counterSize # 32
  BY <1>2, <1>3 DEF Held, Count, Modulus
<1>4. CASE w[s].counterSize = 32
  <2>1. /\ evcntr[FirstCounter(w, s)] = n % Radix
        /\ evcntr[FirstCounter(w, s) + 1] = (n \div Radix) % Radix
    BY <1>2, <1>4 DEF Held
  <2>2. Count(w, s) = n % (Radix * Radix)
    BY <1>4 DEF Count, Modulus
  <2> HIDE DEF n
  <2>3. (n % Radix) + ((n \div Radix) % Radix) * Radix = n % (Radix * Radix)
    BY <1>1, RadixNat, TwoDigits
  <2> QED
    BY ONLY <1>4, <2>1, <2>2, <2>3 DEF Chained
<1> QED
  BY <1>3, <1>4

(* A counter the loop reads is the first of the slot that                   *)
(* nsx_pmu_config_index names.                                              *)
LEMMA OwnSlot ==
  ASSUME NEW w \in Requests, NEW c \in Config, Programmed(w), Walk(w, c),
         low = None, pmu_index \in Index, pmu_index \in counters
  PROVE  AtSlot \in EnabledSlots(w) /\ FirstCounter(w, AtSlot) = pmu_index
<1>1. Allocated(w)
  BY DEF Programmed
<1>2. \/ \E s \in EnabledSlots(w) : FirstCounter(w, s) = pmu_index
      \/ \E s \in Enabled(w, 32) : FirstCounter(w, s) + 1 = pmu_index
  <2>1. \A i \in Index : i \in CounterMask(w) =>
          \/ \E s \in EnabledSlots(w) : FirstCounter(w, s) = i
          \/ \E s \in Enabled(w, 32) : FirstCounter(w, s) + 1 = i
    BY <1>1, Types DEF Allocated
  <2> QED
    BY <1>1, <2>1 DEF Allocated
<1>3. PICK s \in EnabledSlots(w) : FirstCounter(w, s) = pmu_index
  BY <1>2 DEF Walk
<1>4. AtSlot = s
  BY <1>1, <1>3 DEF Allocated, AtSlot
<1> QED
  BY <1>3, <1>4

LEMMA OwnPair ==
  ASSUME NEW w \in Requests, NEW c \in Config, Programmed(w), Walk(w, c),
         low # None
  PROVE  /\ AtSlot \in Enabled(w, 32)
         /\ AtSlot \in EnabledSlots(w)
         /\ FirstCounter(w, AtSlot) = pmu_index
         /\ low = evcntr[pmu_index]
<1>1. Allocated(w)
  BY DEF Programmed
<1>2. PICK s \in Enabled(w, 32) : /\ pmu_index = FirstCounter(w, s)
                                 /\ low = evcntr[pmu_index]
  BY DEF Walk
<1>3. s \in EnabledSlots(w)
  BY DEF Enabled, EnabledSlots
<1>4. AtSlot = s
  BY <1>1, <1>2, <1>3 DEF Allocated, AtSlot
<1> QED
  BY <1>2, <1>3, <1>4

(* One value of one report is written. *)
LEMMA StoreEffect ==
  ASSUME ConfigType, reading \in Config, AtSlot \in Index, NEW v, Store(v)
  PROVE  /\ counter'[reading][AtSlot].counterValue = v
         /\ \A d \in Config, s \in Index :
              /\ counter'[d][s].mapIndex = counter[d][s].mapIndex
              /\ d # reading \/ s # AtSlot =>
                   counter'[d][s].counterValue = counter[d][s].counterValue
         /\ \A d \in Config : d # reading => counter'[d] = counter[d]
<1>1. \A d \in Config : counter[d] \in [Index -> Entry]
  BY DEF ConfigType
<1>2. \A d \in Config, s \in Index : counter[d][s] \in Entry
  BY <1>1
<1>3. \A d \in Config : d # reading => counter'[d] = counter[d]
  BY DEF Store, ConfigType
<1>4. counter'[reading] =
        [counter[reading] EXCEPT ![AtSlot].counterValue = v]
  BY DEF Store, ConfigType
<1>5. counter'[reading][AtSlot] = [counter[reading][AtSlot] EXCEPT !.counterValue = v]
  BY <1>1, <1>4
<1>6. \A s \in Index : s # AtSlot => counter'[reading][s] = counter[reading][s]
  BY <1>1, <1>4
<1>7. /\ counter'[reading][AtSlot].counterValue = v
      /\ counter'[reading][AtSlot].mapIndex = counter[reading][AtSlot].mapIndex
  BY <1>2, <1>5 DEF Entry
<1> QED
  BY <1>3, <1>6, <1>7

(* A step of the loop writes no name, and no value of a slot that a         *)
(* configuration which owns the PMU has not enabled.                        *)
LEMMA LoopKeeps ==
  ASSUME DriverInv,
         UNCHANGED <<events, driver, hardware, reading, history, occurred>>,
         \A d \in Config, s \in Index :
           counter'[d][s].mapIndex = counter[d][s].mapIndex,
         \A d \in Config, s \in Index :
           owner = d /\ s \notin EnabledSlots(events[d]) =>
             counter'[d][s].counterValue = counter[d][s].counterValue
  PROVE  DisabledInv' /\ MeantInv' /\ AuthorInv' /\ OwnerInv'
<1>1. UNCHANGED <<meant, owner, author>>
  BY DEF history
<1>2. DisabledInv'
  BY DEF DriverInv, DisabledInv
<1>3. MeantInv'
  BY <1>1, MeantKept DEF DriverInv, driver
<1>4. ASSUME NEW w \in Requests, NEW d \in Config, meant' = w, author' = d
      PROVE  Named(w, d)'
  <2>1. Named(w, d)
    BY <1>1, <1>4 DEF DriverInv, AuthorInv
  <2>2. EnabledSlots(w) \subseteq Index
    BY DEF EnabledSlots
  <2> QED
    BY <2>1, <2>2 DEF Named
<1>5. ASSUME NEW d \in Config, owner' = d
      PROVE  meant' = events'[d] /\ author' = d /\ Vacant(events[d], d)'
  <2>1. meant = events[d] /\ author = d /\ Vacant(events[d], d)
    BY <1>1, <1>5 DEF DriverInv, OwnerInv
  <2> QED
    BY <1>1, <1>5, <2>1 DEF Vacant
<1> QED
  BY <1>2, <1>3, <1>4, <1>5 DEF AuthorInv, OwnerInv

(* What is to be reported does not change while nothing occurs. *)
LEMMA CountKept ==
  ASSUME NEW w \in Requests, NEW s, UNCHANGED occurred
  PROVE  Count(w, s)' = Count(w, s)
  BY DEF Count

(* The same configuration is read with the same widths. *)
LEMMA WidthsKept ==
  ASSUME NEW w \in Requests, NEW c \in Config, UNCHANGED events
  PROVE  SameWidths(c, w)' <=> SameWidths(c, w)
  BY DEF SameWidths

LEMMA SkipStep ==
  ASSUME TypeOK, DriverInv, GetSkip
  PROVE  DriverInv'
<1>1. /\ reading # None /\ low = None /\ pmu_index < MaxCounters
      /\ pmu_index \notin counters /\ pmu_index' = pmu_index + 1
      /\ UNCHANGED <<events, counter, driver, hardware, reading, low, history,
                     occurred>>
  BY DEF GetSkip
<1>2. ReadInv'
  BY <1>1 DEF ReadInv
<1>3. DisabledInv' /\ MeantInv' /\ AuthorInv' /\ OwnerInv'
  BY <1>1, LoopKeeps
<1>4. ASSUME NEW w \in Requests, NEW c \in Config, meant' = w, reading' = c,
             SameWidths(c, w)'
      PROVE  Walk(w, c)'
  <2>1. Programmed(w) /\ Walk(w, c)
    <3>1. meant = w /\ reading = c /\ SameWidths(c, w)
      BY <1>1, <1>4, WidthsKept DEF history
    <3> QED
      BY <3>1 DEF DriverInv, MeantInv, WalkInv
  <2>2. pmu_index \in Nat
    BY TypeParts DEF MachineType
  <2>3. /\ \A s \in EnabledSlots(w) : FirstCounter(w, s) \in Nat
        /\ \A s \in EnabledSlots(w) : FirstCounter(w, s) # pmu_index
    <3>1. \A s \in EnabledSlots(w) : FirstCounter(w, s) \in Index
      BY <2>1, Places DEF Programmed, Allocated
    <3>2. \A s \in EnabledSlots(w) : FirstCounter(w, s) \in counters
      BY <2>1, Types DEF Programmed, Allocated
    <3> QED
      BY <1>1, <3>1, <3>2, IndexInt
  <2>4. Enabled(w, 32) \subseteq EnabledSlots(w)
    BY DEF Enabled, EnabledSlots
  <2>5. \A s \in Enabled(w, 32) : pmu_index + 1 # FirstCounter(w, s) + 1
    BY <2>2, <2>3, <2>4
  <2>6. ASSUME NEW s \in EnabledSlots(w), FirstCounter(w, s) < pmu_index + 1
        PROVE  counter[c][s].counterValue = Count(w, s)
    <3>1. FirstCounter(w, s) < pmu_index
      BY <2>2, <2>3, <2>6
    <3> QED
      BY <2>1, <3>1 DEF Walk
  <2>7. \A s \in EnabledSlots(w) : Count(w, s)' = Count(w, s)
    BY <1>1, CountKept
  <2> QED
    BY <1>1, <2>5, <2>6, <2>7 DEF Walk
<1> QED
  BY <1>2, <1>3, <1>4 DEF DriverInv, WalkInv

(* A slot is read whole, or the lower half of a pair is. *)
LEMMA CounterStep ==
  ASSUME TypeOK, DriverInv, GetCounter
  PROVE  DriverInv'
<1>1. /\ reading # None /\ low = None /\ pmu_index < MaxCounters
      /\ pmu_index \in counters
      /\ UNCHANGED <<events, driver, hardware, reading, history, occurred>>
      /\ \/ /\ events[reading][AtSlot].counterSize = 32
            /\ low' = evcntr[pmu_index]
            /\ UNCHANGED <<counter, pmu_index>>
         \/ /\ events[reading][AtSlot].counterSize # 32
            /\ Store(evcntr[pmu_index])
            /\ pmu_index' = pmu_index + 1
            /\ UNCHANGED low
  BY DEF GetCounter
<1>2. ConfigType /\ MachineType
  BY TypeParts
<1>3. /\ reading \in Config /\ pmu_index \in Index /\ AtSlot \in Index
      /\ pmu_index \in Nat
  <2>1. pmu_index \in Nat
    BY <1>2 DEF MachineType
  <2>2. pmu_index \in Index
    BY <1>1, <2>1, IndexInt
  <2> QED
    BY <1>1, <1>2, <2>1, <2>2 DEF MachineType, AtSlot
<1>4. ReadInv'
  BY <1>1 DEF ReadInv
<1>5. ASSUME NEW w \in Requests, NEW c \in Config, meant = w, reading = c,
             SameWidths(c, w)
      PROVE  /\ Programmed(w) /\ Walk(w, c)
             /\ AtSlot \in EnabledSlots(w) /\ FirstCounter(w, AtSlot) = pmu_index
             /\ w[AtSlot].counterSize = events[c][AtSlot].counterSize
  <2>1. Programmed(w) /\ Walk(w, c)
    BY <1>5 DEF DriverInv, MeantInv, WalkInv
  <2>2. AtSlot \in EnabledSlots(w) /\ FirstCounter(w, AtSlot) = pmu_index
    BY <1>1, <1>3, <2>1, OwnSlot
  <2> QED
    BY <1>5, <2>1, <2>2 DEF SameWidths
<1>6. CASE events[reading][AtSlot].counterSize = 32
  <2>1. low' = evcntr[pmu_index] /\ UNCHANGED <<counter, pmu_index>>
    BY <1>1, <1>6
  <2>2. DisabledInv' /\ MeantInv' /\ AuthorInv' /\ OwnerInv'
    BY <1>1, <2>1, LoopKeeps
  <2>3. ASSUME NEW w \in Requests, NEW c \in Config, meant' = w, reading' = c,
               SameWidths(c, w)'
        PROVE  Walk(w, c)'
    <3>1. meant = w /\ reading = c /\ SameWidths(c, w)
      BY <1>1, <2>3, WidthsKept DEF history
    <3>2. /\ Walk(w, c) /\ AtSlot \in Enabled(w, 32)
          /\ FirstCounter(w, AtSlot) = pmu_index
      BY <1>5, <1>6, <3>1 DEF Enabled, EnabledSlots
    <3>3. \A s \in EnabledSlots(w) : Count(w, s)' = Count(w, s)
      BY <1>1, CountKept
    <3>4. low' # None
      BY <1>2, <1>3, <2>1, ValueRange DEF MachineType
    <3>5. evcntr' = evcntr
      BY <1>1 DEF hardware
    <3> QED
      BY <2>1, <3>2, <3>3, <3>4, <3>5 DEF Walk
  <2> QED
    BY <1>4, <2>2, <2>3 DEF DriverInv, WalkInv
<1>7. CASE events[reading][AtSlot].counterSize # 32
  <2>1. /\ Store(evcntr[pmu_index]) /\ pmu_index' = pmu_index + 1
        /\ UNCHANGED low
    BY <1>1, <1>7
  <2>2. /\ counter'[reading][AtSlot].counterValue = evcntr[pmu_index]
        /\ \A d \in Config, s \in Index :
             /\ counter'[d][s].mapIndex = counter[d][s].mapIndex
             /\ d # reading \/ s # AtSlot =>
                  counter'[d][s].counterValue = counter[d][s].counterValue
    BY <1>2, <1>3, <2>1, StoreEffect
  <2>3. ASSUME NEW d \in Config, owner = d, reading = d
        PROVE  AtSlot \in EnabledSlots(events[d])
    <3>1. events[d] \in Requests /\ meant = events[d]
      BY <1>2, <2>3 DEF ConfigType, Requests, DriverInv, OwnerInv
    <3>2. SameWidths(d, events[d])
      BY DEF SameWidths
    <3> QED
      BY <1>5, <2>3, <3>1, <3>2
  <2>4. DisabledInv' /\ MeantInv' /\ AuthorInv' /\ OwnerInv'
    BY <1>1, <2>2, <2>3, LoopKeeps
  <2>5. ASSUME NEW w \in Requests, NEW c \in Config, meant' = w, reading' = c,
               SameWidths(c, w)'
        PROVE  Walk(w, c)'
    <3>1. meant = w /\ reading = c /\ SameWidths(c, w)
      BY <1>1, <2>5, WidthsKept DEF history
    <3>2. /\ Programmed(w) /\ Walk(w, c)
          /\ AtSlot \in EnabledSlots(w) /\ FirstCounter(w, AtSlot) = pmu_index
          /\ w[AtSlot].counterSize # 32
      BY <1>5, <1>7, <3>1
    <3>3. evcntr[pmu_index] = Count(w, AtSlot)
      BY <3>2, ValueOfSlot
    <3>4. /\ \A s \in EnabledSlots(w) : FirstCounter(w, s) \in Nat
          /\ \A s, t \in EnabledSlots(w) :
               FirstCounter(w, s) = FirstCounter(w, t) => s = t
          /\ Enabled(w, 32) \subseteq EnabledSlots(w)
          /\ EnabledSlots(w) \subseteq Index
      BY <3>2, Places, SlotWidths, IndexInt DEF Programmed, Allocated
    <3>5. AtSlot \notin Enabled(w, 32)
      BY <3>2 DEF Enabled
    <3>6. ASSUME NEW s \in Enabled(w, 32)
          PROVE  pmu_index + 1 # FirstCounter(w, s) + 1
      <4>1. s # AtSlot /\ s \in EnabledSlots(w) /\ FirstCounter(w, s) \in Nat
        BY <3>4, <3>5
      <4>2. FirstCounter(w, s) # pmu_index
        BY <3>2, <3>4, <4>1
      <4> QED
        BY <1>3, <4>1, <4>2
    <3>7. ASSUME NEW s \in EnabledSlots(w), FirstCounter(w, s) < pmu_index + 1
          PROVE  counter'[c][s].counterValue = Count(w, s)
      <4>1. CASE s = AtSlot
        BY <2>2, <3>1, <3>3, <4>1
      <4>2. CASE s # AtSlot
        <5>1. FirstCounter(w, s) # pmu_index
          BY <3>2, <3>4, <4>2
        <5>2. FirstCounter(w, s) < pmu_index
          BY <1>3, <3>4, <3>7, <5>1
        <5> QED
          BY <2>2, <3>2, <3>4, <4>2, <5>2 DEF Walk
      <4> QED
        BY <4>1, <4>2
    <3>8. \A s \in EnabledSlots(w) : Count(w, s)' = Count(w, s)
      BY <1>1, CountKept
    <3> QED
      BY <1>1, <2>1, <3>6, <3>7, <3>8 DEF Walk
  <2> QED
    BY <1>4, <2>4, <2>5 DEF DriverInv, WalkInv
<1> QED
  BY <1>6, <1>7

(* The upper half is read, and the loop leaves the pair. *)
LEMMA ChainedStep ==
  ASSUME TypeOK, DriverInv, GetChained
  PROVE  DriverInv'
<1>1. /\ reading # None /\ low # None /\ low' = None
      /\ pmu_index' = pmu_index + 2
      /\ UNCHANGED <<events, driver, hardware, reading, history, occurred>>
  BY DEF GetChained
<1>2. ConfigType /\ MachineType
  BY TypeParts
<1>3. /\ reading \in Config /\ pmu_index \in Index /\ AtSlot \in Index
      /\ pmu_index \in Nat
  <2>1. pmu_index \in Nat /\ pmu_index < MaxCounters
    BY <1>1, <1>2 DEF MachineType, DriverInv, ReadInv
  <2>2. pmu_index \in Index
    BY <2>1, IndexInt
  <2> QED
    BY <1>1, <1>2, <2>1, <2>2 DEF MachineType, AtSlot
<1>4. ReadInv'
  BY <1>1 DEF ReadInv
<1>5. PICK chain_value \in ReadEvcntr(pmu_index + 1) :
        Store(Chained(low, chain_value))
  BY DEF GetChained
<1> DEFINE v == Chained(low, chain_value)
<1>6. Store(v)
  BY <1>5
<1> HIDE DEF v
<1>7. /\ counter'[reading][AtSlot].counterValue = v
      /\ \A d \in Config, s \in Index :
           /\ counter'[d][s].mapIndex = counter[d][s].mapIndex
           /\ d # reading \/ s # AtSlot =>
                counter'[d][s].counterValue = counter[d][s].counterValue
  BY <1>2, <1>3, <1>6, StoreEffect
<1>8. ASSUME NEW w \in Requests, NEW c \in Config, meant = w, reading = c,
             SameWidths(c, w)
      PROVE  /\ Programmed(w) /\ Walk(w, c)
             /\ AtSlot \in EnabledSlots(w)
             /\ AtSlot \in Enabled(w, 32)
             /\ FirstCounter(w, AtSlot) = pmu_index
             /\ low = evcntr[pmu_index]
  <2>1. Programmed(w) /\ Walk(w, c)
    BY <1>8 DEF DriverInv, MeantInv, WalkInv
  <2> QED
    BY <1>1, <2>1, OwnPair
<1>9. DisabledInv' /\ MeantInv' /\ AuthorInv' /\ OwnerInv'
  <2>1. ASSUME NEW d \in Config, owner = d, reading = d
        PROVE  AtSlot \in EnabledSlots(events[d])
    <3>1. events[d] \in Requests /\ meant = events[d]
      BY <1>2, <2>1 DEF ConfigType, Requests, DriverInv, OwnerInv
    <3>2. SameWidths(d, events[d])
      BY DEF SameWidths
    <3> QED
      BY <1>8, <2>1, <3>1, <3>2
  <2> QED
    BY <1>1, <1>7, <2>1, LoopKeeps
<1>10. ASSUME NEW w \in Requests, NEW c \in Config, meant' = w, reading' = c,
              SameWidths(c, w)'
       PROVE  Walk(w, c)'
  <2>1. meant = w /\ reading = c /\ SameWidths(c, w)
    BY <1>1, <1>10, WidthsKept DEF history
  <2>2. /\ Programmed(w) /\ Walk(w, c)
        /\ AtSlot \in EnabledSlots(w)
        /\ AtSlot \in Enabled(w, 32)
        /\ FirstCounter(w, AtSlot) = pmu_index
        /\ low = evcntr[pmu_index]
    BY <1>8, <2>1
  <2>3. /\ \A s \in EnabledSlots(w) : FirstCounter(w, s) \in Nat
        /\ \A s, t \in EnabledSlots(w) :
             FirstCounter(w, s) = FirstCounter(w, t) => s = t
        /\ \A s \in EnabledSlots(w) : FirstCounter(w, AtSlot) + 1 # FirstCounter(w, s)
        /\ \A s \in Enabled(w, 32) : FirstCounter(w, s) % 2 = 0
        /\ FirstCounter(w, AtSlot) + 1 \in Index
        /\ Enabled(w, 32) \subseteq EnabledSlots(w)
        /\ EnabledSlots(w) \subseteq Index
    <3>1. TotalCounters(w) <= MaxCounters
      BY <2>2 DEF Programmed, Allocated
    <3>2. /\ \A s \in EnabledSlots(w) : FirstCounter(w, s) \in Index
          /\ \A s \in Enabled(w, 32) :
               /\ FirstCounter(w, s) + 1 \in Index
               /\ FirstCounter(w, s) % 2 = 0
          /\ \A s, t \in EnabledSlots(w) :
               FirstCounter(w, s) = FirstCounter(w, t) => s = t
          /\ \A s \in Enabled(w, 32), t \in EnabledSlots(w) :
               FirstCounter(w, s) + 1 # FirstCounter(w, t)
      BY <3>1, Places
    <3>3. Enabled(w, 32) \subseteq EnabledSlots(w) /\ EnabledSlots(w) \subseteq Index
      BY SlotWidths
    <3>4. Index \subseteq Nat
      BY IndexInt
    <3> QED
      BY ONLY <2>2, <3>2, <3>3, <3>4
  <2>4. v = Count(w, AtSlot)
    <3>1. chain_value = evcntr[pmu_index + 1]
      BY <1>5, <2>2, <2>3 DEF ReadEvcntr
    <3>2. w[AtSlot].counterSize = 32
      BY <2>2 DEF Enabled
    <3>3. Chained(evcntr[pmu_index], evcntr[pmu_index + 1]) = Count(w, AtSlot)
      BY <2>2, <3>2, ValueOfSlot
    <3> QED
      BY <2>2, <3>1, <3>3 DEF v
  <2>5. ASSUME NEW s \in Enabled(w, 32)
        PROVE  pmu_index + 2 # FirstCounter(w, s) + 1
    <3>1. /\ FirstCounter(w, s) \in Nat /\ FirstCounter(w, s) % 2 = 0
          /\ pmu_index % 2 = 0
      BY <2>2, <2>3
    <3> QED
      BY <1>3, <3>1
  <2>6. ASSUME NEW s \in EnabledSlots(w), FirstCounter(w, s) < pmu_index + 2
        PROVE  counter'[c][s].counterValue = Count(w, s)
    <3>1. CASE s = AtSlot
      BY <1>7, <2>1, <2>4, <3>1
    <3>2. CASE s # AtSlot
      <4>1. /\ FirstCounter(w, s) # pmu_index
            /\ FirstCounter(w, s) # pmu_index + 1
            /\ FirstCounter(w, s) \in Nat
        BY <2>2, <2>3, <3>2
      <4>2. FirstCounter(w, s) < pmu_index
        BY <1>3, <2>6, <4>1
      <4> QED
        BY <1>7, <2>2, <2>3, <3>2, <4>2 DEF Walk
    <3> QED
      BY <3>1, <3>2
  <2>7. \A s \in EnabledSlots(w) : Count(w, s)' = Count(w, s)
    BY <1>1, CountKept
  <2> QED
    BY <1>1, <2>5, <2>6, <2>7 DEF Walk
<1> QED
  BY <1>4, <1>9, <1>10 DEF DriverInv, WalkInv

-----------------------------------------------------------------------------
(* An event occurs: the counter of each of its slots counts it, and a pair  *)
(* carries.                                                                 *)

LEMMA HeldOccur ==
  ASSUME TypeOK, NEW w \in Requests, Programmed(w), reading = None,
         NEW e \in MapEvent, Occur(e), NEW s \in EnabledSlots(w)
  PROVE  Held(w, s)'
<1> DEFINE i == FirstCounter(w, s)
           ev == w[s].eventId
           n == occurred[ev]
<1>1. ConfigType /\ MachineType
  BY TypeParts
<1>2. /\ UNCHANGED <<events, evtyper, cnten>>
      /\ occurred' = [occurred EXCEPT ![e] = @ + 1]
      /\ evcntr' = [k \in Index |-> IF k \in Counts(e) \cup Carries(e)
                                     THEN (evcntr[k] + 1) % Radix
                                     ELSE evcntr[k]]
  BY DEF Occur
<1>4. /\ i \in Index /\ i \in cnten /\ evtyper[i] = ev
      /\ ev \in MapEvent /\ n \in Nat
  <2>1. i \in Index
    BY <1>1, Places DEF Programmed, Allocated
  <2>2. EventTypes(w)[i] = ev /\ i \in CounterMask(w)
    BY <1>1, Types DEF Programmed, Allocated
  <2>3. ev \in MapEvent
    BY DEF Programmed, Allocated, Listed
  <2> QED
    BY <1>1, <2>1, <2>2, <2>3 DEF Programmed, Allocated, MachineType
<1>5. /\ evcntr[i] = n % Radix
      /\ w[s].counterSize = 32 => evcntr[i + 1] = (n \div Radix) % Radix
  BY DEF Programmed, Held
<1>6. Chain \notin MapEvent
  BY DriverAssumption
<1>7. i \in Counts(e) <=> ev = e
  BY <1>4 DEF Counts
<1>8. i \notin Carries(e)
  BY <1>4, <1>6 DEF Carries
<1>9. occurred'[ev] = IF ev = e THEN n + 1 ELSE n
  BY <1>1, <1>2, <1>4 DEF MachineType
<1>10. evcntr'[i] = occurred'[ev] % Radix
  <2>1. CASE ev = e
    <3>1. evcntr'[i] = ((n % Radix) + 1) % Radix
      BY <1>2, <1>4, <1>5, <1>7, <2>1
    <3> HIDE DEF n, i
    <3>2. ((n % Radix) + 1) % Radix = (n + 1) % Radix
      BY <1>4, RadixNat, ModStep
    <3>3. occurred'[ev] = n + 1
      BY <1>9, <2>1
    <3> QED
      BY ONLY <3>1, <3>2, <3>3
  <2>2. CASE ev # e
    BY <1>2, <1>4, <1>5, <1>7, <1>8, <1>9, <2>2
  <2> QED
    BY <2>1, <2>2
<1>11. ASSUME w[s].counterSize = 32
       PROVE  evcntr'[i + 1] = (occurred'[ev] \div Radix) % Radix
  <2>1. s \in Enabled(w, 32)
    BY <1>11 DEF Enabled, EnabledSlots
  <2>2. i + 1 \in Index /\ (i + 1) % 2 = 1
    BY <1>1, <2>1, Places DEF Programmed, Allocated
  <2>3. evtyper[i + 1] = Chain /\ i + 1 \in cnten
    <3>1. EventTypes(w)[i + 1] = Chain /\ i + 1 \in CounterMask(w)
      BY <1>1, <2>1, Types DEF Programmed, Allocated
    <3> QED
      BY <3>1 DEF Programmed, Allocated
  <2>4. i + 1 \notin Counts(e)
    BY <1>6, <2>3 DEF Counts
  <2>5. (i + 1) - 1 = i
    <3>1. i \in Nat
      BY <1>4, IndexInt
    <3> HIDE DEF i
    <3> QED
      BY <3>1
  <2>6. i + 1 \in Carries(e) <=> ev = e /\ evcntr[i] = Radix - 1
    BY <1>7, <2>2, <2>3, <2>5 DEF Carries
  <2>7. evcntr'[i + 1] = IF ev = e /\ evcntr[i] = Radix - 1
                           THEN (((n \div Radix) % Radix) + 1) % Radix
                           ELSE (n \div Radix) % Radix
    BY <1>2, <1>5, <1>11, <2>2, <2>4, <2>6
  <2> HIDE DEF n, i, ev
  <2>8. n \div Radix \in Nat
    BY <1>4, RadixNat, DivMod
  <2>9. (((n \div Radix) % Radix) + 1) % Radix = ((n \div Radix) + 1) % Radix
    BY <2>8, RadixNat, ModStep
  <2>10. /\ n % Radix = Radix - 1 => (n + 1) \div Radix = (n \div Radix) + 1
         /\ n % Radix # Radix - 1 => (n + 1) \div Radix = n \div Radix
    BY <1>4, RadixNat, DivStep
  <2>11. CASE ev = e /\ evcntr[i] = Radix - 1
    <3>1. (n + 1) \div Radix = (n \div Radix) + 1
      BY ONLY <1>5, <2>10, <2>11
    <3>2. occurred'[ev] = n + 1
      BY ONLY <1>9, <2>11
    <3>3. evcntr'[i + 1] = (((n \div Radix) % Radix) + 1) % Radix
      BY ONLY <2>7, <2>11
    <3> QED
      BY ONLY <2>9, <3>1, <3>2, <3>3
  <2>12. CASE ev = e /\ evcntr[i] # Radix - 1
    <3>1. (n + 1) \div Radix = n \div Radix
      BY ONLY <1>5, <2>10, <2>12
    <3>2. occurred'[ev] = n + 1
      BY ONLY <1>9, <2>12
    <3>3. evcntr'[i + 1] = (n \div Radix) % Radix
      BY ONLY <2>7, <2>12
    <3> QED
      BY ONLY <3>1, <3>2, <3>3
  <2>13. CASE ev # e
    BY ONLY <1>9, <2>7, <2>13
  <2> QED
    BY <2>11, <2>12, <2>13
<1> QED
  BY <1>10, <1>11 DEF Held

LEMMA OccurStep ==
  ASSUME TypeOK, DriverInv, NEW e \in MapEvent, Occur(e)
  PROVE  DriverInv'
<1>1. /\ cnten # {}
      /\ UNCHANGED <<events, counter, driver, evtyper, cnten, read, history>>
  BY DEF Occur
<1>2. ReadInv'
  BY <1>1 DEF DriverInv, ReadInv, read
<1>3. ASSUME NEW w \in Requests, meant' = w
      PROVE  Programmed(w)' /\ reading' = None
  <2>1. Programmed(w)
    BY <1>1, <1>3 DEF DriverInv, MeantInv, history
  <2>2. reading = None
    BY <1>1, <2>1 DEF Programmed
  <2>3. Allocated(w)'
    BY <1>1, <2>1, AllocatedKept DEF Programmed, driver
  <2>4. \A s \in EnabledSlots(w) : Held(w, s)'
    BY <2>1, <2>2, HeldOccur
  <2>5. (cnten = IF reading = None THEN counters ELSE {})'
    BY <1>1, <2>1 DEF Programmed, driver, read
  <2> QED
    BY <1>1, <2>2, <2>3, <2>4, <2>5 DEF Programmed, read
<1>4. MeantInv' /\ WalkInv'
  BY <1>3, NoConfig DEF MeantInv, WalkInv
<1> QED
  BY <1>1, <1>2, <1>4, ReportsKept DEF DriverInv

LEMMA StutterStep ==
  ASSUME DriverInv, UNCHANGED vars
  PROVE  DriverInv'
<1>1. /\ UNCHANGED <<events, counter, driver, hardware, history, occurred>>
      /\ UNCHANGED <<reading, pmu_index, low>>
  BY DEF vars, read
<1>2. ReadInv'
  BY <1>1 DEF DriverInv, ReadInv
<1>3. MeantInv'
  BY <1>1, MeantKept DEF DriverInv, driver, history
<1>4. ASSUME NEW w \in Requests, NEW c \in Config, meant' = w, reading' = c,
             SameWidths(c, w)'
      PROVE  Walk(w, c)'
  <2>1. Walk(w, c)
    <3>1. meant = w /\ reading = c /\ SameWidths(c, w)
      BY <1>1, <1>4, WidthsKept DEF history
    <3> QED
      BY <3>1 DEF DriverInv, WalkInv
  <2>2. \A s \in EnabledSlots(w) : Count(w, s)' = Count(w, s)
    BY <1>1, CountKept
  <2>3. evcntr' = evcntr
    BY <1>1 DEF hardware
  <2> QED
    BY <1>1, <2>1, <2>2, <2>3 DEF Walk
<1> QED
  BY <1>1, <1>2, <1>3, <1>4, ReportsKept DEF DriverInv, WalkInv

LEMMA DriverInit ==
  ASSUME Init
  PROVE  DriverInv
<1>1. \A c \in Config, s \in Index : events[c][s].eventId \in MapEvent
  BY DisabledType, DriverAssumption DEF Init
<1> QED
  BY <1>1, NoConfig, NoRequests
     DEF Init, DriverInv, ReadInv, DisabledInv, MeantInv, AuthorInv, OwnerInv,
         WalkInv

LEMMA DriverStep ==
  ASSUME TypeOK, DriverInv, [Next]_vars
  PROVE  DriverInv'
<1>1. CASE \E c \in Config : GetRefused(c)
  BY <1>1, StutterStep DEF GetRefused
<1>2. CASE UNCHANGED vars
  BY <1>2, StutterStep
<1> QED
  BY <1>1, <1>2, EditStep, InitStep, BeginStep, SkipStep, CounterStep,
     ChainedStep, EndStep, ResetStep, OccurStep DEF Next, GetStep

LEMMA Invariance == Spec => [](TypeOK /\ DriverInv)
<1>1. Init => TypeOK /\ DriverInv
  BY TypeInit, DriverInit
<1>2. TypeOK /\ DriverInv /\ [Next]_vars => (TypeOK /\ DriverInv)'
  BY TypeStep, DriverStep DEF DriverInv
<1> QED
  BY <1>1, <1>2, PTL DEF Spec

-----------------------------------------------------------------------------
(* Theorems *)

(* Whatever is configured, initialised, read and reset, and however events  *)
(* occur in between, every variable keeps its type: the loop of             *)
(* nsx_pmu_get_counters passes the last counter by one at most, and what it *)
(* stores fits the width of a slot.                                         *)
THEOREM TypeCorrect == Spec => []TypeOK
<1>1. TypeOK /\ DriverInv => TypeOK
  OBVIOUS
<1> QED
  BY <1>1, Invariance, PTL

(* What the PMU's owner knows of it. *)
LEMMA OwnedPmu ==
  ASSUME TypeOK, DriverInv, NEW c \in Config, owner = c
  PROVE  /\ events[c] \in Requests /\ meant = events[c]
         /\ Programmed(events[c])
         /\ Named(events[c], c) /\ Vacant(events[c], c)
         /\ SameWidths(c, events[c])
         /\ reading = c => Walk(events[c], c)
<1>1. events[c] \in Requests
  BY TypeParts DEF ConfigType, Requests
<1>2. meant = events[c] /\ author = c /\ Vacant(events[c], c)
  BY DEF DriverInv, OwnerInv
<1>3. SameWidths(c, events[c])
  BY DEF SameWidths
<1> QED
  BY <1>1, <1>2, <1>3 DEF DriverInv, MeantInv, AuthorInv, WalkInv

(* A read that is over has gone through all the slots. *)
LEMMA ReadOfInv ==
  ASSUME TypeOK, DriverInv, ReadDone, NEW w \in Requests, meant = w,
         NEW c \in Config, reading = c, SameWidths(c, w)
  PROVE  \A s \in EnabledSlots(w) : counter[c][s].counterValue = Count(w, s)
<1> SUFFICES ASSUME NEW s \in EnabledSlots(w)
             PROVE  counter[c][s].counterValue = Count(w, s)
  OBVIOUS
<1>1. Programmed(w) /\ Walk(w, c)
  BY DEF DriverInv, MeantInv, WalkInv
<1>2. FirstCounter(w, s) \in Index
  BY <1>1, Places DEF Programmed, Allocated
<1>3. FirstCounter(w, s) < pmu_index
  <2>1. FirstCounter(w, s) \in Nat /\ FirstCounter(w, s) < MaxCounters
    BY <1>2, IndexInt
  <2>2. pmu_index \in 0 .. MaxCounters + 1 /\ pmu_index >= MaxCounters
    BY TypeParts DEF MachineType, ReadDone
  <2> QED
    BY <2>1, <2>2, MaxNat
<1> QED
  BY <1>1, <1>3 DEF Walk

LEMMA ReportOfInv ==
  ASSUME TypeOK, DriverInv
  PROVE  ReportIsExact
<1> SUFFICES ASSUME ReadDone, reading = owner
             PROVE  /\ nsx_pmu_print_counters(reading) =
                          [s \in EnabledSlots(events[reading]) |->
                             LET ev == events[reading][s]
                             IN [regname |-> ev.eventId,
                                 value |-> occurred[ev.eventId]
                                             % Modulus(ev.counterSize)]]
                    /\ \A i \in 0 .. MaxCounters :
                         nsx_pmu_get_name(reading, i) \in MapEvent =>
                           i \in EnabledSlots(events[reading]) /\
                           nsx_pmu_get_name(reading, i)
                             = events[reading][i].eventId
  BY DEF ReportIsExact
<1>1. PICK c \in Config : reading = c /\ owner = c
  BY TypeParts DEF MachineType, ReadDone
<1>2. PICK w \in Requests : /\ w = events[c] /\ meant = w /\ Named(w, c)
                            /\ SameWidths(c, w)
  BY <1>1, OwnedPmu
<1>3. ASSUME NEW s \in EnabledSlots(w)
      PROVE  /\ counter[c][s].mapIndex = events[c][s].eventId
             /\ counter[c][s].counterValue =
                  occurred[events[c][s].eventId]
                    % Modulus(events[c][s].counterSize)
  BY <1>1, <1>2, ReadOfInv DEF Named, Count
<1>4. nsx_pmu_print_counters(c) =
        [s \in EnabledSlots(events[c]) |->
           LET ev == events[c][s]
           IN [regname |-> ev.eventId,
               value |-> occurred[ev.eventId] % Modulus(ev.counterSize)]]
  BY <1>2, <1>3 DEF nsx_pmu_print_counters
<1>5. ASSUME NEW i \in 0 .. MaxCounters, nsx_pmu_get_name(c, i) \in MapEvent
      PROVE  /\ i \in EnabledSlots(events[c])
             /\ nsx_pmu_get_name(c, i) = events[c][i].eventId
  <2>1. "Invalid handle" \notin MapEvent /\ "Not enabled" \notin MapEvent
    BY DriverAssumption
  <2>2. i \in EnabledSlots(events[c])
    BY <1>5, <2>1 DEF nsx_pmu_get_name, EnabledSlots
  <2> QED
    BY <1>2, <1>3, <2>2 DEF nsx_pmu_get_name, EnabledSlots
<1> QED
  BY <1>1, <1>4, <1>5

LEMMA ProgrammedCountsOfInv ==
  ASSUME TypeOK, DriverInv
  PROVE  ReadsProgrammedCounts
<1> SUFFICES ASSUME ReadDone, meant # None, SameWidths(reading, meant),
                    NEW s \in EnabledSlots(meant)
             PROVE  LET ev == meant[s]
                    IN /\ counter[reading][s].counterValue =
                            occurred[ev.eventId] % Modulus(ev.counterSize)
                       /\ reading = author /\ events[reading][s].enabled =>
                            nsx_pmu_print_counters(reading)[s].regname
                              = ev.eventId
  BY DEF ReadsProgrammedCounts
<1>1. PICK w \in Requests, c \in Config : meant = w /\ reading = c
  BY TypeParts DEF MachineType, ReadDone
<1>2. SameWidths(c, w) /\ s \in EnabledSlots(w) /\ s \in Index
  BY <1>1 DEF EnabledSlots
<1>3. counter[c][s].counterValue =
        occurred[w[s].eventId] % Modulus(w[s].counterSize)
  BY <1>1, <1>2, ReadOfInv DEF Count
<1>4. ASSUME author = c, events[c][s].enabled
      PROVE  nsx_pmu_print_counters(c)[s].regname = w[s].eventId
  <2>1. Named(w, c)
    BY <1>1, <1>4 DEF DriverInv, AuthorInv
  <2>2. s \in EnabledSlots(events[c])
    BY <1>2, <1>4 DEF EnabledSlots
  <2> QED
    BY <1>2, <2>1, <2>2 DEF Named, nsx_pmu_print_counters
<1> QED
  BY <1>1, <1>3, <1>4

(* A read of the configuration the PMU was last programmed for reports, for *)
(* every enabled slot, its event and how often it occurred since the last   *)
(* reset, modulo the width of the slot.                                     *)
THEOREM ReportExact == Spec => []ReportIsExact
<1>1. TypeOK /\ DriverInv => ReportIsExact
  BY ReportOfInv
<1> QED
  BY <1>1, Invariance, PTL

(* A read of any configuration with the widths the PMU was programmed with  *)
(* gives the counts of the events it was programmed with: edits and refused *)
(* nsx_pmu_init calls in between change neither them nor their names, and   *)
(* another user of the PMU reads them as its own.                           *)
THEOREM ProgrammedCountsRead == Spec => []ReadsProgrammedCounts
<1>1. TypeOK /\ DriverInv => ReadsProgrammedCounts
  BY ProgrammedCountsOfInv
<1> QED
  BY <1>1, Invariance, PTL

LEMMA ModAtMost ==
  ASSUME NEW n \in Nat, NEW r \in Nat, r > 0
  PROVE  n % r \in Nat /\ n % r <= n
  BY Z3

(* What a read stores for a slot of the owner is what is to be reported. *)
LEMMA StoredIsCount ==
  ASSUME TypeOK, DriverInv, NEW s \in Index, ReadsItsOwn(s), low' = None
  PROVE  /\ reading \in Config
         /\ s \in EnabledSlots(events[reading])
         /\ events[reading][s].eventId \in MapEvent
         /\ counter'[reading][s].counterValue = Count(events[reading], s)
<1>1. PICK c \in Config : reading = c /\ owner = c
  BY TypeParts DEF MachineType, ReadsItsOwn
<1>2. PICK w \in Requests : w = events[c] /\ Programmed(w) /\ Walk(w, c)
  BY <1>1, OwnedPmu
<1>3. ConfigType /\ pmu_index \in Index /\ AtSlot = s
  BY TypeParts DEF ReadsItsOwn
<1>4. \A t \in EnabledSlots(w) : w[t].eventId \in MapEvent
  BY <1>2 DEF Programmed, Allocated, Listed
<1>5. CASE GetCounter
  <2>1. low = None /\ pmu_index \in counters
    BY <1>5 DEF GetCounter
  <2>2. s \in EnabledSlots(w) /\ FirstCounter(w, s) = pmu_index
    BY <1>2, <1>3, <2>1, OwnSlot
  <2>3. evcntr[pmu_index] # None
    BY <1>3, TypeParts, ValueRange DEF MachineType
  <2>4. events[c][s].counterSize # 32 /\ Store(evcntr[pmu_index])
    BY <1>1, <1>3, <1>5, <2>3 DEF GetCounter
  <2>5. counter'[c][s].counterValue = evcntr[pmu_index]
    BY <1>1, <1>3, <2>4, StoreEffect
  <2>6. evcntr[pmu_index] = Count(w, s)
    BY <1>2, <2>2, <2>4, ValueOfSlot
  <2> QED
    BY <1>1, <1>2, <1>4, <2>2, <2>5, <2>6
<1>6. CASE GetChained
  <2>1. low # None
    BY <1>6 DEF GetChained
  <2>2. /\ s \in EnabledSlots(w) /\ s \in Enabled(w, 32)
        /\ FirstCounter(w, s) = pmu_index /\ low = evcntr[pmu_index]
    BY <1>2, <1>3, <2>1, OwnPair
  <2>3. pmu_index + 1 \in Index
    BY <1>2, <2>2, Places DEF Programmed, Allocated
  <2>4. Store(Chained(evcntr[pmu_index], evcntr[pmu_index + 1]))
    BY <1>6, <2>2, <2>3 DEF GetChained, ReadEvcntr
  <2>5. counter'[c][s].counterValue =
          Chained(evcntr[pmu_index], evcntr[pmu_index + 1])
    BY <1>1, <1>3, <2>4, StoreEffect
  <2>6. w[s].counterSize = 32
    BY <2>2 DEF Enabled
  <2>7. Chained(evcntr[pmu_index], evcntr[pmu_index + 1]) = Count(w, s)
    BY <1>2, <2>2, <2>6, ValueOfSlot
  <2> QED
    BY <1>1, <1>2, <1>4, <2>2, <2>5, <2>7
<1> QED
  BY <1>5, <1>6 DEF ReadsItsOwn

(* The difference of two reads never exceeds what occurred since the last   *)
(* reset, and is exact when the first value was zero or the larger one.     *)
THEOREM DeltaBounded == Spec => DeltaIsLowerBound
<1> DEFINE Step ==
      \A s \in Index : ReadsItsOwn(s) /\ low' = None =>
        LET before == counter[reading][s].counterValue
            after  == counter'[reading][s].counterValue
            delta  == ns_delta_pmu(before, after)
            ev     == events[reading][s]
        IN /\ delta <= occurred[ev.eventId]
           /\ before = 0 \/ after < before =>
                delta = occurred[ev.eventId] % Modulus(ev.counterSize)
<1>1. ASSUME TypeOK, DriverInv PROVE Step
  <2> SUFFICES ASSUME NEW s \in Index, ReadsItsOwn(s), low' = None
      PROVE LET before == counter[reading][s].counterValue
                after  == counter'[reading][s].counterValue
                delta  == ns_delta_pmu(before, after)
                ev     == events[reading][s]
            IN /\ delta <= occurred[ev.eventId]
               /\ before = 0 \/ after < before =>
                    delta = occurred[ev.eventId] % Modulus(ev.counterSize)
    OBVIOUS
  <2> DEFINE before == counter[reading][s].counterValue
             after  == counter'[reading][s].counterValue
             ev     == events[reading][s]
             n      == occurred[ev.eventId]
             r      == Modulus(ev.counterSize)
  <2>1. /\ reading \in Config /\ ev.eventId \in MapEvent /\ s \in Index
        /\ after = n % r
    BY <1>1, StoredIsCount DEF Count
  <2>2. before \in Nat
    <3>1. counter[reading][s] \in Entry
      BY <1>1, <2>1, TypeParts DEF ConfigType
    <3>2. counter[reading][s].counterValue \in 0 .. Radix * Radix - 1
      BY <3>1 DEF Entry
    <3> QED
      BY <3>2
  <2>3. n \in Nat
    BY <1>1, <2>1, TypeParts DEF MachineType
  <2>4. r \in Nat /\ r > 0
    <3>1. Radix * Radix \in Nat /\ Radix * Radix > 0
      BY RadixNat, Z3
    <3> QED
      BY <3>1, RadixNat DEF Modulus
  <2> HIDE DEF before, after, n, r
  <2>5. after \in Nat /\ after <= n
    BY <2>1, <2>3, <2>4, ModAtMost
  <2>6. /\ ns_delta_pmu(before, after) <= n
        /\ before = 0 \/ after < before => ns_delta_pmu(before, after) = after
    BY <2>2, <2>3, <2>5 DEF ns_delta_pmu
  <2> QED
    BY <2>1, <2>6 DEF before, after, n, r
<1>2. TypeOK /\ DriverInv /\ [Next]_vars => [Step]_vars
  BY <1>1
<1> HIDE DEF Step
<1>3. Spec => [][Step]_vars
  BY <1>2, Invariance, PTL DEF Spec
<1> QED
  BY <1>3 DEF DeltaIsLowerBound, Step

-----------------------------------------------------------------------------
(* The driver implements PmuContract *)

ContractStep ==
  [Contract!Next]_<<Contract!meter, reading, Reported>>

LEMMA ReportedOf ==
  ASSUME NEW c \in Config
  PROVE  /\ Reported[c] = [s \in Index |->
                IF c = reading THEN 0 ELSE counter[c][s].counterValue]
         /\ Reported'[c] = [s \in Index |->
                IF c = reading' THEN 0 ELSE counter'[c][s].counterValue]
  BY DEF Reported

LEMMA NoReportOf ==
  ASSUME NEW c \in Config,
         c = reading' \/ \A s \in Index : counter'[c][s].counterValue = 0
  PROVE  Reported'[c] = Contract!NoReport
<1> DEFINE value(s) == IF c = reading' THEN 0 ELSE counter'[c][s].counterValue
<1>1. Reported'[c] = [s \in Index |-> value(s)]
  BY ReportedOf
<1>2. \A s \in Index : value(s) = 0
  OBVIOUS
<1>3. Contract!NoReport = [s \in Index |-> 0]
  BY DEF Contract!NoReport
<1> HIDE DEF value
<1> QED
  BY ONLY <1>1, <1>2, <1>3

(* A report that nobody writes, or that is being read. *)
LEMMA ReportedKept ==
  ASSUME NEW c \in Config, c = reading <=> c = reading',
         c = reading \/ counter'[c] = counter[c]
  PROVE  Reported'[c] = Reported[c]
  BY ReportedOf

LEMMA WantedKept ==
  ASSUME owner \in Config \cup {None}, owner' = owner,
         owner \in Config => events'[owner] = events[owner]
  PROVE  Wanted' = Wanted
  BY DEF Wanted

LEMMA WantedNothing ==
  /\ owner = None => Wanted = Contract!Nothing
  /\ owner' = None => Wanted' = Contract!Nothing
  BY DEF Wanted, Contract!Nothing

(* The steps of the contract, as conditions on the driver's variables. *)
LEMMA EditImplements ==
  ASSUME TypeOK, DriverInv, NEW c \in Config,
         \/ \E s \in EditSlot, e \in EventId, size \in {16, 32} :
              nsx_pmu_event_create(c, s, e, size)
         \/ nsx_pmu_reset_config(c)
         \/ \E p \in DOMAIN Preset \cup {None} : nsx_pmu_apply_preset(c, p)
  PROVE  Contract!Configure(c)
<1>1. ConfigType /\ MachineType
  BY TypeParts
<1>2. /\ reading = None /\ Disown(c)
      /\ UNCHANGED <<initialized, reading, occurred>>
      /\ \A d \in Config \ {c} : /\ events'[d] = events[d]
                                /\ counter'[d] = counter[d]
  BY <1>1 DEF nsx_pmu_event_create, nsx_pmu_reset_config, nsx_pmu_apply_preset,
              ConfigType, driver, read
<1>3. Contract!Forget(c)
  <2>1. CASE owner = c
    <3>1. owner' = None /\ Wanted' = Contract!Nothing
      BY <1>2, <2>1, WantedNothing DEF Disown
    <3> QED
      BY <1>2, <2>1, <3>1 DEF Contract!Forget, Contract!Disturb
  <2>2. CASE owner # c
    <3>1. owner' = owner
      BY <1>2, <2>2 DEF Disown
    <3>2. Wanted' = Wanted
      BY <1>1, <1>2, <2>2, <3>1, WantedKept DEF MachineType
    <3> QED
      BY <1>2, <2>2, <3>1, <3>2 DEF Contract!Forget, Contract!meter
  <2> QED
    BY <2>1, <2>2
<1>4. \A d \in Config \ {c} : Reported'[d] = Reported[d]
  BY <1>2, ReportedKept
<1>5. Reported'[c] \in {Reported[c], Contract!NoReport}
  <2>1. CASE counter' = counter
    BY <1>2, <2>1, ReportedKept
  <2>2. CASE counter' = [counter EXCEPT ![c] = [s \in Index |-> Cleared]]
    <3>1. \A s \in Index : counter'[c][s].counterValue = 0
      <4>1. counter'[c] = [s \in Index |-> Cleared]
        BY <1>1, <2>2 DEF ConfigType
      <4> QED
        BY <4>1, DisabledType
    <3> QED
      BY <3>1, NoReportOf
  <2> QED
    BY <2>1, <2>2 DEF nsx_pmu_event_create, nsx_pmu_reset_config,
                      nsx_pmu_apply_preset
<1> QED
  BY <1>2, <1>3, <1>4, <1>5 DEF Contract!Configure, Contract!ReportOf

LEMMA InitImplements ==
  ASSUME TypeOK, TypeOK', DriverInv, DriverInv', NEW c \in Config, NEW apiOk,
         NEW backendOk, nsx_pmu_init(c, apiOk, backendOk)
  PROVE  \/ Contract!InitSucceeds(c)
         \/ Contract!InitFails(c)
         \/ UNCHANGED <<Contract!meter, reading, Reported>>
<1>1. ConfigType /\ MachineType /\ ConfigType' /\ MachineType'
  BY TypeParts
<1>2. reading = None /\ UNCHANGED <<events, reading>>
  BY DEF nsx_pmu_init, read
<1>3. CASE InitRefused(c, apiOk)
  <2>1. UNCHANGED <<counter, initialized, owner, occurred>>
    BY <1>3 DEF InitRefused, driver, history
  <2>2. Wanted' = Wanted /\ Reported' = Reported
    BY <1>2, <2>1 DEF Wanted, Reported
  <2> QED
    BY <1>2, <2>1, <2>2 DEF Contract!meter
<1>4. ASSUME InitUnlisted(c) \/ InitProgram(c, backendOk)
      PROVE  \A d \in Config \ {c} : Reported'[d] = Reported[d]
  <2>1. \A d \in Config \ {c} : counter'[d] = counter[d]
    BY <1>1, <1>4 DEF InitUnlisted, InitProgram, ConfigType
  <2> QED
    BY <1>2, <2>1, ReportedKept
<1>5. CASE /\ InitUnlisted(c) \/ InitProgram(c, backendOk)
           /\ owner' = None /\ UNCHANGED <<initialized, occurred>>
  <2>1. Contract!Disturb
    BY <1>5, WantedNothing DEF Contract!Disturb
  <2>2. Reported'[c] \in [Index -> 0 .. Radix * Radix - 1]
    <3>1. \A s \in Index : counter'[c][s].counterValue \in 0 .. Radix * Radix - 1
      <4>1. \A s \in Index : counter'[c][s] \in Entry
        BY <1>1 DEF ConfigType
      <4> QED
        BY <4>1 DEF Entry
    <3> QED
      <4> DEFINE value(s) ==
                   IF c = reading' THEN 0 ELSE counter'[c][s].counterValue
      <4>1. Reported'[c] = [s \in Index |-> value(s)]
        BY ReportedOf
      <4>2. \A s \in Index : value(s) \in 0 .. Radix * Radix - 1
        BY <3>1, ValueRange
      <4> HIDE DEF value
      <4> QED
        BY ONLY <4>1, <4>2
  <2> QED
    BY <1>2, <1>4, <1>5, <2>1, <2>2 DEF Contract!InitFails, Contract!ReportOf
<1>6. CASE InitProgram(c, backendOk) /\ owner' = c /\ initialized' = TRUE
           /\ occurred' = [e \in MapEvent |-> 0]
  <2>1. Wanted' = events[c]
    BY <1>2, <1>6, NoConfig DEF Wanted
  <2>2. events[c] \in [Index -> Contract!Request]
    <3>1. ASSUME NEW s \in Index PROVE events[c][s] \in Contract!Request
      <4>1. events[c][s] \in Event
        BY <1>1 DEF ConfigType
      <4>2. events[c][s].eventId \in MapEvent
        <5>1. CASE s \in EnabledSlots(events[c])
          BY <1>6, <5>1 DEF InitProgram, Listed
        <5>2. CASE s \notin EnabledSlots(events[c])
          BY <5>2 DEF EnabledSlots, DriverInv, DisabledInv
        <5> QED
          BY <5>1, <5>2
      <4> QED
        BY <4>1, <4>2 DEF Event, Contract!Request
    <3> QED
      BY <1>1, <3>1 DEF ConfigType
  <2>3. Reported'[c] = Contract!NoReport
    <3>1. ASSUME NEW s \in Index PROVE counter'[c][s].counterValue = 0
      BY <1>1, <1>6 DEF InitProgram, ConfigType
    <3> QED
      BY <3>1, NoReportOf
  <2>4. Contract!Program(c, Wanted')
    BY <1>6 DEF Contract!Program, Contract!Zeros
  <2> QED
    BY <1>2, <1>4, <1>6, <2>1, <2>2, <2>3, <2>4
       DEF Contract!InitSucceeds, Contract!ReportOf
<1> QED
  BY <1>3, <1>5, <1>6 DEF nsx_pmu_init, InitUnlisted, InitProgram, Lost

LEMMA BeginImplements ==
  ASSUME TypeOK, NEW c \in Config, GetBegin(c)
  PROVE  Contract!BeginRead(c)
<1>1. /\ reading = None /\ initialized /\ reading' = c
      /\ UNCHANGED <<events, counter, initialized, owner, occurred>>
  BY DEF GetBegin, driver, history
<1>2. Wanted' = Wanted
  BY <1>1 DEF Wanted
<1>3. Reported'[c] = Contract!NoReport
  BY <1>1, NoReportOf
<1>4. \A d \in Config \ {c} : Reported'[d] = Reported[d]
  BY <1>1, NoConfig, ReportedKept
<1> QED
  BY <1>1, <1>2, <1>3, <1>4
     DEF Contract!BeginRead, Contract!ReportOf, Contract!meter

(* Inside the loop nothing is seen of the report being written. *)
LEMMA LoopImplements ==
  ASSUME TypeOK, DriverInv, GetSkip \/ GetCounter \/ GetChained
  PROVE  UNCHANGED <<Contract!meter, reading, Reported>>
<1>1. /\ reading # None
      /\ UNCHANGED <<events, initialized, reading, owner, occurred>>
  BY DEF GetSkip, GetCounter, GetChained, driver, history
<1>2. ConfigType /\ MachineType
  BY TypeParts
<1>3. ASSUME NEW d \in Config, d # reading
      PROVE  counter'[d] = counter[d]
  BY <1>2, <1>3 DEF GetSkip, GetCounter, GetChained, Store, ConfigType
<1>4. Reported' = Reported
  <2>1. \A d \in Config, s \in Index :
          (IF d = reading' THEN 0 ELSE counter'[d][s].counterValue)
            = (IF d = reading THEN 0 ELSE counter[d][s].counterValue)
    BY <1>1, <1>3
  <2> QED
    BY <2>1 DEF Reported
<1>5. Wanted' = Wanted
  BY <1>1 DEF Wanted
<1> QED
  BY <1>1, <1>4, <1>5 DEF Contract!meter

(* At its end the report is what the meter reads for this configuration. *)
LEMMA EndImplements ==
  ASSUME TypeOK, DriverInv, GetEnd
  PROVE  Contract!EndRead
<1>1. /\ ReadDone /\ reading' = None
      /\ UNCHANGED <<events, counter, initialized, owner>>
      /\ occurred' = [e \in MapEvent |-> 0]
  BY DEF GetEnd, ReadDone, ResetCounters, driver, history
<1>2. ConfigType /\ MachineType
  BY TypeParts
<1>3. PICK c \in Config : reading = c
  BY <1>1, <1>2 DEF MachineType, ReadDone
<1>4. Wanted' = Wanted
  BY <1>1 DEF Wanted
<1>5. \A d \in Config \ {c} : Reported'[d] = Reported[d]
  BY <1>1, <1>3, NoConfig, ReportedKept
<1>6. Reported'[c] = [s \in Index |-> counter[c][s].counterValue]
  BY <1>1, NoConfig, ReportedOf
<1>7. Reported'[c] \in Contract!Readings(c)
  <2>1. CASE owner = c
    <3>1. ASSUME NEW s \in Index
          PROVE  counter[c][s].counterValue = Contract!Exact(s)
      <4>1. Wanted = events[c]
        BY <2>1, NoConfig DEF Wanted
      <4>2. CASE s \in EnabledSlots(events[c])
        <5>1. ReportIsExact
          BY ReportOfInv
        <5>2. nsx_pmu_print_counters(c) =
                [t \in EnabledSlots(events[c]) |->
                   LET ev == events[c][t]
                   IN [regname |-> ev.eventId,
                       value |-> occurred[ev.eventId]
                                   % Modulus(ev.counterSize)]]
          BY <1>1, <1>3, <2>1, <5>1 DEF ReportIsExact
        <5>3. nsx_pmu_print_counters(c)[s].value =
                occurred[events[c][s].eventId] % Modulus(events[c][s].counterSize)
          BY <4>2, <5>2
        <5>4. counter[c][s].counterValue = Count(events[c], s)
          BY <4>2, <5>3 DEF nsx_pmu_print_counters, Count
        <5> QED
          BY <4>1, <4>2, <5>4
             DEF Contract!Exact, Contract!Modulus, Count, Modulus, EnabledSlots
      <4>3. CASE s \notin EnabledSlots(events[c])
        <5>1. counter[c][s].counterValue = 0
          BY <2>1, <4>3, OwnedPmu DEF Vacant
        <5>2. ~Wanted[s].enabled
          BY <1>2, <4>1, <4>3 DEF EnabledSlots
        <5> QED
          BY <5>1, <5>2 DEF Contract!Exact
      <4> QED
        BY <4>2, <4>3
    <3> QED
      BY <1>6, <2>1, <3>1 DEF Contract!Readings
  <2>2. CASE owner # c
    <3>1. \A s \in Index : counter[c][s].counterValue \in 0 .. Radix * Radix - 1
      BY <1>2 DEF ConfigType, Entry
    <3> QED
      BY <1>6, <2>2, <3>1 DEF Contract!Readings
  <2> QED
    BY <2>1, <2>2
<1>8. Contract!Zero
  BY <1>1, <1>4 DEF Contract!Zero, Contract!Zeros
<1>9. Contract!ReportOf(reading, Contract!Readings(reading))
  BY <1>3, <1>5, <1>7 DEF Contract!ReportOf
<1> QED
  BY <1>1, <1>8, <1>9 DEF Contract!EndRead, ReadDone

LEMMA ResetImplements ==
  ASSUME nsx_pmu_reset_counters
  PROVE  Contract!ResetCounters
<1>1. /\ reading = None /\ occurred' = [e \in MapEvent |-> 0]
      /\ UNCHANGED <<events, counter, initialized, reading, owner>>
  BY DEF nsx_pmu_reset_counters, ResetCounters, driver, read, history
<1>2. Wanted' = Wanted /\ Reported' = Reported
  BY <1>1 DEF Wanted, Reported
<1> QED
  BY <1>1, <1>2 DEF Contract!ResetCounters, Contract!Zero, Contract!Zeros

(* Nothing counts during a read of a PMU that somebody owns. *)
LEMMA OccurImplements ==
  ASSUME TypeOK, DriverInv, NEW e \in MapEvent, Occur(e)
  PROVE  Contract!Occur(e)
<1>1. /\ cnten # {} /\ occurred' = [occurred EXCEPT ![e] = @ + 1]
      /\ UNCHANGED <<events, counter, initialized, reading, owner>>
  BY DEF Occur, driver, read, history
<1>2. reading = None \/ owner = None
  <2>1. ASSUME NEW c \in Config, owner = c
        PROVE  reading = None
    <3>1. Programmed(events[c])
      BY <2>1, OwnedPmu
    <3> QED
      BY <1>1, <3>1 DEF Programmed
  <2> QED
    BY <2>1, TypeParts DEF MachineType
<1>3. occurred \in [MapEvent -> Nat]
  BY TypeParts DEF MachineType
<1>4. occurred' = [x \in MapEvent |->
        occurred[x] + [y \in MapEvent |-> IF y = e THEN 1 ELSE 0][x]]
  <2>1. \A x \in MapEvent :
          occurred'[x] = occurred[x] + (IF x = e THEN 1 ELSE 0)
    BY <1>1, <1>3
  <2>2. occurred' \in [MapEvent -> Nat]
    BY <1>1, <1>3
  <2> QED
    BY <2>1, <2>2
<1>5. Wanted' = Wanted /\ Reported' = Reported
  BY <1>1 DEF Wanted, Reported
<1> QED
  BY <1>1, <1>2, <1>4, <1>5 DEF Contract!Occur, Contract!Accrue

LEMMA StepImplements ==
  TypeOK /\ DriverInv /\ TypeOK' /\ DriverInv' /\ [Next]_vars => ContractStep
<1> SUFFICES ASSUME TypeOK, DriverInv, TypeOK', DriverInv', [Next]_vars
             PROVE  ContractStep
  OBVIOUS
<1>1. CASE UNCHANGED vars \/ \E c \in Config : GetRefused(c)
  <2>1. UNCHANGED <<events, counter, initialized, reading, owner, occurred>>
    BY <1>1 DEF GetRefused, vars, driver, read, history
  <2>2. Wanted' = Wanted /\ Reported' = Reported
    BY <2>1 DEF Wanted, Reported
  <2> QED
    BY <2>1, <2>2 DEF ContractStep, Contract!meter
<1>2. ASSUME NEW c \in Config,
             \/ \E s \in EditSlot, e \in EventId, size \in {16, 32} :
                  nsx_pmu_event_create(c, s, e, size)
             \/ nsx_pmu_reset_config(c)
             \/ \E p \in DOMAIN Preset \cup {None} : nsx_pmu_apply_preset(c, p)
      PROVE  ContractStep
  BY <1>2, EditImplements DEF ContractStep, Contract!Next
<1>3. ASSUME NEW c \in Config, NEW apiOk \in BOOLEAN, NEW backendOk \in BOOLEAN,
             nsx_pmu_init(c, apiOk, backendOk)
      PROVE  ContractStep
  <2>1. \/ Contract!InitSucceeds(c)
        \/ Contract!InitFails(c)
        \/ UNCHANGED <<Contract!meter, reading, Reported>>
    BY <1>3, InitImplements
  <2> QED
    BY <2>1 DEF ContractStep, Contract!Next
<1>4. ASSUME NEW c \in Config, GetBegin(c)
      PROVE  ContractStep
  BY <1>4, BeginImplements DEF ContractStep, Contract!Next
<1>5. CASE GetSkip \/ GetCounter \/ GetChained
  BY <1>5, LoopImplements DEF ContractStep
<1>6. CASE GetEnd
  BY <1>6, EndImplements DEF ContractStep, Contract!Next
<1>7. CASE nsx_pmu_reset_counters
  BY <1>7, ResetImplements DEF ContractStep, Contract!Next
<1>8. ASSUME NEW e \in MapEvent, Occur(e)
      PROVE  ContractStep
  BY <1>8, OccurImplements DEF ContractStep, Contract!Next
<1> QED
  BY <1>1, <1>2, <1>3, <1>4, <1>5, <1>6, <1>7, <1>8 DEF Next, GetStep

LEMMA InitialContract == Init => Contract!Init
<1> SUFFICES ASSUME Init PROVE Contract!Init
  OBVIOUS
<1>1. Wanted = Contract!Nothing
  BY WantedNothing DEF Init
<1>2. Reported = [c \in Config |-> Contract!NoReport]
  <2>1. \A c \in Config, s \in Index :
          (IF c = reading THEN 0 ELSE counter[c][s].counterValue) = 0
    BY DisabledType DEF Init
  <2> QED
    BY <2>1 DEF Reported, Contract!NoReport
<1> QED
  BY <1>1, <1>2 DEF Init, Contract!Init, Contract!MeterInit, Contract!Zeros

(* The driver keeps the contract its users rely on: a read is exact for the *)
(* configuration initialised last, whoever else used the PMU or failed to,  *)
(* and no call on one configuration changes another's report.  The bits,    *)
(* masks, chained counters and steps of nsx_pmu_utils.c implement           *)
(* PmuContract.                                                             *)
THEOREM ContractKept == Spec => ImplementsContract
<1>1. Init => Contract!Init
  BY InitialContract
<1>2. TypeOK /\ DriverInv /\ TypeOK' /\ DriverInv' /\ [Next]_vars
        => [Contract!Next]_<<Contract!meter, reading, Reported>>
  BY StepImplements DEF ContractStep
<1> QED
  BY <1>1, <1>2, Invariance, PTL
     DEF Spec, ImplementsContract, Contract!Spec
=============================================================================
