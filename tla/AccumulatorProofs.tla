-------------------------- MODULE AccumulatorProofs --------------------------
(***************************************************************************)
(* What AccumulatorRun keeps for every number of matrices, of events and   *)
(* of clients, every model, every matrix asked for and every count: the    *)
(* types, the exactness of a complete matrix, the rows of the tags and the *)
(* callers' buffers.                                                       *)
(*                                                                         *)
(* The argument is one inductive invariant, AccInv.  It says of every      *)
(* matrix how far it is measured: which operators have their row in        *)
(* tag_map (TagInv), that the row in hand is the one of the operator that  *)
(* runs (RowInv), and how many of the operators' occurrences each cell     *)
(* holds (CellsInv).                                                       *)
(***************************************************************************)
EXTENDS AccumulatorRun, FiniteSetTheorems, SequenceTheorems,
        WellFoundedInduction, TLAPS

-----------------------------------------------------------------------------
(* Arithmetic *)

LEMMA Least ==
  ASSUME NEW T, T # {}, T \subseteq Nat
  PROVE  \E s \in T : \A t \in T : s <= t
<1>1. PICK s \in T : \A t \in T : ~(<<t, s>> \in OpToRel(<, Nat))
  BY WFMin, NatLessThanWellFounded
<1>2. \A t \in T : ~(t < s)
  BY <1>1 DEF OpToRel
<1>3. \A t \in T : s <= t
  BY <1>2
<1> QED
  BY <1>3

LEMMA MinIsLeast ==
  ASSUME NEW T, T # {}, T \subseteq Nat
  PROVE  Min(T) \in T /\ \A t \in T : Min(T) <= t
BY Least DEF Min

(* Adding modulo w, one addend at a time. *)
LEMMA DivMod ==
  ASSUME NEW n \in Nat, NEW w \in Nat, w > 0
  PROVE  n \div w \in Nat /\ n % w \in 0 .. w - 1 /\ n = (n \div w) * w + (n % w)
BY Z3

LEMMA ModUnique ==
  ASSUME NEW q \in Nat, NEW w \in Nat, w > 0, NEW m \in 0 .. w - 1
  PROVE  (q * w + m) % w = m
BY Z3

LEMMA ModDrop ==
  ASSUME NEW q \in Nat, NEW n \in Nat, NEW w \in Nat, w > 0
  PROVE  (q * w + n) % w = n % w
<1> DEFINE p == n \div w
           m == n % w
<1>1. p \in Nat /\ m \in 0 .. w - 1 /\ n = p * w + m
  BY DivMod
<1> HIDE DEF p, m
<1>2. ((q + p) * w + m) % w = m
  BY <1>1, ModUnique
<1>3. (q + p) * w + m = q * w + n
  BY <1>1, Z3
<1> QED
  BY ONLY <1>2, <1>3 DEF m

LEMMA ModAdd ==
  ASSUME NEW a \in Nat, NEW b \in Nat, NEW w \in Nat, w > 0
  PROVE  ((a % w) + (b % w)) % w = (a + b) % w
<1> DEFINE p == a \div w
           m == a % w
           q == b \div w
           n == b % w
<1>1. p \in Nat /\ m \in 0 .. w - 1 /\ a = p * w + m
  BY DivMod
<1>2. q \in Nat /\ n \in 0 .. w - 1 /\ b = q * w + n
  BY DivMod
<1> HIDE DEF p, m, q, n
<1>3. ((p + q) * w + (m + n)) % w = (m + n) % w
  <2>1. p \in Nat /\ q \in Nat /\ m \in 0 .. w - 1 /\ n \in 0 .. w - 1
    BY ONLY <1>1, <1>2, Zenon
  <2>2. p + q \in Nat /\ m + n \in Nat
    BY ONLY <2>1, w \in Nat
  <2>3. \A x, y \in Nat : (x * w + y) % w = y % w
    BY ModDrop
  <2> QED
    BY ONLY <2>2, <2>3, Zenon
<1>4. (p + q) * w + (m + n) = a + b
  BY <1>1, <1>2, Z3
<1> QED
  BY ONLY <1>3, <1>4 DEF m, n

LEMMA WordNat == Word \in Nat /\ Word > 0
<1>1. Radix \in Nat /\ Radix > 1
  BY MeterAssumption
<1>2. Radix * Radix \in Nat /\ Radix * Radix > 0
  BY <1>1, Z3
<1> QED
  BY <1>2 DEF Word, Modulus

(* The cells of a matrix of m rows and n columns. *)
LEMMA CellInside ==
  ASSUME NEW m \in Nat, NEW n \in Nat, NEW r \in 0 .. m - 1, NEW e \in 0 .. n - 1
  PROVE  r * n + e \in 0 .. m * n - 1
<1>1. r * n \in Nat /\ (r + 1) * n <= m * n /\ (r + 1) * n = r * n + n
  BY Z3
<1> QED
  BY <1>1

LEMMA CellsApart ==
  ASSUME NEW n \in Nat, NEW r \in Nat, NEW s \in Nat, r # s, NEW e \in 0 .. n - 1
  PROVE  (r * n + e) - (s * n + 0) \notin 0 .. n - 1
<1>1. r * n \in Nat /\ s * n \in Nat
  BY Z3
<1>2. CASE r > s
  <2>1. r * n >= (s + 1) * n /\ (s + 1) * n = s * n + n
    BY <1>2, Z3
  <2> QED
    BY <1>1, <2>1
<1>3. CASE r < s
  <2>1. s * n >= (r + 1) * n /\ (r + 1) * n = r * n + n
    BY <1>3, Z3
  <2> QED
    BY <1>1, <2>1
<1> QED
  BY <1>2, <1>3

-----------------------------------------------------------------------------
(* The rows of a model *)

(* The strings of the operators before the n-th, and how many they are. *)
Before(c, n) == {TextOf(c, m) : m \in 0 .. n - 1}

LEMMA BeforeCounts ==
  ASSUME NEW c, NEW n \in Nat
  PROVE  /\ IsFiniteSet(Before(c, n))
         /\ Cardinality(Before(c, n)) \in Nat
         /\ Before(c, n + 1) = Before(c, n) \cup {TextOf(c, n)}
<1>1. IsFiniteSet(Before(c, n))
  <2>1. IsFiniteSet(0 .. n - 1)
    BY FS_Interval
  <2> DEFINE f == [m \in 0 .. n - 1 |-> TextOf(c, m)]
  <2>2. f \in Surjection(0 .. n - 1, Before(c, n))
    BY DEF Before, Surjection
  <2> QED
    BY <2>1, <2>2, FS_Surjection
<1>2. Before(c, n + 1) = Before(c, n) \cup {TextOf(c, n)}
  BY DEF Before
<1> QED
  BY <1>1, <1>2, FS_CardinalityType

LEMMA BeforeNext ==
  ASSUME NEW c, NEW n \in Nat
  PROVE  Cardinality(Before(c, n + 1)) =
           IF TextOf(c, n) \in Before(c, n) THEN Cardinality(Before(c, n))
                                            ELSE Cardinality(Before(c, n)) + 1
BY BeforeCounts, FS_AddElement

LEMMA BeforeMonotone ==
  ASSUME NEW c, NEW m \in Nat, NEW n \in Nat, m <= n
  PROVE  Cardinality(Before(c, m)) <= Cardinality(Before(c, n))
<1>1. Before(c, m) \subseteq Before(c, n)
  BY DEF Before
<1> QED
  BY <1>1, BeforeCounts, FS_Subset

LEMMA BeforeNone ==
  ASSUME NEW c
  PROVE  Cardinality(Before(c, 0)) = 0
<1>1. Before(c, 0) = {}
  BY DEF Before
<1> QED
  BY <1>1, FS_EmptySet

(* The operator whose string is the n-th's for the first time. *)
First(c, n) == Min({m \in Operators(c) : TextOf(c, m) = TextOf(c, n)})

LEMMA FirstIs ==
  ASSUME NEW c \in Client, NEW n \in Operators(c)
  PROVE  /\ First(c, n) \in Operators(c) /\ First(c, n) <= n
         /\ TextOf(c, First(c, n)) = TextOf(c, n)
         /\ TextOf(c, n) \notin Before(c, First(c, n))
<1> DEFINE T == {m \in Operators(c) : TextOf(c, m) = TextOf(c, n)}
<1>1. n \in T /\ T \subseteq Nat
  BY DEF Operators
<1>2. First(c, n) \in T /\ \A t \in T : First(c, n) <= t
  BY <1>1, MinIsLeast DEF First
<1>3. ASSUME NEW m \in 0 .. First(c, n) - 1, TextOf(c, m) = TextOf(c, n)
      PROVE  FALSE
  <2>1. m \in T
    BY <1>2, <1>3, RunAssumption DEF Operators
  <2> QED
    BY <1>2, <2>1 DEF Operators
<1> QED
  BY <1>1, <1>2, <1>3 DEF Before

LEMMA TagRow ==
  ASSUME NEW c, NEW n
  PROVE  /\ RowIn(c, TRUE, n) = Cardinality(Before(c, First(c, n)))
         /\ RowIn(c, FALSE, n) = n
BY DEF RowIn, Before, First

LEMMA RowNat ==
  ASSUME NEW c \in Client, NEW by_tag \in BOOLEAN, NEW n \in Operators(c)
  PROVE  RowIn(c, by_tag, n) \in Nat
<1>1. First(c, n) \in Nat /\ n \in Nat
  BY FirstIs DEF Operators
<1>2. CASE by_tag = TRUE
  <2>1. Cardinality(Before(c, First(c, n))) \in Nat
    BY <1>1, BeforeCounts
  <2> QED
    BY <1>2, <2>1, TagRow
<1>3. CASE by_tag = FALSE
  BY <1>1, <1>3, TagRow
<1> QED
  BY <1>2, <1>3

LEMMA SameTextSameRow ==
  ASSUME NEW c, NEW m, NEW n, TextOf(c, m) = TextOf(c, n)
  PROVE  RowIn(c, TRUE, m) = RowIn(c, TRUE, n)
BY DEF RowIn

LEMMA SameRowSameText ==
  ASSUME NEW c \in Client, NEW m \in Operators(c), NEW n \in Operators(c),
         RowIn(c, TRUE, m) = RowIn(c, TRUE, n)
  PROVE  TextOf(c, m) = TextOf(c, n)
<1>1. ASSUME NEW p \in Operators(c), NEW q \in Operators(c),
             First(c, p) < First(c, q)
      PROVE  RowIn(c, TRUE, p) < RowIn(c, TRUE, q)
  <2> DEFINE f == First(c, p)
             g == First(c, q)
  <2>1. f \in Nat /\ g \in Nat /\ TextOf(c, f) \notin Before(c, f)
    BY FirstIs DEF Operators
  <2>2. Cardinality(Before(c, f + 1)) = Cardinality(Before(c, f)) + 1
    BY <2>1, BeforeNext
  <2>3. Cardinality(Before(c, f + 1)) <= Cardinality(Before(c, g))
    BY <1>1, <2>1, BeforeMonotone
  <2> HIDE DEF f, g
  <2>4. Cardinality(Before(c, f)) \in Nat /\ Cardinality(Before(c, g)) \in Nat
    BY <2>1, BeforeCounts
  <2>5. Cardinality(Before(c, f)) < Cardinality(Before(c, g))
    BY <2>2, <2>3, <2>4
  <2> QED
    BY <2>5, TagRow DEF f, g
<1>2. First(c, m) \in Nat /\ First(c, n) \in Nat
  BY FirstIs DEF Operators
<1> DEFINE k == RowIn(c, TRUE, m)
<1>3. k \in Nat
  BY RowNat
<1>4. /\ First(c, m) < First(c, n) => k < k
      /\ First(c, n) < First(c, m) => k < k
  BY <1>1
<1> HIDE DEF k
<1>5. ~(First(c, m) < First(c, n)) /\ ~(First(c, n) < First(c, m))
  BY <1>3, <1>4
<1>6. First(c, m) = First(c, n)
  BY <1>2, <1>5
<1> QED
  BY <1>6, FirstIs

(* No row is left out. *)
LEMMA RowsContiguous ==
  ASSUME NEW c \in Client, NEW n \in Operators(c),
         NEW r \in Nat, r < RowIn(c, TRUE, n)
  PROVE  \E m \in Operators(c) : m < n /\ RowIn(c, TRUE, m) = r
<1> DEFINE count(k) == Cardinality(Before(c, k))
           T == {k \in Nat : count(k) > r}
<1>1. First(c, n) \in Nat /\ First(c, n) <= n
  BY FirstIs DEF Operators
<1>2. count(First(c, n)) > r
  <2>1. count(First(c, n)) = RowIn(c, TRUE, n)
    BY TagRow
  <2> QED
    BY <2>1
<1>3. PICK k \in T : \A t \in T : k <= t
  BY <1>1, <1>2, Least
<1>4. k \in Nat /\ k <= First(c, n) /\ count(k) > r
  BY <1>1, <1>2, <1>3
<1>5. k # 0
  BY <1>4, BeforeNone
<1> DEFINE m == k - 1
<1>6. m \in Nat /\ k = m + 1 /\ m \notin T
  BY <1>3, <1>4, <1>5
<1>7. count(m) \in Nat /\ count(m) <= r
  BY <1>6, BeforeCounts
<1>8. count(m + 1) = IF TextOf(c, m) \in Before(c, m) THEN count(m) ELSE count(m) + 1
  BY <1>6, BeforeNext
<1>9. count(m) = r /\ TextOf(c, m) \notin Before(c, m)
  BY <1>4, <1>6, <1>7, <1>8
<1>10. m \in Operators(c) /\ m < n
  <2>1. n \in Nat /\ n < Len(Model[c]) /\ Len(Model[c]) \in Nat
    BY RunAssumption DEF Operators
  <2>2. m < n
    BY ONLY <1>1, <1>4, <1>6, <2>1
  <2>3. m < Len(Model[c])
    BY ONLY <1>6, <2>1, <2>2
  <2>4. m \in 0 .. Len(Model[c]) - 1
    BY ONLY <1>6, <2>1, <2>3
  <2> QED
    BY ONLY <2>2, <2>4 DEF Operators
<1>11. First(c, m) = m
  <2>1. First(c, m) \in Operators(c) /\ First(c, m) <= m
        /\ TextOf(c, First(c, m)) = TextOf(c, m)
    BY <1>10, FirstIs
  <2>2. ~(First(c, m) \in 0 .. m - 1)
    BY <1>9, <2>1 DEF Before
  <2> QED
    BY <1>6, <2>1, <2>2 DEF Operators
<1>12. RowIn(c, TRUE, m) = r
  <2>1. RowIn(c, TRUE, m) = Cardinality(Before(c, First(c, m)))
    BY TagRow
  <2> QED
    BY ONLY <1>9, <1>11, <2>1
<1> QED
  BY ONLY <1>10, <1>12, Zenon

-----------------------------------------------------------------------------
(* Occurrences, counted one operator after the other *)

LEMMA SumExists ==
  ASSUME NEW l \in Nat, NEW cost \in [0 .. l - 1 -> Nat]
  PROVE  \E f : f = [n \in 0 .. l |-> IF n = 0 THEN 0 ELSE f[n - 1] + cost[n - 1]]
<1> DEFINE Sum(f, k) == f[0] = 0 /\ \A n \in 1 .. k : f[n] = f[n - 1] + cost[n - 1]
           T == {k \in 0 .. l : ~ \E f \in [0 .. k -> Nat] : Sum(f, k)}
<1>1. T = {}
  <2> SUFFICES ASSUME T # {} PROVE FALSE
    OBVIOUS
  <2>1. T \subseteq Nat
    OBVIOUS
  <2>2. PICK k \in T : \A t \in T : k <= t
    BY <2>1, Least
  <2>3. k # 0
    <3> DEFINE g == [n \in 0 .. 0 |-> 0]
    <3>1. g \in [0 .. 0 -> Nat] /\ g[0] = 0
      OBVIOUS
    <3>2. Sum(g, 0)
      BY <3>1
    <3>3. 0 \notin T
      BY <3>1, <3>2
    <3> QED
      BY <2>2, <3>3
  <2>4. k - 1 \in 0 .. l /\ k - 1 \notin T
    <3>1. k \in Nat /\ k <= l /\ k - 1 \in Nat /\ k - 1 <= l
      BY <2>1, <2>2, <2>3
    <3>2. ~(k <= k - 1)
      BY <3>1
    <3> HIDE DEF T
    <3> QED
      BY <2>2, <3>1, <3>2
  <2>5. PICK f \in [0 .. k - 1 -> Nat] : Sum(f, k - 1)
    BY <2>4
  <2> DEFINE h == [n \in 0 .. k |-> IF n = k THEN f[k - 1] + cost[k - 1] ELSE f[n]]
  <2>6. h \in [0 .. k -> Nat] /\ Sum(h, k)
    <3>1. /\ k \in Nat /\ k - 1 \in 0 .. l - 1 /\ 0 \in 0 .. k - 1
          /\ k - 1 \in 0 .. k - 1
      BY <2>1, <2>2, <2>3, <2>4
    <3>2. cost[k - 1] \in Nat /\ f[k - 1] \in Nat
      BY <2>5, <3>1
    <3>3. h \in [0 .. k -> Nat]
      <4>1. ASSUME NEW n \in 0 .. k, n # k
            PROVE  f[n] \in Nat
        BY <2>5, <3>1, <4>1
      <4> QED
        BY <3>2, <4>1
    <3>4. h[k] = f[k - 1] + cost[k - 1] /\ \A n \in 0 .. k - 1 : h[n] = f[n]
      BY <3>1
    <3> HIDE DEF h
    <3>5. h[0] = 0
      BY <2>5, <3>1, <3>4
    <3>6. ASSUME NEW n \in 1 .. k
          PROVE  h[n] = h[n - 1] + cost[n - 1]
      <4>1. CASE n = k
        BY <3>1, <3>4, <4>1
      <4>2. CASE n # k
        <5>1. n \in 1 .. k - 1 /\ n \in 0 .. k - 1 /\ n - 1 \in 0 .. k - 1
          BY <3>1, <4>2
        <5> QED
          BY <2>5, <3>4, <5>1
      <4> QED
        BY <4>1, <4>2
    <3> QED
      BY <3>3, <3>5, <3>6
  <2> QED
    BY <2>2, <2>6
<1>2. l \notin T
  BY <1>1
<1>3. PICK f \in [0 .. l -> Nat] : Sum(f, l)
  <2>1. l \in 0 .. l
    OBVIOUS
  <2> QED
    BY <1>2, <2>1
<1>4. f = [n \in 0 .. l |-> f[n]]
  BY <1>3
<1>5. ASSUME NEW n \in 0 .. l
      PROVE  f[n] = IF n = 0 THEN 0 ELSE f[n - 1] + cost[n - 1]
  BY <1>3
<1>6. f = [n \in 0 .. l |-> IF n = 0 THEN 0 ELSE f[n - 1] + cost[n - 1]]
  BY <1>3, <1>5
<1> QED
  BY <1>6

LEMMA OccurrencesAre ==
  ASSUME NEW c \in Client, NEW by_tag \in BOOLEAN, NEW r, NEW e \in MapEvent
  PROVE  /\ Occurrences(c, by_tag, r, e)[0] = 0
         /\ \A n \in 0 .. Len(Model[c]) : Occurrences(c, by_tag, r, e)[n] \in Nat
         /\ \A n \in Operators(c) :
              Occurrences(c, by_tag, r, e)[n + 1] =
                Occurrences(c, by_tag, r, e)[n] +
                  IF RowIn(c, by_tag, n) = r THEN Cost(n, e) ELSE 0
<1> DEFINE l == Len(Model[c])
           cost == [n \in 0 .. l - 1 |-> IF RowIn(c, by_tag, n) = r THEN Cost(n, e) ELSE 0]
           f == Occurrences(c, by_tag, r, e)
<1>1. l \in Nat
  BY RunAssumption
<1>2. cost \in [0 .. l - 1 -> Nat]
  BY RunAssumption
<1>3. PICK g : g = [n \in 0 .. l |-> IF n = 0 THEN 0 ELSE g[n - 1] + cost[n - 1]]
  <2> HIDE DEF cost, l
  <2> QED
    BY <1>1, <1>2, SumExists
<1>4. \A n \in 0 .. l : n # 0 =>
        cost[n - 1] = IF RowIn(c, by_tag, n - 1) = r THEN Cost(n - 1, e) ELSE 0
  BY <1>1
<1>5. g = [n \in 0 .. l |-> IF n = 0 THEN 0 ELSE g[n - 1] +
             IF RowIn(c, by_tag, n - 1) = r THEN Cost(n - 1, e) ELSE 0]
  <2> HIDE DEF cost
  <2> QED
    BY <1>3, <1>4
<1>6. f = [n \in 0 .. l |-> IF n = 0 THEN 0 ELSE f[n - 1] +
             IF RowIn(c, by_tag, n - 1) = r THEN Cost(n - 1, e) ELSE 0]
  BY <1>5 DEF Occurrences
<1> HIDE DEF f
<1>7. f[0] = 0 /\ \A n \in 0 .. l - 1 : f[n + 1] = f[n] + cost[n]
  BY <1>1, <1>6
<1>8. \A n \in 0 .. l : f[n] \in Nat
  <2> DEFINE T == {n \in 0 .. l : f[n] \notin Nat}
  <2> SUFFICES ASSUME T # {} PROVE FALSE
    OBVIOUS
  <2>1. T \subseteq Nat
    OBVIOUS
  <2>2. PICK k \in T : \A t \in T : k <= t
    BY <2>1, Least
  <2>3. k # 0
    BY <1>7
  <2>4. k - 1 \in 0 .. l - 1 /\ k - 1 \notin T
    BY <1>1, <2>2, <2>3
  <2>5. f[k - 1] \in Nat /\ cost[k - 1] \in Nat /\ f[(k - 1) + 1] = f[k - 1] + cost[k - 1]
    <3>1. f[k - 1] \in Nat
      <4>1. k - 1 \in 0 .. l
        BY <1>1, <2>4
      <4> QED
        BY <2>4, <4>1
    <3> HIDE DEF cost
    <3>2. cost[k - 1] \in Nat
      BY <1>2, <2>4
    <3>3. f[(k - 1) + 1] = f[k - 1] + cost[k - 1]
      BY <1>7, <2>4
    <3> QED
      BY <3>1, <3>2, <3>3
  <2>6. (k - 1) + 1 = k
    BY <2>2
  <2> QED
    BY ONLY <2>2, <2>5, <2>6
<1> QED
  BY <1>7, <1>8 DEF f, Operators
-----------------------------------------------------------------------------
(* The inductive invariant *)

(* g_acc holds records, also in the slots that are not in use. *)
Acc == [in_use : BOOLEAN, complete : BOOLEAN, ops : Nat, events : Nat,
        next_event : Nat, tag_map : Seq(Tag), sum : Client \cup {None}]

(* A matrix in use is the one its client's handle names, of the size the    *)
(* client asked for; it is complete when all of its columns are measured.   *)
MatrixOK(id) ==
  LET a == g_acc[id]
  IN /\ handle[a.sum] = id
     /\ a.ops = job[a.sum].ops /\ a.events = job[a.sum].events
     /\ a.complete <=> a.next_event >= a.events

(* The owner of the PMU is a matrix in use, and its columns are measured.   *)
OwnerOK(id) ==
  /\ Live(id) /\ ready
  /\ ~g_acc[id].complete => want = PassRequest(g_acc[id])

PoolInv ==
  /\ g_acc \in [Id -> Acc]
  /\ \A id \in Id : Live(id) => MatrixOK(id)
  /\ \A id \in Id : owner = id => OwnerOK(id)

(* The operator that runs, and what has occurred since it began. *)
PlaceInv ==
  /\ op <= Len(Model[who])
  /\ pc = "idle" => op = 0
  /\ pc \in {"begin", "body", "end", "gap"} => op < Len(Model[who])
  /\ pc = "body" /\ HasRow(handle[who], row) => tally = Zeros
  /\ pc = "end" /\ HasRow(handle[who], row) =>
       \A e \in MapEvent : tally[e] = Cost(op, e)

(* Without lapses, a handle is the client's own. *)
HandleInv ==
  MaxLapses = 0 => \A c \in Client : handle[c] \in {None, NoHandle} \/ Owns(c)

(* The table of the tags of c's matrix is that of its own model. *)
Sound(c) == Owns(c) /\ (MaxLapses = 0 \/ ~(MapEvent \subseteq spoiled[c]))

(* Operators that c's present inference has found the row of. *)
Seen(c) == IF pc = "idle" \/ who # c THEN 0
           ELSE IF pc = "row" THEN op ELSE op + 1

(* Row r of c's matrix has its entry in tag_map. *)
Entered(c, r) == r < g_acc[handle[c]].ops => r < Len(g_acc[handle[c]].tag_map)

TagInv(c) ==
  Sound(c) /\ job[c].by_tag =>
    /\ \A i \in DOMAIN g_acc[handle[c]].tag_map :
         \E n \in Operators(c) :
           /\ RowOf(c, n) = i - 1
           /\ Text(g_acc[handle[c]].tag_map[i]) = TextOf(c, n)
    /\ \A n \in Operators(c) :
         n < Seen(c) \/ (MaxLapses = 0 /\ g_acc[handle[c]].next_event > 0) =>
           Entered(c, RowOf(c, n))

(* The row in hand is the one of the operator that runs. *)
RowInv(c) ==
  Sound(c) /\ who = c /\ pc \in {"begin", "body", "end"} =>
    IF RowOf(c, op) < g_acc[handle[c]].ops THEN row = RowOf(c, op)
                                           ELSE row >= g_acc[handle[c]].ops

(* Operators that c's present inference has measured. *)
Done(c) == IF pc = "idle" \/ who # c THEN 0
           ELSE IF pc = "gap" THEN op + 1 ELSE op

(* Operators whose occurrences of e are in c's matrix. *)
Measured(c, e) ==
  LET a == g_acc[handle[c]]
  IN IF e < a.next_event THEN Len(Model[c])
     ELSE IF e \in PassColumns(a) THEN Done(c) ELSE 0

CellsInv(c) ==
  Owns(c) =>
    LET a == g_acc[handle[c]]
    IN \A r \in 0 .. a.ops - 1, e \in 0 .. a.events - 1 :
         e \notin spoiled[c] =>
           buffer[c][Cell(a, r, e)] =
             Occurrences(c, job[c].by_tag, r, e)[Measured(c, e)] % Word

(* One matrix, a backend that does not fail and no lapses: nothing goes     *)
(* wrong, and the matrix owns the PMU.                                      *)
Steady == MaxMatrices = 1 /\ ~BackendFails /\ MaxLapses = 0

SteadyInv ==
  Steady => /\ \A c \in Client : spoiled[c] = {}
            /\ \A id \in Id : Live(id) => owner = id

AccInv ==
  /\ TypeOK
  /\ PoolInv
  /\ PlaceInv
  /\ HandleInv
  /\ \A c \in Client : TagInv(c) /\ RowInv(c) /\ CellsInv(c)
  /\ SteadyInv
-----------------------------------------------------------------------------
(* Facts of a state *)

MeterType ==
  /\ ready \in BOOLEAN /\ owner \in Config \cup {None}
  /\ want \in [Slot -> Request] /\ tally \in [MapEvent -> Nat]

PoolType == AccOK /\ g_acc \in [Id -> Acc]

LEMMA Bounds ==
  /\ MapSize \in Nat /\ MapSize > 0 /\ MapEvent = 0 .. MapSize - 1
  /\ EventsPerRun \in Nat /\ EventsPerRun > 0
  /\ NoRow \in Nat /\ MaxOps \in Nat /\ MaxOps <= NoRow /\ BufferSize \in Nat
  /\ MaxMatrices \in Nat /\ Id \subseteq Nat /\ Slot \subseteq Nat
  /\ Id \subseteq Config /\ None \notin Id /\ NoHandle \notin Id
<1>1. NoRow \in Nat /\ NoHandle \in Nat
  BY SMT DEF NoRow, NoHandle
<1>2. /\ MapSize \in Nat /\ MapSize > 0 /\ MapEvent = 0 .. MapSize - 1
      /\ EventsPerRun \in Nat /\ EventsPerRun > 0 /\ BufferSize \in Nat
  BY AccumulatorAssumption
<1>3. MaxOps \in Nat /\ MaxOps <= NoRow
  BY <1>1, AccumulatorAssumption
<1>4. MaxMatrices \in Nat /\ MaxMatrices < NoHandle
  BY <1>1, AccumulatorAssumption
<1>5. Id \subseteq Nat /\ NoHandle \notin Id
  BY <1>1, <1>4 DEF Id
<1>6. Slot \subseteq Nat
  BY <1>2, AccumulatorAssumption
<1>7. Id \subseteq Config /\ None \notin Id
  BY AccumulatorAssumption, MeterAssumption
<1> QED
  BY <1>1, <1>2, <1>3, <1>4, <1>5, <1>6, <1>7

LEMMA NotLive == ~Live(None) /\ ~Live(NoHandle)
BY Bounds DEF Live

(* A matrix in use. *)
LEMMA LiveFacts ==
  ASSUME TypeOK, PoolInv, NEW h, Live(h)
  PROVE  /\ h \in Id /\ g_acc[h] \in Acc /\ g_acc[h].in_use
         /\ g_acc[h].ops \in 1 .. MaxOps
         /\ g_acc[h].events \in 1 .. MapSize
         /\ g_acc[h].next_event \in Nat
         /\ g_acc[h].next_event <= g_acc[h].events - 1 + EventsPerRun
         /\ g_acc[h].tag_map \in Seq(Tag)
         /\ Len(g_acc[h].tag_map) <= g_acc[h].ops
         /\ g_acc[h].sum \in Client
         /\ handle[g_acc[h].sum] = h
         /\ g_acc[h].ops = job[g_acc[h].sum].ops
         /\ g_acc[h].events = job[g_acc[h].sum].events
         /\ g_acc[h].complete <=> g_acc[h].next_event >= g_acc[h].events
         /\ g_acc[h].ops * g_acc[h].events \in Nat
         /\ g_acc[h].ops * g_acc[h].events <= BufferSize
<1>1. h \in Id /\ g_acc[h].in_use /\ MatrixOK(h) /\ g_acc[h] \in Acc
  BY DEF PoolInv, Live
<1>2. g_acc[h] # Unused
  BY <1>1 DEF Unused
<1>3. /\ g_acc[h].ops \in 1 .. MaxOps
      /\ g_acc[h].events \in 1 .. MapSize
      /\ g_acc[h].next_event \in 0 .. g_acc[h].events - 1 + EventsPerRun
      /\ g_acc[h].tag_map \in Seq(Tag)
      /\ Len(g_acc[h].tag_map) <= g_acc[h].ops
      /\ g_acc[h].sum \in Client
  BY <1>1, <1>2 DEF TypeOK, AccOK
<1>4. /\ handle[g_acc[h].sum] = h
      /\ g_acc[h].ops = job[g_acc[h].sum].ops
      /\ g_acc[h].events = job[g_acc[h].sum].events
      /\ g_acc[h].complete <=> g_acc[h].next_event >= g_acc[h].events
  BY <1>1 DEF MatrixOK
<1>5. job[g_acc[h].sum] \in Job
  BY <1>3 DEF TypeOK
<1>6. g_acc[h].ops * g_acc[h].events <= BufferSize
  <2>1. job[g_acc[h].sum].ops * job[g_acc[h].sum].events <= BufferSize
    BY <1>5, RunAssumption
  <2> QED
    BY ONLY <1>4, <2>1
<1>7. g_acc[h].ops * g_acc[h].events \in Nat
  <2>1. g_acc[h].ops \in Nat /\ g_acc[h].events \in Nat
    BY <1>3, Bounds
  <2>2. \A m, n \in Nat : m * n \in Nat
    OBVIOUS
  <2> QED
    BY ONLY <2>1, <2>2, Zenon
<1>8. g_acc[h].next_event \in Nat
      /\ g_acc[h].next_event <= g_acc[h].events - 1 + EventsPerRun
  BY <1>3, Bounds
<1> QED
  BY <1>1, <1>3, <1>4, <1>6, <1>7, <1>8

LEMMA OwnsFacts ==
  ASSUME TypeOK, PoolInv, NEW c \in Client, Owns(c)
  PROVE  Live(handle[c]) /\ handle[c] \in Id /\ g_acc[handle[c]].sum = c
BY DEF Owns, Live

(* The columns of a pass are columns of the matrix; a complete matrix has   *)
(* none left.                                                               *)
LEMMA Columns ==
  ASSUME NEW a, a.next_event \in Nat, a.events \in Nat
  PROVE  /\ PassColumns(a) \subseteq a.next_event .. a.events - 1
         /\ \A e \in PassColumns(a) : e - a.next_event \in 0 .. EventsPerRun - 1
         /\ \A e \in 0 .. a.events - 1 :
              e \in PassColumns(a) <=>
                a.next_event <= e /\ e < a.next_event + EventsPerRun
         /\ a.next_event >= a.events => PassColumns(a) = {}
<1> DEFINE n == a.next_event
           E == a.events
           last == Lesser(n + EventsPerRun, E)
<1>1. n \in Nat /\ E \in Nat /\ EventsPerRun \in Nat
  BY Bounds
<1>2. PassColumns(a) = n .. last - 1
  BY DEF PassColumns
<1>3. /\ last = n + EventsPerRun \/ last = E
      /\ last <= n + EventsPerRun /\ last <= E
  BY <1>1 DEF Lesser
<1> HIDE DEF n, E, last
<1>4. last \in Nat
  BY <1>1, <1>3
<1>5. n .. last - 1 \subseteq n .. E - 1
  BY <1>1, <1>3, <1>4
<1>6. \A e \in n .. last - 1 : e - n \in 0 .. EventsPerRun - 1
  BY <1>1, <1>3, <1>4
<1>7. \A e \in 0 .. E - 1 : e \in n .. last - 1 <=> n <= e /\ e < n + EventsPerRun
  BY <1>1, <1>3, <1>4
<1>8. n >= E => n .. last - 1 = {}
  BY <1>1, <1>3, <1>4
<1> QED
  BY <1>2, <1>5, <1>6, <1>7, <1>8 DEF n, E

LEMMA PassRequestType ==
  ASSUME NEW a, a.next_event \in Nat, a.events \in 0 .. MapSize
  PROVE  PassRequest(a) \in [Slot -> Request]
<1>1. Nothing \in [Slot -> Request]
  <2>1. (CHOOSE e \in MapEvent : TRUE) \in MapEvent
    BY MeterAssumption
  <2> QED
    BY <2>1 DEF Nothing, Request
<1>2. ASSUME NEW s \in Slot, a.next_event + s < a.events
      PROVE  [enabled |-> TRUE, eventId |-> a.next_event + s,
              counterSize |-> 32] \in Request
  <2>1. a.next_event + s \in MapEvent
    BY <1>2, Bounds
  <2> QED
    BY <2>1 DEF Request
<1> QED
  BY <1>1, <1>2 DEF PassRequest

(* The steps of the meter keep its type. *)
LEMMA MeterSteps ==
  ASSUME MeterType
  PROVE  /\ \A id \in Id, w \in [Slot -> Request] : Program(id, w) => MeterType'
         /\ \A id \in Id : Forget(id) => MeterType'
         /\ Disturb => MeterType'
         /\ Zero => MeterType'
         /\ \A work \in [MapEvent -> Nat] : Accrue(work) => MeterType'
         /\ UNCHANGED meter => MeterType'
<1>1. Zeros \in [MapEvent -> Nat]
  BY DEF Zeros
<1>2. ASSUME NEW id \in Id, NEW w \in [Slot -> Request], Program(id, w)
      PROVE  MeterType'
  BY <1>1, <1>2, Bounds DEF Program, MeterType
<1>3. ASSUME Disturb PROVE MeterType'
  <2>1. Nothing \in [Slot -> Request]
    <3>1. (CHOOSE e \in MapEvent : TRUE) \in MapEvent
      BY MeterAssumption
    <3> QED
      BY <3>1 DEF Nothing, Request
  <2> QED
    BY <1>3, <2>1 DEF Disturb, MeterType
<1>4. ASSUME UNCHANGED meter PROVE MeterType'
  BY <1>4 DEF meter, MeterType
<1>5. ASSUME Zero PROVE MeterType'
  BY <1>1, <1>5 DEF Zero, MeterType
<1>6. ASSUME NEW work \in [MapEvent -> Nat], Accrue(work) PROVE MeterType'
  BY <1>6 DEF Accrue, MeterType
<1>7. ASSUME NEW id \in Id, Forget(id) PROVE MeterType'
  BY <1>3, <1>4, <1>7 DEF Forget
<1> QED
  BY <1>2, <1>3, <1>4, <1>5, <1>6, <1>7

LEMMA Typed == TypeOK => MeterType
BY DEF TypeOK, MeterType

-----------------------------------------------------------------------------
(* What a step leaves alone *)

(* If c still has a matrix it is the same one, measured as far as before.   *)
Kept(c) ==
  Owns(c)' =>
    /\ Owns(c) /\ handle'[c] = handle[c] /\ job'[c] = job[c]
    /\ g_acc'[handle[c]].ops = g_acc[handle[c]].ops
    /\ g_acc'[handle[c]].events = g_acc[handle[c]].events
    /\ g_acc'[handle[c]].next_event = g_acc[handle[c]].next_event
    /\ spoiled[c] \subseteq spoiled'[c]

LEMMA TagFrame ==
  ASSUME NEW c, TagInv(c), Kept(c), Seen(c) \in Nat, Seen(c)' \in Nat,
         Seen(c)' <= Seen(c),
         g_acc'[handle[c]].tag_map = g_acc[handle[c]].tag_map
  PROVE  TagInv(c)'
<1> SUFFICES ASSUME Sound(c)', job'[c].by_tag
             PROVE  TagInv(c)'
  BY DEF TagInv
<1>1. /\ handle'[c] = handle[c] /\ job'[c] = job[c]
      /\ g_acc'[handle[c]].ops = g_acc[handle[c]].ops
      /\ g_acc'[handle[c]].next_event = g_acc[handle[c]].next_event
      /\ Sound(c)
  BY DEF Sound, Kept
<1>2. /\ \A i \in DOMAIN g_acc[handle[c]].tag_map :
           \E n \in Operators(c) :
             /\ RowOf(c, n) = i - 1
             /\ Text(g_acc[handle[c]].tag_map[i]) = TextOf(c, n)
      /\ \A n \in Operators(c) :
           n < Seen(c) \/ (MaxLapses = 0 /\ g_acc[handle[c]].next_event > 0) =>
             Entered(c, RowOf(c, n))
  BY <1>1 DEF TagInv
<1>3. \A n : RowOf(c, n)' = RowOf(c, n)
  BY <1>1 DEF RowOf
<1>4. \A r : Entered(c, r)' <=> Entered(c, r)
  BY <1>1 DEF Entered
<1>5. \A i \in DOMAIN g_acc'[handle'[c]].tag_map :
        \E n \in Operators(c) :
          /\ RowOf(c, n)' = i - 1
          /\ Text(g_acc'[handle'[c]].tag_map[i]) = TextOf(c, n)
  BY <1>1, <1>2, <1>3
<1>6. \A n \in Operators(c) :
        n < Seen(c)' \/ (MaxLapses = 0 /\ g_acc'[handle'[c]].next_event > 0) =>
          Entered(c, RowOf(c, n))'
  BY <1>1, <1>2, <1>3, <1>4 DEF Operators, Entered
<1> QED
  BY <1>5, <1>6 DEF TagInv

LEMMA SeenNat ==
  ASSUME TypeOK, NEW c
  PROVE  Seen(c) \in Nat /\ Done(c) \in Nat
BY DEF TypeOK, Seen, Done

LEMMA CellsFrame ==
  ASSUME NEW c, CellsInv(c), Kept(c), Done(c)' = Done(c),
         buffer'[c] = buffer[c]
  PROVE  CellsInv(c)'
<1> SUFFICES ASSUME Owns(c)'
             PROVE  CellsInv(c)'
  BY DEF CellsInv
<1>1. /\ Owns(c) /\ handle'[c] = handle[c] /\ job'[c] = job[c]
      /\ g_acc'[handle[c]].ops = g_acc[handle[c]].ops
      /\ g_acc'[handle[c]].events = g_acc[handle[c]].events
      /\ g_acc'[handle[c]].next_event = g_acc[handle[c]].next_event
      /\ spoiled[c] \subseteq spoiled'[c]
  BY DEF Kept
<1>2. \A e : Measured(c, e)' = Measured(c, e)
  BY <1>1 DEF Measured, PassColumns
<1> QED
  BY <1>1, <1>2 DEF CellsInv, Cell

LEMMA RowFrame ==
  ASSUME NEW c, RowInv(c), Kept(c), row' = row, op' = op, who' = who,
         pc' \in {"begin", "body", "end"} => pc \in {"begin", "body", "end"}
  PROVE  RowInv(c)'
<1> SUFFICES ASSUME Sound(c)', who = c, pc' \in {"begin", "body", "end"}
             PROVE  RowInv(c)'
  BY DEF RowInv
<1>1. /\ Sound(c) /\ handle'[c] = handle[c] /\ job'[c] = job[c]
      /\ g_acc'[handle[c]].ops = g_acc[handle[c]].ops
  BY DEF Sound, Kept
<1>2. RowOf(c, op)' = RowOf(c, op)
  BY <1>1 DEF RowOf
<1>3. IF RowOf(c, op) < g_acc[handle[c]].ops THEN row = RowOf(c, op)
                                             ELSE row >= g_acc[handle[c]].ops
  BY <1>1 DEF RowInv
<1> QED
  BY <1>1, <1>2, <1>3 DEF RowInv

(* Matrices that a step leaves alone stay as they are. *)
LEMMA MatrixFrame ==
  ASSUME NEW id, MatrixOK(id), g_acc'[id] = g_acc[id],
         handle'[g_acc[id].sum] = handle[g_acc[id].sum],
         job'[g_acc[id].sum] = job[g_acc[id].sum]
  PROVE  MatrixOK(id)'
BY DEF MatrixOK

LEMMA OwnerFrame ==
  ASSUME NEW id, OwnerOK(id), g_acc'[id] = g_acc[id], ready' = ready, want' = want
  PROVE  OwnerOK(id)'
BY DEF OwnerOK, Live, PassRequest

(* Nothing but the place and the counts has moved. *)
SamePool == UNCHANGED <<g_acc, handle, job, ready, owner, want, spoiled, lapses>>

LEMMA PoolFrame ==
  ASSUME PoolInv, HandleInv, SteadyInv, SamePool
  PROVE  PoolInv' /\ HandleInv' /\ SteadyInv' /\ \A c : Kept(c)
<1>1. PoolInv'
  <2>1. \A id \in Id : Live(id)' => MatrixOK(id)'
    BY MatrixFrame DEF PoolInv, SamePool, Live
  <2>2. \A id \in Id : owner' = id => OwnerOK(id)'
    BY OwnerFrame DEF PoolInv, SamePool
  <2> QED
    BY <2>1, <2>2 DEF PoolInv, SamePool
<1>2. HandleInv' /\ SteadyInv'
  BY DEF HandleInv, SteadyInv, Owns, Live, SamePool
<1>3. \A c : Kept(c)
  BY DEF Kept, Owns, Live, SamePool
<1> QED
  BY <1>1, <1>2, <1>3

-----------------------------------------------------------------------------
(* Changing one field of a matrix *)

LEMMA SetInUse ==
  ASSUME NEW x \in Acc, NEW v \in BOOLEAN
  PROVE  LET y == [x EXCEPT !.in_use = v]
         IN /\ y \in Acc /\ y.in_use = v
            /\ y.complete = x.complete /\ y.ops = x.ops /\ y.events = x.events
            /\ y.next_event = x.next_event /\ y.tag_map = x.tag_map
            /\ y.sum = x.sum
BY DEF Acc

LEMMA SetComplete ==
  ASSUME NEW x \in Acc, NEW v \in BOOLEAN
  PROVE  LET y == [x EXCEPT !.complete = v]
         IN /\ y \in Acc /\ y.complete = v
            /\ y.in_use = x.in_use /\ y.ops = x.ops /\ y.events = x.events
            /\ y.next_event = x.next_event /\ y.tag_map = x.tag_map
            /\ y.sum = x.sum
BY DEF Acc

LEMMA SetOps ==
  ASSUME NEW x \in Acc, NEW v \in Nat
  PROVE  LET y == [x EXCEPT !.ops = v]
         IN /\ y \in Acc /\ y.ops = v
            /\ y.in_use = x.in_use /\ y.complete = x.complete
            /\ y.events = x.events /\ y.next_event = x.next_event
            /\ y.tag_map = x.tag_map /\ y.sum = x.sum
BY DEF Acc

LEMMA SetEvents ==
  ASSUME NEW x \in Acc, NEW v \in Nat
  PROVE  LET y == [x EXCEPT !.events = v]
         IN /\ y \in Acc /\ y.events = v
            /\ y.in_use = x.in_use /\ y.complete = x.complete
            /\ y.ops = x.ops /\ y.next_event = x.next_event
            /\ y.tag_map = x.tag_map /\ y.sum = x.sum
BY DEF Acc

LEMMA SetNextEvent ==
  ASSUME NEW x \in Acc, NEW v \in Nat
  PROVE  LET y == [x EXCEPT !.next_event = v]
         IN /\ y \in Acc /\ y.next_event = v
            /\ y.in_use = x.in_use /\ y.complete = x.complete
            /\ y.ops = x.ops /\ y.events = x.events
            /\ y.tag_map = x.tag_map /\ y.sum = x.sum
BY DEF Acc

LEMMA SetTagMap ==
  ASSUME NEW x \in Acc, NEW v \in Seq(Tag)
  PROVE  LET y == [x EXCEPT !.tag_map = v]
         IN /\ y \in Acc /\ y.tag_map = v
            /\ y.in_use = x.in_use /\ y.complete = x.complete
            /\ y.ops = x.ops /\ y.events = x.events
            /\ y.next_event = x.next_event /\ y.sum = x.sum
BY DEF Acc

LEMMA SetSum ==
  ASSUME NEW x \in Acc, NEW v \in Client
  PROVE  LET y == [x EXCEPT !.sum = v]
         IN /\ y \in Acc /\ y.sum = v
            /\ y.in_use = x.in_use /\ y.complete = x.complete
            /\ y.ops = x.ops /\ y.events = x.events
            /\ y.next_event = x.next_event /\ y.tag_map = x.tag_map
BY DEF Acc

LEMMA UnusedIs ==
  /\ Unused \in Acc /\ ~Unused.in_use /\ ~Unused.complete
  /\ Unused.next_event = 0 /\ Unused.tag_map = <<>>
<1>1. <<>> \in Seq(Tag)
  OBVIOUS
<1> QED
  BY <1>1 DEF Unused, Acc

-----------------------------------------------------------------------------
(* The invariant holds initially *)

LEMMA InitInv ==
  ASSUME Init PROVE AccInv
<1>1. \A id \in Id : g_acc[id] = Unused
  BY DEF Init, AccumulatorInit
<1>2. \A h : ~Live(h)
  BY <1>1 DEF Live, Unused
<1>3. \A c : ~Owns(c)
  BY <1>2 DEF Owns
<1>4. TypeOK
  <2>1. AccOK
    BY <1>1 DEF AccOK
  <2>2. MeterType
    <3>1. (CHOOSE e \in MapEvent : TRUE) \in MapEvent
      BY MeterAssumption
    <3>2. Nothing \in [Slot -> Request] /\ Zeros \in [MapEvent -> Nat]
      BY <3>1 DEF Nothing, Request, Zeros
    <3> QED
      BY <3>2 DEF Init, AccumulatorInit, MeterInit, MeterType
  <2>3. (CHOOSE j \in Job : TRUE) \in Job
    BY RunAssumption
  <2>4. buffer \in [Client -> [0 .. BufferSize - 1 -> 0 .. Word - 1]]
    BY WordNat DEF Init, AccumulatorInit
  <2>5. /\ handle \in [Client -> Id \cup {NoHandle, None}]
        /\ row \in 0 .. NoRow
        /\ pc \in {"idle", "row", "begin", "body", "end", "gap"}
        /\ who \in Client /\ op \in Nat
        /\ spoiled \in [Client -> SUBSET MapEvent]
        /\ lapses \in 0 .. MaxLapses
    BY RunAssumption, Bounds DEF Init, AccumulatorInit
  <2>6. job \in [Client -> Job]
    BY <2>3 DEF Init
  <2> QED
    BY <2>1, <2>2, <2>4, <2>5, <2>6 DEF TypeOK, MeterType
<1>5. PoolInv
  <2>1. Unused \in Acc
    BY UnusedIs
  <2>2. g_acc \in [Id -> Acc]
    BY <2>1 DEF Init, AccumulatorInit
  <2>3. \A id \in Id : owner # id
    BY Bounds DEF Init, AccumulatorInit, MeterInit
  <2> QED
    BY <1>2, <2>2, <2>3 DEF PoolInv
<1>6. PlaceInv
  BY <1>4, RunAssumption DEF Init, PlaceInv, TypeOK
<1>7. HandleInv
  BY DEF Init, AccumulatorInit, HandleInv
<1>8. \A c \in Client : TagInv(c) /\ RowInv(c) /\ CellsInv(c)
  BY <1>3 DEF TagInv, RowInv, CellsInv, Sound
<1>9. SteadyInv
  BY <1>2 DEF Init, SteadyInv
<1> QED
  BY <1>4, <1>5, <1>6, <1>7, <1>8, <1>9 DEF AccInv

-----------------------------------------------------------------------------
(* The steps of an inference that leave the pool alone *)

LEMMA InferInv ==
  ASSUME AccInv, NEW c \in Client, Infer(c) PROVE AccInv'
<1> USE DEF AccInv
<1>1. SamePool /\ buffer' = buffer /\ row' = row /\ pc = "idle"
      /\ pc' = "row" /\ who' = c /\ op' = 0
  BY DEF Infer, accVars, meter, SamePool
<1>2. TypeOK'
  BY <1>1 DEF TypeOK, AccOK, Infer, accVars, meter
<1>3. PoolInv' /\ HandleInv' /\ SteadyInv' /\ \A d : Kept(d)
  BY <1>1, PoolFrame
<1>4. PlaceInv'
  BY <1>1, RunAssumption DEF PlaceInv
<1>5. ASSUME NEW d \in Client
      PROVE  TagInv(d)' /\ RowInv(d)' /\ CellsInv(d)'
  <2>1. Seen(d) = 0 /\ Seen(d)' = 0 /\ Done(d) = 0 /\ Done(d)' = 0
    BY <1>1 DEF Seen, Done
  <2>2. TagInv(d)'
    BY <1>1, <1>3, <2>1, TagFrame DEF SamePool
  <2>3. CellsInv(d)'
    BY <1>1, <1>3, <2>1, CellsFrame
  <2> QED
    BY <1>1, <2>2, <2>3 DEF RowInv
<1> QED
  BY <1>2, <1>3, <1>4, <1>5

LEMMA OpBeginInv ==
  ASSUME AccInv, OpBegin PROVE AccInv'
<1> USE DEF AccInv
<1>1. /\ SamePool /\ buffer' = buffer /\ row' = row /\ who' = who /\ op' = op
      /\ pc = "begin" /\ pc' = "body"
      /\ HasRow(handle[who], row) => Zero
      /\ ~HasRow(handle[who], row) => UNCHANGED meter
  BY DEF OpBegin, nsx_pmu_accm_op_begin, Zero, accVars, meter, SamePool
<1>2. TypeOK'
  <2>1. MeterType'
    BY <1>1, Typed, MeterSteps
  <2> QED
    BY <1>1, <2>1 DEF TypeOK, AccOK, MeterType, SamePool
<1>3. PoolInv' /\ HandleInv' /\ SteadyInv' /\ \A d : Kept(d)
  BY <1>1, PoolFrame
<1>4. PlaceInv'
  BY <1>1 DEF PlaceInv, HasRow, Live, Zero, SamePool
<1>5. ASSUME NEW d \in Client
      PROVE  TagInv(d)' /\ RowInv(d)' /\ CellsInv(d)'
  <2>1. Seen(d)' = Seen(d) /\ Done(d)' = Done(d) /\ Seen(d) \in Nat
    BY <1>1, SeenNat DEF Seen, Done
  <2>2. TagInv(d)'
    BY <1>1, <1>3, <2>1, TagFrame DEF SamePool
  <2>3. CellsInv(d)'
    BY <1>1, <1>3, <2>1, CellsFrame
  <2>4. RowInv(d)'
    BY <1>1, <1>3, RowFrame
  <2> QED
    BY <2>2, <2>3, <2>4
<1> QED
  BY <1>2, <1>3, <1>4, <1>5

LEMMA RunOpInv ==
  ASSUME AccInv, RunOp PROVE AccInv'
<1> USE DEF AccInv
<1> DEFINE work == [e \in MapEvent |-> Cost(op, e)]
<1>1. /\ SamePool /\ buffer' = buffer /\ row' = row /\ who' = who /\ op' = op
      /\ pc = "body" /\ pc' = "end" /\ Accrue(work)
  BY DEF RunOp, Accrue, accVars, SamePool
<1>2. op < Len(Model[who]) /\ op \in Nat /\ who \in Client
  BY <1>1 DEF PlaceInv, TypeOK
<1>3. work \in [MapEvent -> Nat]
  BY <1>2, RunAssumption
<1>4. TypeOK'
  <2>1. MeterType'
    BY <1>1, <1>3, Typed, MeterSteps
  <2> QED
    BY <1>1, <2>1 DEF TypeOK, AccOK, MeterType, SamePool
<1>5. PoolInv' /\ HandleInv' /\ SteadyInv' /\ \A d : Kept(d)
  BY <1>1, PoolFrame
<1>6. PlaceInv'
  <2>1. ASSUME HasRow(handle[who], row), NEW e \in MapEvent
        PROVE  tally'[e] = Cost(op, e)
    <3>1. tally[e] = 0
      BY <1>1, <2>1 DEF PlaceInv, Zeros
    <3>2. work[e] = Cost(op, e) /\ work[e] \in Nat
      BY <1>3
    <3> HIDE DEF work
    <3>3. tally'[e] = tally[e] + work[e]
      BY <1>1 DEF Accrue
    <3> QED
      BY <3>1, <3>2, <3>3
  <2> QED
    BY <1>1, <2>1 DEF PlaceInv, HasRow, Live, SamePool
<1>7. ASSUME NEW d \in Client
      PROVE  TagInv(d)' /\ RowInv(d)' /\ CellsInv(d)'
  <2>1. Seen(d)' = Seen(d) /\ Done(d)' = Done(d) /\ Seen(d) \in Nat
    BY <1>1, SeenNat DEF Seen, Done
  <2>2. TagInv(d)'
    BY <1>1, <1>5, <2>1, TagFrame DEF SamePool
  <2>3. CellsInv(d)'
    BY <1>1, <1>5, <2>1, CellsFrame
  <2>4. RowInv(d)'
    BY <1>1, <1>5, RowFrame
  <2> QED
    BY <2>2, <2>3, <2>4
<1> QED
  BY <1>4, <1>5, <1>6, <1>7

LEMMA BetweenOpsInv ==
  ASSUME AccInv, BetweenOps PROVE AccInv'
<1> USE DEF AccInv
<1> DEFINE work == [e \in MapEvent |-> Overhead(e)]
<1>1. /\ SamePool /\ buffer' = buffer /\ row' = row /\ who' = who
      /\ pc = "gap" /\ pc' = "row" /\ op' = op + 1 /\ Accrue(work)
  BY DEF BetweenOps, Accrue, accVars, SamePool
<1>2. op < Len(Model[who]) /\ op \in Nat /\ Len(Model[who]) \in Nat
  BY <1>1, RunAssumption DEF PlaceInv, TypeOK
<1>3. work \in [MapEvent -> Nat]
  BY RunAssumption
<1>4. TypeOK'
  <2>1. MeterType'
    BY <1>1, <1>3, Typed, MeterSteps
  <2> QED
    BY <1>1, <2>1 DEF TypeOK, AccOK, MeterType, SamePool
<1>5. PoolInv' /\ HandleInv' /\ SteadyInv' /\ \A d : Kept(d)
  BY <1>1, PoolFrame
<1>6. PlaceInv'
  BY <1>1, <1>2 DEF PlaceInv
<1>7. ASSUME NEW d \in Client
      PROVE  TagInv(d)' /\ RowInv(d)' /\ CellsInv(d)'
  <2>1. Seen(d)' = Seen(d) /\ Done(d)' = Done(d) /\ Seen(d) \in Nat
    BY <1>1, SeenNat DEF Seen, Done
  <2>2. TagInv(d)'
    BY <1>1, <1>5, <2>1, TagFrame DEF SamePool
  <2>3. CellsInv(d)'
    BY <1>1, <1>5, <2>1, CellsFrame
  <2> QED
    BY <1>1, <2>2, <2>3 DEF RowInv
<1> QED
  BY <1>4, <1>5, <1>6, <1>7

-----------------------------------------------------------------------------
(* Creating and destroying a matrix *)

LEMMA RefusedInv ==
  ASSUME AccInv, NEW c \in Client, NEW j \in Job, Create(c, j),
         handle' = [handle EXCEPT ![c] = NoHandle],
         UNCHANGED <<g_acc, buffer, meter>>
  PROVE  AccInv'
<1> USE DEF AccInv
<1>1. /\ job' = [job EXCEPT ![c] = j] /\ pc = "idle" /\ ~Owns(c)
      /\ UNCHANGED <<row, pc, who, op, spoiled, lapses>>
      /\ UNCHANGED <<ready, owner, want, tally>>
  BY DEF Create, inference, meter
<1>2. /\ job \in [Client -> Job]
      /\ handle \in [Client -> Id \cup {NoHandle, None}]
  BY DEF TypeOK
<1>3. /\ handle'[c] = NoHandle /\ job'[c] = j
      /\ \A d \in Client : d # c => handle'[d] = handle[d] /\ job'[d] = job[d]
  BY <1>1, <1>2
<1>4. ~Owns(c)'
  BY <1>3, Bounds DEF Owns, Live
<1>5. \A id : Live(id)' <=> Live(id)
  BY DEF Live
<1>6. TypeOK'
  BY <1>1, <1>2 DEF TypeOK, AccOK
<1>7. PoolInv'
  <2>1. ASSUME NEW id \in Id, Live(id) PROVE MatrixOK(id)'
    <3>1. MatrixOK(id) /\ g_acc[id].sum \in Client
      BY <2>1, LiveFacts DEF PoolInv
    <3>2. g_acc[id].sum # c
      BY <1>1, <2>1, <3>1 DEF Owns, MatrixOK
    <3> QED
      BY <1>3, <3>1, <3>2, MatrixFrame
  <2>2. \A id \in Id : owner' = id => OwnerOK(id)'
    BY <1>1, OwnerFrame DEF PoolInv
  <2> QED
    BY <1>5, <2>1, <2>2 DEF PoolInv
<1>8. PlaceInv'
  BY <1>1 DEF PlaceInv
<1>9. \A d \in Client : d # c => (Owns(d)' <=> Owns(d))
  BY <1>3 DEF Owns, Live
<1>10. HandleInv' /\ SteadyInv'
  BY <1>1, <1>3, <1>9 DEF HandleInv, SteadyInv, Live
<1>11. ASSUME NEW d \in Client, d # c
       PROVE  TagInv(d)' /\ RowInv(d)' /\ CellsInv(d)'
  <2>1. Kept(d)
    BY <1>1, <1>3, <1>9, <1>11 DEF Kept
  <2>2. Seen(d) = 0 /\ Seen(d)' = 0 /\ Done(d)' = Done(d)
    BY <1>1 DEF Seen, Done
  <2>3. TagInv(d)'
    BY <2>1, <2>2, TagFrame
  <2>4. CellsInv(d)'
    BY <2>1, <2>2, CellsFrame
  <2> QED
    BY <1>1, <2>3, <2>4 DEF RowInv
<1>12. TagInv(c)' /\ RowInv(c)' /\ CellsInv(c)'
  BY <1>4 DEF TagInv, RowInv, CellsInv, Sound
<1> QED
  BY <1>6, <1>7, <1>8, <1>10, <1>11, <1>12

(* The matrix that create gives to c. *)
NewMatrix(c, ops, events) ==
  [Unused EXCEPT !.in_use = TRUE, !.ops = ops, !.events = events, !.sum = c]

LEMMA NewMatrixIs ==
  ASSUME NEW c \in Client, NEW ops \in Nat, NEW events \in Nat
  PROVE  LET a == NewMatrix(c, ops, events)
         IN /\ a \in Acc /\ a.in_use /\ ~a.complete
            /\ a.ops = ops /\ a.events = events /\ a.next_event = 0
            /\ a.tag_map = <<>> /\ a.sum = c
<1> DEFINE w == [Unused EXCEPT !.in_use = TRUE]
           x == [w EXCEPT !.ops = ops]
           y == [x EXCEPT !.events = events]
           z == [y EXCEPT !.sum = c]
<1>1. NewMatrix(c, ops, events) = z
  BY DEF NewMatrix
<1>2. /\ w \in Acc /\ w.in_use /\ ~w.complete
      /\ w.next_event = 0 /\ w.tag_map = <<>>
  BY UnusedIs, SetInUse
<1> HIDE DEF w
<1>3. /\ x \in Acc /\ x.in_use /\ ~x.complete /\ x.ops = ops
      /\ x.next_event = 0 /\ x.tag_map = <<>>
  BY <1>2, SetOps
<1> HIDE DEF x
<1>4. /\ y \in Acc /\ y.in_use /\ ~y.complete /\ y.ops = ops
      /\ y.events = events /\ y.next_event = 0 /\ y.tag_map = <<>>
  BY <1>3, SetEvents
<1> HIDE DEF y
<1>5. /\ z \in Acc /\ z.in_use /\ ~z.complete /\ z.ops = ops
      /\ z.events = events /\ z.next_event = 0 /\ z.tag_map = <<>> /\ z.sum = c
  BY <1>4, SetSum
<1> QED
  BY <1>1, <1>5

LEMMA AcceptedJob ==
  ASSUME NEW j \in Job, ~CreateRefused(j.ops, j.events)
  PROVE  /\ j.ops \in 1 .. MaxOps /\ j.events \in 1 .. MapSize
         /\ j.ops * j.events <= BufferSize /\ j.by_tag \in BOOLEAN
<1>1. /\ j.ops \in Nat /\ j.events \in Nat /\ j.by_tag \in BOOLEAN
      /\ j.ops * j.events <= BufferSize
  BY RunAssumption
<1>2. ~(j.ops = 0 \/ j.ops > MaxOps) /\ ~(j.events = 0 \/ j.events > MapSize)
  BY DEF CreateRefused
<1>3. MaxOps \in Nat /\ MapSize \in Nat
  BY Bounds
<1>4. j.ops \in 1 .. MaxOps
  BY <1>1, <1>2, <1>3
<1>5. j.events \in 1 .. MapSize
  BY <1>1, <1>2, <1>3
<1> QED
  BY <1>1, <1>4, <1>5

LEMMA CreatedInv ==
  ASSUME AccInv, NEW c \in Client, NEW j \in Job, Create(c, j), NEW idx,
         ~CreateRefused(j.ops, j.events), idx = Min(FreeIds),
         g_acc' = [g_acc EXCEPT ![idx] = NewMatrix(c, j.ops, j.events)],
         buffer' = Cleared(c, j.ops, j.events),
         cfg_select_events(idx, NewMatrix(c, j.ops, j.events)),
         handle' = [handle EXCEPT ![c] = idx]
  PROVE  AccInv'
<1> USE DEF AccInv
<1> DEFINE a == NewMatrix(c, j.ops, j.events)
<1>1. /\ job' = [job EXCEPT ![c] = j] /\ pc = "idle" /\ ~Owns(c)
      /\ UNCHANGED <<row, pc, who, op, spoiled, lapses>>
  BY DEF Create, inference
<1>2. /\ job \in [Client -> Job] /\ spoiled \in [Client -> SUBSET MapEvent]
      /\ handle \in [Client -> Id \cup {NoHandle, None}]
      /\ buffer \in [Client -> [0 .. BufferSize - 1 -> 0 .. Word - 1]]
      /\ g_acc \in [Id -> Acc]
  BY DEF TypeOK, PoolInv
<1>3. idx \in Id /\ ~Live(idx)
  <2>1. FreeIds # {} /\ FreeIds \subseteq Nat
    BY Bounds DEF CreateRefused, FreeIds
  <2>2. idx \in FreeIds
    BY <2>1, MinIsLeast
  <2> QED
    BY <2>2 DEF FreeIds, Live
<1>4. /\ j.ops \in 1 .. MaxOps /\ j.events \in 1 .. MapSize
      /\ j.ops * j.events <= BufferSize /\ j.by_tag \in BOOLEAN
  BY AcceptedJob
<1>5. /\ a \in Acc /\ a.in_use /\ ~a.complete
      /\ a.ops = j.ops /\ a.events = j.events /\ a.next_event = 0
      /\ a.tag_map = <<>> /\ a.sum = c
  BY <1>4, Bounds, NewMatrixIs
<1> HIDE DEF a
<1>6. /\ handle'[c] = idx /\ job'[c] = j /\ g_acc'[idx] = a
      /\ \A d \in Client : d # c => handle'[d] = handle[d] /\ job'[d] = job[d]
      /\ \A id \in Id : id # idx => g_acc'[id] = g_acc[id]
  BY <1>1, <1>2, <1>3 DEF a
<1>7. /\ Live(idx)'
      /\ \A id : id # idx => (Live(id)' <=> Live(id))
  BY <1>3, <1>5, <1>6 DEF Live
<1>8. /\ \A k \in 0 .. BufferSize - 1 :
           buffer'[c][k] = IF k < j.ops * j.events THEN 0 ELSE buffer[c][k]
      /\ \A d \in Client : d # c => buffer'[d] = buffer[d]
  <2> DEFINE b == [k \in 0 .. BufferSize - 1 |->
                     IF k < j.ops * j.events THEN 0 ELSE buffer[c][k]]
  <2>1. buffer' = [buffer EXCEPT ![c] = b]
    BY DEF Cleared
  <2>2. buffer'[c] = b /\ \A d \in Client : d # c => buffer'[d] = buffer[d]
    BY <1>2, <2>1
  <2> QED
    BY <2>2
<1>9. Program(idx, PassRequest(a)) \/ (BackendFails /\ Disturb)
  BY DEF cfg_select_events, a
<1>10. TypeOK'
  <2>1. AccOK'
    <3>1. <<>> \in Seq(Tag) /\ Len(<<>>) = 0
      OBVIOUS
    <3>2. ASSUME NEW id \in Id, id # idx
          PROVE  \/ g_acc'[id] = Unused
                 \/ /\ g_acc'[id].in_use /\ g_acc'[id].complete \in BOOLEAN
                    /\ g_acc'[id].ops \in 1 .. MaxOps
                    /\ g_acc'[id].events \in 1 .. MapSize
                    /\ g_acc'[id].next_event \in
                         0 .. g_acc'[id].events - 1 + EventsPerRun
                    /\ g_acc'[id].tag_map \in Seq(Tag)
                    /\ Len(g_acc'[id].tag_map) <= g_acc'[id].ops
                    /\ g_acc'[id].sum \in Client
      BY <1>6, <3>2 DEF TypeOK, AccOK
    <3>3. /\ a.in_use /\ a.complete \in BOOLEAN
          /\ a.ops \in 1 .. MaxOps /\ a.events \in 1 .. MapSize
          /\ a.next_event \in 0 .. a.events - 1 + EventsPerRun
          /\ a.tag_map \in Seq(Tag) /\ Len(a.tag_map) <= a.ops
          /\ a.sum \in Client
      <4>2. a.complete \in BOOLEAN
        BY <1>5 DEF Acc
      <4>1. 0 \in 0 .. j.events - 1 + EventsPerRun
        BY <1>4, Bounds
      <4> QED
        BY <1>4, <1>5, <3>1, <4>1, <4>2
    <3> QED
      BY <1>6, <3>2, <3>3 DEF AccOK
  <2>2. MeterType'
    <3>1. PassRequest(a) \in [Slot -> Request]
      BY <1>4, <1>5, Bounds, PassRequestType
    <3> QED
      BY <1>3, <1>9, <3>1, Typed, MeterSteps
  <2>3. buffer' \in [Client -> [0 .. BufferSize - 1 -> 0 .. Word - 1]]
    <3> DEFINE b == [k \in 0 .. BufferSize - 1 |->
                       IF k < j.ops * j.events THEN 0 ELSE buffer[c][k]]
    <3>1. \A k \in 0 .. BufferSize - 1 : b[k] = 0 \/ b[k] = buffer[c][k]
      OBVIOUS
    <3>2. 0 \in 0 .. Word - 1
      BY WordNat
    <3>3. \A k \in 0 .. BufferSize - 1 : buffer[c][k] \in 0 .. Word - 1
      BY <1>2
    <3>4. b \in [0 .. BufferSize - 1 -> 0 .. Word - 1]
      BY <3>1, <3>2, <3>3
    <3>5. buffer' = [buffer EXCEPT ![c] = b]
      BY DEF Cleared
    <3> QED
      BY <1>2, <3>4, <3>5
  <2>4. handle' \in [Client -> Id \cup {NoHandle, None}] /\ job' \in [Client -> Job]
    BY <1>1, <1>2, <1>3
  <2> QED
    BY <1>1, <2>1, <2>2, <2>3, <2>4 DEF TypeOK, MeterType
<1>11. ASSUME NEW id \in Id, id # idx, Live(id)
       PROVE  MatrixOK(id)'
  <2>1. MatrixOK(id) /\ g_acc[id].sum \in Client
    BY <1>11, LiveFacts DEF PoolInv
  <2>2. g_acc[id].sum # c
    BY <1>1, <1>11, <2>1 DEF Owns, MatrixOK
  <2> QED
    BY <1>6, <1>11, <2>1, <2>2, MatrixFrame
<1>12. MatrixOK(idx)'
  <2>1. ~(a.next_event >= a.events)
    BY <1>4, <1>5
  <2> QED
    BY <1>5, <1>6, <2>1 DEF MatrixOK
<1>13. PoolInv'
  <2>1. \A id \in Id : Live(id)' => MatrixOK(id)'
    BY <1>7, <1>11, <1>12
  <2>2. ASSUME NEW id \in Id, owner' = id
        PROVE  OwnerOK(id)'
    <3>1. Program(idx, PassRequest(a)) /\ id = idx
      BY <1>9, <2>2, Bounds DEF Disturb, Program
    <3>2. PassRequest(g_acc[id])' = PassRequest(a)
      BY <1>6, <3>1 DEF PassRequest
    <3> QED
      BY <1>7, <3>1, <3>2 DEF OwnerOK, Program
  <2>3. g_acc' \in [Id -> Acc]
    BY <1>2, <1>3, <1>5 DEF a
  <2> QED
    BY <2>1, <2>2, <2>3 DEF PoolInv
<1>14. PlaceInv'
  BY <1>1 DEF PlaceInv
<1>15. ASSUME NEW d \in Client, d # c
       PROVE  /\ Owns(d)' <=> Owns(d)
              /\ Owns(d) => handle[d] # idx
              /\ Owns(d) => handle[d] \in Id
  <2>1. handle'[d] = handle[d]
    BY <1>6, <1>15
  <2>2. CASE handle[d] = idx
    BY <1>3, <1>5, <1>6, <1>15, <2>1, <2>2 DEF Owns
  <2>3. CASE handle[d] # idx
    BY <1>6, <1>7, <2>1, <2>3 DEF Owns, Live
  <2> QED
    BY <2>2, <2>3
<1>16. HandleInv'
  <2>1. Owns(c)'
    BY <1>5, <1>6, <1>7 DEF Owns
  <2> QED
    BY <1>6, <1>15, <2>1 DEF HandleInv
<1>17. SteadyInv'
  <2>1. ASSUME Steady, NEW id \in Id
        PROVE  owner' = id
    <3>1. id = idx
      BY <1>3, <2>1 DEF Steady, Id
    <3>2. Program(idx, PassRequest(a))
      BY <1>9, <2>1 DEF Steady
    <3> QED
      BY <3>1, <3>2 DEF Program
  <2> QED
    BY <1>1, <2>1 DEF SteadyInv
<1>18. ASSUME NEW d \in Client, d # c
       PROVE  TagInv(d)' /\ RowInv(d)' /\ CellsInv(d)'
  <2> SUFFICES ASSUME Owns(d) PROVE TagInv(d)' /\ CellsInv(d)'
    BY <1>1, <1>15, <1>18 DEF TagInv, RowInv, CellsInv, Sound
  <2>1. g_acc'[handle[d]] = g_acc[handle[d]]
    BY <1>6, <1>15, <1>18
  <2>2. Kept(d)
    BY <1>1, <1>6, <1>15, <1>18, <2>1 DEF Kept
  <2>3. Seen(d) = 0 /\ Seen(d)' = 0 /\ Done(d)' = Done(d)
    BY <1>1 DEF Seen, Done
  <2> QED
    BY <1>8, <1>18, <2>1, <2>2, <2>3, TagFrame, CellsFrame
<1>19. TagInv(c)' /\ RowInv(c)'
  <2>1. Seen(c)' = 0
    BY <1>1 DEF Seen
  <2>2. DOMAIN a.tag_map = {}
    BY <1>5
  <2> QED
    BY <1>1, <1>5, <1>6, <2>1, <2>2 DEF TagInv, RowInv, Operators
<1>20. CellsInv(c)'
  <2>1. ASSUME NEW r \in 0 .. a.ops - 1, NEW e \in 0 .. a.events - 1
        PROVE  /\ buffer'[c][Cell(a, r, e)] = 0
               /\ Occurrences(c, j.by_tag, r, e)[Measured(c, e)'] = 0
    <3>1. Cell(a, r, e) \in 0 .. j.ops * j.events - 1
      <4>1. r \in 0 .. j.ops - 1 /\ e \in 0 .. j.events - 1
            /\ j.ops \in Nat /\ j.events \in Nat
        BY <1>4, <1>5
      <4>2. r * j.events + e \in 0 .. j.ops * j.events - 1
        BY <4>1, CellInside
      <4> QED
        BY <1>5, <4>2 DEF Cell
    <3>2. Cell(a, r, e) \in 0 .. BufferSize - 1 /\ Cell(a, r, e) < j.ops * j.events
      <4>1. j.ops * j.events \in Nat
        BY <1>4, Bounds, Z3
      <4> QED
        BY <1>4, <3>1, <4>1, Bounds
    <3>3. Measured(c, e)' = 0
      <4>1. ~(e < a.next_event) /\ Done(c)' = 0
        BY <1>1, <1>5 DEF Done
      <4> QED
        BY <1>6, <4>1 DEF Measured
    <3>4. e \in MapEvent
      BY <1>4, <1>5, Bounds
    <3> QED
      BY <1>4, <1>8, <3>2, <3>3, <3>4, OccurrencesAre
  <2>2. 0 % Word = 0
    BY WordNat
  <2> QED
    BY <1>6, <2>1, <2>2 DEF CellsInv, Cell
<1> QED
  BY <1>10, <1>13, <1>14, <1>16, <1>17, <1>18, <1>19, <1>20

LEMMA CreateInv ==
  ASSUME AccInv, NEW c \in Client, NEW j \in Job, Create(c, j) PROVE AccInv'
<1>1. CASE /\ handle' = [handle EXCEPT ![c] = NoHandle]
           /\ UNCHANGED <<g_acc, buffer, meter>>
  BY <1>1, RefusedInv
<1>2. CASE /\ ~CreateRefused(j.ops, j.events)
           /\ g_acc' = [g_acc EXCEPT ![Min(FreeIds)] = NewMatrix(c, j.ops, j.events)]
           /\ buffer' = Cleared(c, j.ops, j.events)
           /\ cfg_select_events(Min(FreeIds), NewMatrix(c, j.ops, j.events))
           /\ handle' = [handle EXCEPT ![c] = Min(FreeIds)]
  BY <1>2, CreatedInv
<1> QED
  BY <1>1, <1>2 DEF Create, nsx_pmu_accm_create, NewMatrix

LEMMA DestroyInv ==
  ASSUME AccInv, NEW c \in Client, Destroy(c) PROVE AccInv'
<1> USE DEF AccInv
<1>0. PICK h : h = handle[c]
  OBVIOUS
<1>1. /\ pc = "idle" /\ h \notin {None, NoHandle}
      /\ nsx_pmu_accm_destroy(h)
      /\ \/ handle' = [handle EXCEPT ![c] = None] /\ UNCHANGED lapses
         \/ lapses < MaxLapses /\ lapses' = lapses + 1 /\ UNCHANGED handle
      /\ spoiled' = [d \in Client |->
                       IF Live(h) /\ g_acc[h].sum = d THEN {} ELSE spoiled[d]]
      /\ UNCHANGED <<buffer, row, pc, who, op, job>>
  BY <1>0 DEF Destroy, inference
<1>2. /\ handle \in [Client -> Id \cup {NoHandle, None}]
      /\ g_acc \in [Id -> Acc] /\ spoiled \in [Client -> SUBSET MapEvent]
      /\ lapses \in 0 .. MaxLapses
  BY DEF TypeOK, PoolInv
<1>3. h \in Id
  BY <1>0, <1>1, <1>2
<1>4. /\ \A d \in Client : d # c => handle'[d] = handle[d]
      /\ handle'[c] = None \/ handle'[c] = h
      /\ MaxLapses = 0 => handle'[c] = None
  BY <1>0, <1>1, <1>2, RunAssumption
<1>5. /\ ~Live(h)'
      /\ \A id \in Id : id # h => g_acc'[id] = g_acc[id]
      /\ \A id : Live(id)' => Live(id) /\ id \in Id /\ id # h
      /\ g_acc' \in [Id -> Acc]
  <2>1. CASE Live(h)
    <3>1. g_acc' = [g_acc EXCEPT ![h] = Unused]
      BY <1>1, <2>1 DEF nsx_pmu_accm_destroy
    <3>2. /\ g_acc'[h] = Unused /\ g_acc' \in [Id -> Acc]
          /\ \A id \in Id : id # h => g_acc'[id] = g_acc[id]
      BY <1>2, <1>3, <3>1, UnusedIs
    <3>3. ~Live(h)'
      BY <3>2, UnusedIs DEF Live
    <3>4. ASSUME NEW id, Live(id)' PROVE Live(id) /\ id \in Id /\ id # h
      BY <3>2, <3>3, <3>4 DEF Live
    <3> QED
      BY <3>2, <3>3, <3>4
  <2>2. CASE ~Live(h)
    <3>1. g_acc' = g_acc
      BY <1>1, <2>2 DEF nsx_pmu_accm_destroy
    <3>2. \A id : Live(id)' <=> Live(id)
      BY <3>1 DEF Live
    <3>3. \A id : Live(id) => id \in Id
      BY DEF Live
    <3> QED
      BY <1>2, <2>2, <3>1, <3>2, <3>3
  <2> QED
    BY <2>1, <2>2
<1>6. /\ UNCHANGED meter \/ (owner = h /\ Disturb)
      /\ owner' # h
  <2>1. CASE Live(h)
    <3>1. Forget(h)
      BY <1>1, <2>1 DEF nsx_pmu_accm_destroy
    <3> QED
      BY <1>3, <3>1, Bounds DEF Forget, Disturb, meter
  <2>2. CASE ~Live(h)
    <3>1. UNCHANGED meter
      BY <1>1, <2>2 DEF nsx_pmu_accm_destroy
    <3>2. owner # h
      BY <1>3, <2>2 DEF PoolInv, OwnerOK
    <3> QED
      BY <3>1, <3>2 DEF meter
  <2> QED
    BY <2>1, <2>2
<1>7. TypeOK'
  <2>1. AccOK'
    <3>1. ASSUME NEW id \in Id
          PROVE  g_acc'[id] = g_acc[id] \/ g_acc'[id] = Unused
      BY <1>1, <1>2 DEF nsx_pmu_accm_destroy
    <3>2. AccOK
      BY DEF TypeOK
    <3> QED
      BY <3>1, <3>2 DEF AccOK
  <2>2. MeterType'
    BY <1>6, Typed, MeterSteps
  <2>3. handle' \in [Client -> Id \cup {NoHandle, None}]
    BY <1>1, <1>2
  <2>4. spoiled' \in [Client -> SUBSET MapEvent]
    BY <1>1, <1>2
  <2>5. lapses' \in 0 .. MaxLapses
    BY <1>1, <1>2, RunAssumption
  <2> QED
    BY <1>1, <2>1, <2>2, <2>3, <2>4, <2>5 DEF TypeOK, MeterType
<1>8. PoolInv'
  <2>1. ASSUME NEW id \in Id, Live(id)' PROVE MatrixOK(id)'
    <3>1. Live(id) /\ id # h /\ g_acc'[id] = g_acc[id]
      BY <1>5, <2>1
    <3>2. MatrixOK(id) /\ g_acc[id].sum \in Client
      BY <3>1, LiveFacts DEF PoolInv
    <3>3. g_acc[id].sum # c
      BY <1>0, <3>1, <3>2 DEF MatrixOK
    <3> QED
      BY <1>1, <1>4, <3>1, <3>2, <3>3, MatrixFrame
  <2>2. ASSUME NEW id \in Id, owner' = id PROVE OwnerOK(id)'
    <3>1. UNCHANGED <<ready, owner, want>> /\ id # h
      BY <1>6, <2>2, Bounds DEF Disturb, meter
    <3> QED
      BY <1>5, <2>2, <3>1, OwnerFrame DEF PoolInv
  <2> QED
    BY <1>5, <2>1, <2>2 DEF PoolInv
<1>9. PlaceInv'
  BY <1>1 DEF PlaceInv
<1>10. HandleInv'
  <2>1. ASSUME MaxLapses = 0, NEW d \in Client, d # c,
               handle[d] \notin {None, NoHandle}
        PROVE  Owns(d)'
    <3>1. Owns(d) /\ Owns(c)
      BY <1>0, <1>1, <2>1 DEF HandleInv
    <3>2. handle[d] # h /\ handle[d] \in Id
      BY <1>0, <2>1, <3>1 DEF Owns, Live
    <3> QED
      BY <1>4, <1>5, <2>1, <3>1, <3>2 DEF Owns, Live
  <2> QED
    BY <1>4, <2>1 DEF HandleInv
<1>11. SteadyInv'
  <2>1. ASSUME Steady PROVE \A d \in Client : spoiled'[d] = {}
    BY <1>1, <2>1 DEF SteadyInv
  <2>2. ASSUME Steady, NEW id \in Id, Live(id)' PROVE owner' = id
    <3>1. owner = id /\ id # h
      BY <1>5, <2>2 DEF SteadyInv
    <3> QED
      BY <1>6, <3>1 DEF meter
  <2> QED
    BY <2>1, <2>2 DEF SteadyInv
<1>12. ASSUME NEW d \in Client, Owns(d)'
       PROVE  /\ Owns(d) /\ handle'[d] = handle[d]
              /\ g_acc'[handle[d]] = g_acc[handle[d]]
              /\ spoiled'[d] = spoiled[d]
  <2>1. handle'[d] = handle[d]
    BY <1>0, <1>4, <1>12, Bounds DEF Owns, Live
  <2>2. Live(handle[d]) /\ handle[d] \in Id /\ handle[d] # h
    BY <1>5, <1>12, <2>1 DEF Owns
  <2>3. g_acc'[handle[d]] = g_acc[handle[d]]
    BY <1>5, <2>2
  <2>4. Owns(d)
    BY <1>12, <2>1, <2>2, <2>3 DEF Owns
  <2>5. ~(Live(h) /\ g_acc[h].sum = d)
    BY <2>2, LiveFacts
  <2> QED
    BY <1>1, <2>1, <2>3, <2>4, <2>5
<1>13. ASSUME NEW d \in Client
       PROVE  TagInv(d)' /\ RowInv(d)' /\ CellsInv(d)'
  <2> SUFFICES ASSUME Owns(d)' PROVE TagInv(d)' /\ CellsInv(d)'
    BY <1>1 DEF TagInv, RowInv, CellsInv, Sound
  <2>1. Kept(d)
    BY <1>1, <1>12 DEF Kept
  <2>2. Seen(d) = 0 /\ Seen(d)' = 0 /\ Done(d)' = Done(d)
    BY <1>1 DEF Seen, Done
  <2> QED
    BY <1>1, <1>12, <2>1, <2>2, TagFrame, CellsFrame
<1> QED
  BY <1>7, <1>8, <1>9, <1>10, <1>11, <1>13

-----------------------------------------------------------------------------
(* Giving up an inference *)

LEMMA AbandonInv ==
  ASSUME AccInv, Abandon PROVE AccInv'
<1> USE DEF AccInv
<1> DEFINE h == handle[who]
<1>1. /\ pc # "idle" /\ lapses < MaxLapses /\ lapses' = lapses + 1
      /\ Spoil(h, IF Live(h) THEN PassColumns(g_acc[h]) ELSE {})
      /\ pc' = "idle" /\ op' = 0 /\ row' = 0 /\ who' = who
      /\ UNCHANGED <<g_acc, handle, buffer, job>>
      /\ UNCHANGED <<ready, owner, want, tally>>
  BY DEF Abandon, Return, accVars, meter
<1>2. spoiled \in [Client -> SUBSET MapEvent] /\ lapses \in 0 .. MaxLapses
      /\ who \in Client
  BY DEF TypeOK
<1>3. MaxLapses # 0 /\ ~Steady
  BY <1>1, <1>2, RunAssumption DEF Steady
<1>4. /\ \A id : Live(id)' <=> Live(id)
      /\ \A d : Owns(d)' <=> Owns(d)
  BY <1>1 DEF Live, Owns
<1>5. /\ spoiled' \in [Client -> SUBSET MapEvent]
      /\ \A d \in Client : spoiled[d] \subseteq spoiled'[d]
      /\ Live(h) => PassColumns(g_acc[h]) \subseteq spoiled'[g_acc[h].sum]
  <2>1. CASE Live(h)
    <3>1. PassColumns(g_acc[h]) \subseteq MapEvent /\ g_acc[h].sum \in Client
      <4>1. /\ g_acc[h].next_event \in Nat /\ g_acc[h].events \in 1 .. MapSize
            /\ g_acc[h].sum \in Client
        BY <2>1, LiveFacts
      <4>2. PassColumns(g_acc[h]) \subseteq
              g_acc[h].next_event .. g_acc[h].events - 1
        BY <4>1, Bounds, Columns
      <4> QED
        BY <4>1, <4>2, Bounds
    <3>2. spoiled' = [spoiled EXCEPT ![g_acc[h].sum] = @ \cup PassColumns(g_acc[h])]
      BY <1>1, <2>1 DEF Spoil
    <3> QED
      BY <1>2, <3>1, <3>2
  <2>2. CASE ~Live(h)
    BY <1>1, <1>2, <2>2 DEF Spoil
  <2> QED
    BY <2>1, <2>2
<1>6. TypeOK'
  <2>1. AccOK'
    BY <1>1 DEF TypeOK, AccOK
  <2>2. MeterType'
    BY <1>1, Typed DEF MeterType
  <2>3. lapses' \in 0 .. MaxLapses
    BY <1>1, <1>2, RunAssumption
  <2>4. /\ row' \in 0 .. NoRow /\ op' \in Nat
        /\ pc' \in {"idle", "row", "begin", "body", "end", "gap"}
    BY <1>1, Bounds
  <2> QED
    BY <1>1, <1>5, <2>1, <2>2, <2>3, <2>4 DEF TypeOK, MeterType
<1>7. PoolInv'
  <2>1. \A id \in Id : Live(id)' => MatrixOK(id)'
    BY <1>1, <1>4, MatrixFrame DEF PoolInv
  <2>2. \A id \in Id : owner' = id => OwnerOK(id)'
    BY <1>1, OwnerFrame DEF PoolInv
  <2> QED
    BY <1>1, <2>1, <2>2 DEF PoolInv
<1>8. PlaceInv'
  BY <1>1, <1>2, RunAssumption DEF PlaceInv
<1>9. HandleInv' /\ SteadyInv'
  BY <1>3 DEF HandleInv, SteadyInv, Steady
<1>10. ASSUME NEW d \in Client
       PROVE  TagInv(d)' /\ RowInv(d)' /\ CellsInv(d)'
  <2>1. Kept(d)
    BY <1>1, <1>4, <1>5 DEF Kept
  <2>2. Seen(d) \in Nat /\ Seen(d)' = 0 /\ Done(d)' = 0
    BY <1>1, SeenNat DEF Seen, Done
  <2>3. TagInv(d)'
    <3>1. Seen(d)' <= Seen(d) /\ Seen(d)' \in Nat
      BY <2>2
    <3> QED
      BY <1>1, <2>1, <2>2, <3>1, TagFrame
  <2>4. CASE d # who
    <3>1. Done(d) = 0
      BY <2>4 DEF Done
    <3> QED
      BY <1>1, <2>1, <2>2, <2>3, <3>1, CellsFrame DEF RowInv
  <2>5. CASE d = who
    <3> SUFFICES ASSUME Owns(d) PROVE CellsInv(d)'
      BY <1>1, <1>4, <2>3 DEF RowInv, CellsInv
    <3>1. Live(h) /\ g_acc[h].sum = d
      BY <2>5 DEF Owns
    <3>2. \A e : e \notin spoiled'[d] =>
            e \notin spoiled[d] /\ Measured(d, e)' = Measured(d, e)
      BY <1>1, <1>5, <2>5, <3>1 DEF Measured, PassColumns
    <3> QED
      BY <1>1, <1>4, <3>2 DEF CellsInv, Cell
  <2> QED
    BY <2>4, <2>5
<1> QED
  BY <1>6, <1>7, <1>8, <1>9, <1>10

-----------------------------------------------------------------------------
(* Finding the row of an operator *)

LEMMA KnownIs ==
  ASSUME NEW a, a.tag_map \in Seq(Tag), NEW tag
  PROVE  /\ Known(a, tag) <=>
              \E i \in DOMAIN a.tag_map : Text(a.tag_map[i]) = Text(tag)
         /\ Known(a, tag) =>
              \E i \in DOMAIN a.tag_map : /\ RowOfTag(a, tag) = i - 1
                                          /\ Text(a.tag_map[i]) = Text(tag)
<1>1. Known(a, tag) <=>
        \E i \in DOMAIN a.tag_map : Text(a.tag_map[i]) = Text(tag)
  BY DEF Known, SamePointer, SameText
<1>2. DOMAIN a.tag_map = 1 .. Len(a.tag_map) /\ Len(a.tag_map) \in Nat
  OBVIOUS
<1>3. SamePointer(a, tag) \subseteq Nat /\ SameText(a, tag) \subseteq Nat
  BY <1>2 DEF SamePointer, SameText
<1>4. ASSUME Known(a, tag)
      PROVE  \E i \in DOMAIN a.tag_map : /\ RowOfTag(a, tag) = i - 1
                                         /\ Text(a.tag_map[i]) = Text(tag)
  <2>1. CASE SamePointer(a, tag) # {}
    <3>1. Min(SamePointer(a, tag)) \in SamePointer(a, tag)
      BY <1>3, <2>1, MinIsLeast
    <3>2. RowOfTag(a, tag) = Min(SamePointer(a, tag)) - 1
      BY <2>1 DEF RowOfTag
    <3> QED
      BY <3>1, <3>2 DEF SamePointer
  <2>2. CASE SamePointer(a, tag) = {}
    <3>1. SameText(a, tag) # {}
      BY <1>4, <2>2 DEF Known
    <3>2. Min(SameText(a, tag)) \in SameText(a, tag)
      BY <1>3, <3>1, MinIsLeast
    <3>3. RowOfTag(a, tag) = Min(SameText(a, tag)) - 1
      BY <2>2 DEF RowOfTag
    <3> QED
      BY <3>2, <3>3 DEF SameText
  <2> QED
    BY <2>1, <2>2
<1> QED
  BY <1>1, <1>4

(* A table that holds the rows of the operators before the n-th, as far as  *)
(* there is room, tells the row of the n-th.                                *)
LEMMA TableTells ==
  ASSUME NEW c \in Client, NEW n \in Operators(c),
         NEW ops \in Nat, NEW tm \in Seq(Tag), Len(tm) <= ops,
         \A i \in DOMAIN tm : \E m \in Operators(c) :
           RowIn(c, TRUE, m) = i - 1 /\ Text(tm[i]) = TextOf(c, m),
         \A m \in Operators(c) :
           m < n /\ RowIn(c, TRUE, m) < ops => RowIn(c, TRUE, m) < Len(tm)
  PROVE  /\ \A i \in DOMAIN tm :
              Text(tm[i]) = TextOf(c, n) => i - 1 = RowIn(c, TRUE, n)
         /\ (\A i \in DOMAIN tm : Text(tm[i]) # TextOf(c, n)) =>
              IF Len(tm) < ops THEN RowIn(c, TRUE, n) = Len(tm)
                               ELSE RowIn(c, TRUE, n) >= ops
<1>0. PICK r : r = RowIn(c, TRUE, n)
  OBVIOUS
<1>1. r \in Nat /\ Len(tm) \in Nat /\ DOMAIN tm = 1 .. Len(tm)
  <2>1. RowIn(c, TRUE, n) \in Nat
    BY RowNat
  <2>2. r \in Nat
    BY <1>0, <2>1
  <2>3. Len(tm) \in Nat /\ DOMAIN tm = 1 .. Len(tm)
    OBVIOUS
  <2> QED
    BY <2>2, <2>3
<1>2. ASSUME NEW i \in DOMAIN tm, Text(tm[i]) = TextOf(c, n)
      PROVE  i - 1 = r
  <2>1. PICK m \in Operators(c) :
          RowIn(c, TRUE, m) = i - 1 /\ Text(tm[i]) = TextOf(c, m)
    OBVIOUS
  <2>2. RowIn(c, TRUE, m) = r
    BY <1>0, <1>2, <2>1, SameTextSameRow
  <2> QED
    BY <2>1, <2>2
<1>3. ASSUME \A i \in DOMAIN tm : Text(tm[i]) # TextOf(c, n)
      PROVE  IF Len(tm) < ops THEN r = Len(tm) ELSE r >= ops
  <2>1. ASSUME r < Len(tm) PROVE FALSE
    <3>1. r + 1 \in DOMAIN tm /\ (r + 1) - 1 = r
      BY <1>1, <2>1
    <3>2. PICK m \in Operators(c) :
            RowIn(c, TRUE, m) = (r + 1) - 1 /\ Text(tm[r + 1]) = TextOf(c, m)
      BY <3>1
    <3>3. TextOf(c, m) = TextOf(c, n)
      BY <1>0, <3>1, <3>2, SameRowSameText
    <3> QED
      BY <1>3, <3>1, <3>2, <3>3
  <2>2. ASSUME Len(tm) < ops, Len(tm) < r PROVE FALSE
    <3> DEFINE l == Len(tm)
    <3>1. PICK m \in Operators(c) : m < n /\ RowIn(c, TRUE, m) = l
      BY <1>0, <1>1, <2>2, RowsContiguous
    <3>2. l < l
      BY <2>2, <3>1
    <3> QED
      BY <1>1, <3>2
  <2>3. r >= Len(tm)
    BY <1>1, <2>1
  <2>4. CASE Len(tm) < ops
    <3>1. ~(Len(tm) < r)
      BY <2>2, <2>4
    <3>2. r \in Nat /\ Len(tm) \in Nat
      BY <1>1
    <3>3. r = Len(tm)
      BY ONLY <2>3, <3>1, <3>2
    <3> QED
      BY <2>4, <3>3
  <2>5. CASE ~(Len(tm) < ops)
    BY <1>1, <2>3, <2>5
  <2> QED
    BY <2>4, <2>5
<1> QED
  BY <1>0, <1>2, <1>3

(* What a call of resolve_tag may do. *)
LEMMA Resolves ==
  ASSUME TypeOK, PoolInv, NEW h, NEW tag \in Tag, nsx_pmu_accm_resolve_tag(h, tag)
  PROVE  \/ /\ ~Live(h)
            /\ row' = NoRow /\ g_acc' = g_acc
         \/ /\ Live(h) /\ g_acc' = g_acc
            /\ \E i \in DOMAIN g_acc[h].tag_map :
                 row' = i - 1 /\ Text(g_acc[h].tag_map[i]) = Text(tag)
         \/ /\ Live(h) /\ g_acc' = g_acc /\ row' = NoRow
            /\ ~(Len(g_acc[h].tag_map) < g_acc[h].ops)
            /\ \A i \in DOMAIN g_acc[h].tag_map :
                 Text(g_acc[h].tag_map[i]) # Text(tag)
         \/ /\ Live(h)
            /\ row' = Len(g_acc[h].tag_map)
            /\ Len(g_acc[h].tag_map) < g_acc[h].ops
            /\ \A i \in DOMAIN g_acc[h].tag_map :
                 Text(g_acc[h].tag_map[i]) # Text(tag)
            /\ g_acc' = [g_acc EXCEPT ![h] =
                 [g_acc[h] EXCEPT !.tag_map = Append(g_acc[h].tag_map, tag)]]
<1>1. CASE ~Live(h)
  BY <1>1 DEF nsx_pmu_accm_resolve_tag
<1>2. CASE Live(h)
  <2> DEFINE a == g_acc[h]
  <2>1. /\ a.tag_map \in Seq(Tag) /\ Len(a.tag_map) \in Nat /\ a.ops \in Nat
        /\ h \in Id /\ g_acc \in [Id -> Acc]
    <3>1. a.tag_map \in Seq(Tag) /\ a.ops \in 1 .. MaxOps /\ h \in Id
      BY <1>2, LiveFacts
    <3> QED
      BY <3>1, Bounds DEF PoolInv
  <2>2. CASE Known(a, tag)
    BY <1>2, <2>1, <2>2, KnownIs DEF nsx_pmu_accm_resolve_tag
  <2>3. CASE ~Known(a, tag)
    <3>1. \A i \in DOMAIN a.tag_map : Text(a.tag_map[i]) # Text(tag)
      BY <2>1, <2>3, KnownIs
    <3>2. CASE TagMapFull(a)
      BY <1>2, <2>1, <2>3, <3>1, <3>2
      DEF nsx_pmu_accm_resolve_tag, TagMapFull
    <3>3. CASE ~TagMapFull(a)
      <4>1. row' = Len(a.tag_map)
            /\ g_acc' = [g_acc EXCEPT ![h].tag_map = Append(@, tag)]
        BY <1>2, <2>3, <3>3 DEF nsx_pmu_accm_resolve_tag
      <4>2. Len(a.tag_map) < a.ops
        BY <2>1, <3>3 DEF TagMapFull
      <4>3. [g_acc EXCEPT ![h].tag_map = Append(@, tag)] =
              [g_acc EXCEPT ![h] = [a EXCEPT !.tag_map = Append(a.tag_map, tag)]]
        BY <2>1
      <4> QED
        BY <1>2, <3>1, <4>1, <4>2, <4>3
    <3> QED
      BY <3>2, <3>3
  <2> QED
    BY <2>2, <2>3
<1> QED
  BY <1>1, <1>2

(* A step of the inference of c that touches no more of the matrix h than    *)
(* its table of tags.                                                        *)
LEMMA TagStep ==
  ASSUME AccInv, FindRow, NEW h, h = handle[who]
  PROVE  /\ g_acc' = g_acc
            \/ (/\ Live(h)
                /\ \E tag \in Tag :
                     /\ Len(g_acc[h].tag_map) < g_acc[h].ops
                     /\ row' = Len(g_acc[h].tag_map)
                     /\ g_acc' = [g_acc EXCEPT ![h] =
                          [g_acc[h] EXCEPT !.tag_map = Append(g_acc[h].tag_map, tag)]])
         /\ row' \in 0 .. NoRow
<1> USE DEF AccInv
<1> DEFINE c == who
           tag == Model[c][op + 1]
<1>1. c \in Client /\ op \in Operators(c) /\ op < Len(Model[c])
  BY RunAssumption DEF FindRow, TypeOK, Operators
<1>2. Len(Model[c]) <= NoRow + 1 /\ Model[c] \in Seq(Tag)
  BY <1>1, RunAssumption
<1>3. tag \in Tag
  BY <1>1, <1>2 DEF Operators
<1>4. CASE ~job[c].by_tag
  <2>1. row' = op /\ g_acc' = g_acc
    BY <1>4 DEF FindRow
  <2>2. op \in 0 .. NoRow
    BY <1>1, <1>2, Bounds DEF Operators
  <2> QED
    BY <2>1, <2>2
<1>5. CASE job[c].by_tag
  <2>1. nsx_pmu_accm_resolve_tag(h, tag)
    BY <1>5 DEF FindRow
  <2> HIDE DEF tag, c
  <2>2. CASE row' = NoRow /\ g_acc' = g_acc
    BY <2>2, Bounds
  <2>3. CASE /\ Live(h) /\ g_acc' = g_acc
             /\ \E i \in DOMAIN g_acc[h].tag_map :
                  row' = i - 1 /\ Text(g_acc[h].tag_map[i]) = Text(tag)
    <3>1. /\ g_acc[h].tag_map \in Seq(Tag) /\ g_acc[h].ops \in 1 .. MaxOps
          /\ Len(g_acc[h].tag_map) <= g_acc[h].ops
      BY <2>3, LiveFacts
    <3>2. PICK i \in DOMAIN g_acc[h].tag_map : row' = i - 1
      BY <2>3
    <3>3. i \in 1 .. Len(g_acc[h].tag_map) /\ Len(g_acc[h].tag_map) \in Nat
      BY <3>1, <3>2
    <3>4. i - 1 \in 0 .. NoRow
      <4>1. g_acc[h].ops \in Nat /\ g_acc[h].ops <= NoRow
        BY <3>1, Bounds
      <4>2. i \in Nat /\ 1 <= i /\ i <= NoRow
        BY <3>1, <3>3, <4>1, Bounds
      <4> QED
        BY ONLY <4>2, Bounds
    <3> QED
      BY <2>3, <3>2, <3>4
  <2>4. CASE /\ Live(h)
             /\ row' = Len(g_acc[h].tag_map)
             /\ Len(g_acc[h].tag_map) < g_acc[h].ops
             /\ g_acc' = [g_acc EXCEPT ![h] =
                  [g_acc[h] EXCEPT !.tag_map = Append(g_acc[h].tag_map, tag)]]
    <3>1. g_acc[h].tag_map \in Seq(Tag) /\ g_acc[h].ops \in 1 .. MaxOps
      BY <2>4, LiveFacts
    <3>2. Len(g_acc[h].tag_map) \in Nat
      BY <3>1
    <3>3. Len(g_acc[h].tag_map) \in 0 .. NoRow
      <4>1. g_acc[h].ops \in Nat /\ g_acc[h].ops <= NoRow
        BY <3>1, Bounds
      <4> QED
        BY ONLY <2>4, <3>2, <4>1, Bounds
    <3> QED
      BY <1>3, <2>4, <3>3
  <2> QED
    BY <1>3, <2>1, <2>2, <2>3, <2>4, Resolves
<1> QED
  BY <1>4, <1>5

(* Of the records in the pool, that changes no field but one tag_map, and   *)
(* if this is not the table of c's own matrix, its owner cannot trust it.   *)
LEMMA TagStepKeeps ==
  ASSUME AccInv, FindRow
  PROVE  /\ PoolType'
         /\ \A id \in Id :
              /\ g_acc'[id].in_use = g_acc[id].in_use
              /\ g_acc'[id].complete = g_acc[id].complete
              /\ g_acc'[id].ops = g_acc[id].ops
              /\ g_acc'[id].events = g_acc[id].events
              /\ g_acc'[id].next_event = g_acc[id].next_event
              /\ g_acc'[id].sum = g_acc[id].sum
         /\ spoiled' \in [Client -> SUBSET MapEvent]
         /\ \A d \in Client :
              /\ spoiled[d] \subseteq spoiled'[d]
              /\ Steady => spoiled'[d] = spoiled[d]
              /\ Owns(d) /\ d # who =>
                   \/ g_acc'[handle[d]] = g_acc[handle[d]]
                   \/ MapEvent \subseteq spoiled'[d] /\ MaxLapses # 0
<1> USE DEF AccInv
<1>0. PICK h : h = handle[who]
  OBVIOUS
<1>1. /\ g_acc \in [Id -> Acc] /\ spoiled \in [Client -> SUBSET MapEvent]
      /\ who \in Client /\ AccOK
  BY DEF PoolInv, TypeOK
<1>2. Spoil(h, IF Owns(who) \/ g_acc' = g_acc THEN {} ELSE MapEvent)
  BY <1>0 DEF FindRow
<1>3. CASE g_acc' = g_acc
  <2>1. spoiled' = spoiled
    <3>1. CASE Live(h)
      <4>1. g_acc[h].sum \in Client
        BY <3>1, LiveFacts
      <4> QED
        BY <1>1, <1>2, <1>3, <3>1, <4>1 DEF Spoil
    <3>2. CASE ~Live(h)
      BY <1>2, <3>2 DEF Spoil
    <3> QED
      BY <3>1, <3>2
  <2>2. AccOK'
    BY <1>1, <1>3 DEF AccOK
  <2> QED
    BY <1>1, <1>3, <2>1, <2>2 DEF PoolType
<1>4. ASSUME Live(h), NEW tag \in Tag, Len(g_acc[h].tag_map) < g_acc[h].ops,
             g_acc' = [g_acc EXCEPT ![h] =
               [g_acc[h] EXCEPT !.tag_map = Append(g_acc[h].tag_map, tag)]]
      PROVE  /\ PoolType'
             /\ \A id \in Id :
                  /\ g_acc'[id].in_use = g_acc[id].in_use
                  /\ g_acc'[id].complete = g_acc[id].complete
                  /\ g_acc'[id].ops = g_acc[id].ops
                  /\ g_acc'[id].events = g_acc[id].events
                  /\ g_acc'[id].next_event = g_acc[id].next_event
                  /\ g_acc'[id].sum = g_acc[id].sum
             /\ \A id \in Id : id # h => g_acc'[id] = g_acc[id]
  <2> DEFINE tm == Append(g_acc[h].tag_map, tag)
             a == [g_acc[h] EXCEPT !.tag_map = tm]
  <2>1. /\ h \in Id /\ g_acc[h] \in Acc /\ g_acc[h].tag_map \in Seq(Tag)
        /\ g_acc[h].ops \in 1 .. MaxOps /\ g_acc[h].in_use
    BY <1>4, LiveFacts
  <2>2. tm \in Seq(Tag) /\ Len(tm) = Len(g_acc[h].tag_map) + 1
        /\ Len(g_acc[h].tag_map) \in Nat
    BY <2>1
  <2>3. Len(tm) <= g_acc[h].ops
    <3>1. g_acc[h].ops \in Nat
      BY <2>1, Bounds
    <3> QED
      BY ONLY <1>4, <2>2, <3>1
  <2> HIDE DEF tm
  <2>4. /\ a \in Acc /\ a.tag_map = tm /\ a.in_use = g_acc[h].in_use
        /\ a.complete = g_acc[h].complete /\ a.ops = g_acc[h].ops
        /\ a.events = g_acc[h].events /\ a.next_event = g_acc[h].next_event
        /\ a.sum = g_acc[h].sum
    BY <2>1, <2>2, SetTagMap
  <2>5. g_acc' = [g_acc EXCEPT ![h] = a]
    BY <1>4 DEF tm
  <2> HIDE DEF a
  <2>6. g_acc' \in [Id -> Acc] /\ g_acc'[h] = a
        /\ \A id \in Id : id # h => g_acc'[id] = g_acc[id]
    BY <1>1, <2>1, <2>4, <2>5
  <2>7. /\ a.in_use /\ a.complete \in BOOLEAN
        /\ a.ops \in 1 .. MaxOps /\ a.events \in 1 .. MapSize
        /\ a.next_event \in 0 .. a.events - 1 + EventsPerRun
        /\ a.tag_map \in Seq(Tag) /\ Len(a.tag_map) <= a.ops
        /\ a.sum \in Client
    <3>1. g_acc[h] # Unused
      BY <2>1, UnusedIs
    <3>2. /\ g_acc[h].complete \in BOOLEAN /\ g_acc[h].events \in 1 .. MapSize
          /\ g_acc[h].next_event \in 0 .. g_acc[h].events - 1 + EventsPerRun
          /\ g_acc[h].sum \in Client
      BY <1>1, <2>1, <3>1 DEF AccOK
    <3> QED
      BY <2>1, <2>2, <2>3, <2>4, <3>2
  <2>8. AccOK'
    BY <1>1, <2>6, <2>7 DEF AccOK
  <2> QED
    BY <2>4, <2>6, <2>8 DEF PoolType
<1>5. ASSUME Live(h), g_acc' # g_acc
      PROVE  /\ spoiled' \in [Client -> SUBSET MapEvent]
             /\ \A d \in Client :
                  /\ spoiled[d] \subseteq spoiled'[d]
                  /\ Steady => spoiled'[d] = spoiled[d]
                  /\ Owns(d) /\ d # who =>
                       \/ handle[d] # h
                       \/ MapEvent \subseteq spoiled'[d] /\ MaxLapses # 0
  <2>1. g_acc[h].sum \in Client /\ h \notin {None, NoHandle}
    BY <1>5, LiveFacts, NotLive
  <2>2. CASE Owns(who)
    <3>1. spoiled' = spoiled
      BY <1>1, <1>2, <1>5, <2>1, <2>2 DEF Spoil
    <3>2. g_acc[h].sum = who
      BY <1>0, <2>2 DEF Owns
    <3> QED
      BY <1>1, <3>1, <3>2 DEF Owns
  <2>3. CASE ~Owns(who)
    <3>1. MaxLapses # 0 /\ ~Steady
      BY <1>0, <1>1, <2>1, <2>3 DEF HandleInv, Steady
    <3>2. spoiled' = [spoiled EXCEPT ![g_acc[h].sum] = @ \cup MapEvent]
      BY <1>2, <1>5, <2>3 DEF Spoil
    <3>3. /\ spoiled' \in [Client -> SUBSET MapEvent]
          /\ \A d \in Client : spoiled[d] \subseteq spoiled'[d]
          /\ MapEvent \subseteq spoiled'[g_acc[h].sum]
      BY <1>1, <2>1, <3>2
    <3> QED
      BY <3>1, <3>3 DEF Owns
  <2> QED
    BY <2>2, <2>3
<1>6. CASE g_acc' # g_acc
  <2>1. /\ Live(h)
        /\ \E tag \in Tag :
             /\ Len(g_acc[h].tag_map) < g_acc[h].ops
             /\ g_acc' = [g_acc EXCEPT ![h] =
                  [g_acc[h] EXCEPT !.tag_map = Append(g_acc[h].tag_map, tag)]]
    BY <1>0, <1>6, TagStep
  <2>2. \A d : Owns(d) => handle[d] \in Id
    BY DEF Owns, Live
  <2>3. /\ PoolType'
        /\ \A id \in Id :
             /\ g_acc'[id].in_use = g_acc[id].in_use
             /\ g_acc'[id].complete = g_acc[id].complete
             /\ g_acc'[id].ops = g_acc[id].ops
             /\ g_acc'[id].events = g_acc[id].events
             /\ g_acc'[id].next_event = g_acc[id].next_event
             /\ g_acc'[id].sum = g_acc[id].sum
        /\ \A id \in Id : id # h => g_acc'[id] = g_acc[id]
    BY <1>4, <2>1
  <2> QED
    BY <1>5, <1>6, <2>1, <2>2, <2>3
<1> QED
  BY <1>3, <1>6

(* The table of c's matrix and the row in hand, after c has found the row   *)
(* of its operator.                                                         *)
LEMMA RowFound ==
  ASSUME AccInv, FindRow, NEW c, c = who, NEW h, h = handle[c], Owns(c), Sound(c)
  PROVE  /\ IF RowOf(c, op) < g_acc[h].ops THEN row' = RowOf(c, op)
                                           ELSE row' >= g_acc[h].ops
         /\ job[c].by_tag =>
              /\ \A i \in DOMAIN g_acc'[h].tag_map :
                   \E n \in Operators(c) :
                     /\ RowOf(c, n) = i - 1
                     /\ Text(g_acc'[h].tag_map[i]) = TextOf(c, n)
              /\ \A n \in Operators(c) :
                   (n < op + 1 \/ (MaxLapses = 0 /\ g_acc[h].next_event > 0))
                     /\ RowOf(c, n) < g_acc[h].ops =>
                     RowOf(c, n) < Len(g_acc'[h].tag_map)
<1> USE DEF AccInv
<1>1. /\ c \in Client /\ op \in Operators(c) /\ op \in Nat
      /\ Live(h) /\ h \in Id /\ g_acc[h].sum = c
  BY RunAssumption DEF FindRow, TypeOK, Operators, Owns, Live
<1>2. job[c].by_tag \in BOOLEAN
  BY <1>1, RunAssumption DEF TypeOK
<1>3. CASE job[c].by_tag = FALSE
  <2>1. RowOf(c, op) = op
    BY <1>3, TagRow DEF RowOf
  <2>2. row' = op
    BY <1>3 DEF FindRow
  <2>3. g_acc[h].ops \in Nat
    BY <1>1, LiveFacts, Bounds
  <2> QED
    BY <1>1, <1>3, <2>1, <2>2, <2>3
<1>4. CASE job[c].by_tag = TRUE
  <2> DEFINE tm == g_acc[h].tag_map
             ops == g_acc[h].ops
             tag == Model[c][op + 1]
             Wanted(n) == n < op \/ (MaxLapses = 0 /\ g_acc[h].next_event > 0)
  <2>1. /\ tm \in Seq(Tag) /\ Len(tm) \in Nat /\ DOMAIN tm = 1 .. Len(tm)
        /\ ops \in Nat /\ ops <= NoRow /\ Len(tm) <= ops
        /\ g_acc \in [Id -> Acc]
    <3>1. tm \in Seq(Tag) /\ ops \in 1 .. MaxOps /\ Len(tm) <= ops
      BY <1>1, LiveFacts
    <3>2. Len(tm) \in Nat /\ DOMAIN tm = 1 .. Len(tm)
      BY <3>1
    <3>3. g_acc \in [Id -> Acc]
      BY DEF PoolInv
    <3> QED
      BY <3>1, <3>2, <3>3, Bounds
  <2>2. \A n : RowOf(c, n) = RowIn(c, TRUE, n)
    BY <1>4 DEF RowOf
  <2>3. Seen(c) = op
    BY DEF FindRow, Seen
  <2>4. /\ \A i \in DOMAIN tm : \E m \in Operators(c) :
             RowOf(c, m) = i - 1 /\ Text(tm[i]) = TextOf(c, m)
        /\ \A m \in Operators(c) :
             Wanted(m) /\ RowOf(c, m) < ops => RowOf(c, m) < Len(tm)
    <3>1. TagInv(c)
      BY <1>1
    <3> QED
      BY <1>4, <2>3, <3>1 DEF TagInv, Entered
  <2>5. /\ \A i \in DOMAIN tm :
             Text(tm[i]) = TextOf(c, op) => i - 1 = RowOf(c, op)
        /\ (\A i \in DOMAIN tm : Text(tm[i]) # TextOf(c, op)) =>
             IF Len(tm) < ops THEN RowOf(c, op) = Len(tm)
                              ELSE RowOf(c, op) >= ops
    <3> HIDE DEF tm, ops
    <3>1. /\ \A i \in DOMAIN tm : \E m \in Operators(c) :
               RowIn(c, TRUE, m) = i - 1 /\ Text(tm[i]) = TextOf(c, m)
          /\ \A m \in Operators(c) :
               m < op /\ RowIn(c, TRUE, m) < ops => RowIn(c, TRUE, m) < Len(tm)
      BY <2>2, <2>4
    <3>2. /\ \A i \in DOMAIN tm :
               Text(tm[i]) = TextOf(c, op) => i - 1 = RowIn(c, TRUE, op)
          /\ (\A i \in DOMAIN tm : Text(tm[i]) # TextOf(c, op)) =>
               IF Len(tm) < ops THEN RowIn(c, TRUE, op) = Len(tm)
                                ELSE RowIn(c, TRUE, op) >= ops
      BY <1>1, <2>1, <3>1, TableTells
    <3> QED
      BY <2>2, <3>2
  <2>6. RowOf(c, op) \in Nat
    BY <1>1, <1>2, RowNat DEF RowOf
  <2>7. ASSUME NEW n \in Operators(c), n < op + 1 PROVE n < op \/ n = op
    BY <1>1, <2>7 DEF Operators
  <2>8. tag \in Tag /\ Text(tag) = TextOf(c, op)
    <3>1. Model[c] \in Seq(Tag) /\ op + 1 \in 1 .. Len(Model[c])
      BY <1>1, RunAssumption DEF Operators
    <3> QED
      BY <3>1 DEF TextOf
  <2>9. nsx_pmu_accm_resolve_tag(h, tag)
    BY <1>4 DEF FindRow
  <2> HIDE DEF tag
  <2>10. CASE /\ g_acc' = g_acc
              /\ \E i \in DOMAIN tm : row' = i - 1 /\ Text(tm[i]) = Text(tag)
    <3>1. PICK i \in DOMAIN tm : row' = i - 1 /\ Text(tm[i]) = Text(tag)
      BY <2>10
    <3>2. row' = RowOf(c, op)
      BY <2>5, <2>8, <3>1
    <3> HIDE DEF tm, ops
    <3>3. RowOf(c, op) < Len(tm) /\ RowOf(c, op) < ops
      <4>1. i \in Nat /\ i <= Len(tm)
        BY <2>1, <3>1
      <4>2. i = RowOf(c, op) + 1
        BY <2>6, <3>1, <3>2, <4>1
      <4> QED
        BY <2>1, <2>6, <4>1, <4>2
    <3>4. \A n \in Operators(c) :
            (n < op + 1 \/ Wanted(n)) /\ RowOf(c, n) < ops => RowOf(c, n) < Len(tm)
      BY <2>4, <2>7, <3>3
    <3> QED
      BY <2>4, <2>10, <3>2, <3>3, <3>4 DEF tm, ops
  <2>11. CASE /\ g_acc' = g_acc /\ row' = NoRow /\ ~(Len(tm) < ops)
              /\ \A i \in DOMAIN tm : Text(tm[i]) # Text(tag)
    <3>1. RowOf(c, op) >= ops
      BY <2>5, <2>8, <2>11
    <3>2. ~(RowOf(c, op) < ops) /\ row' >= ops
      BY <2>1, <2>6, <2>11, <3>1, Bounds
    <3>3. \A n \in Operators(c) :
            (n < op + 1 \/ Wanted(n)) /\ RowOf(c, n) < ops => RowOf(c, n) < Len(tm)
      BY <2>4, <2>7, <3>2
    <3> QED
      BY <2>4, <2>11, <3>2, <3>3
  <2>12. CASE /\ row' = Len(tm) /\ Len(tm) < ops
              /\ \A i \in DOMAIN tm : Text(tm[i]) # Text(tag)
              /\ g_acc' = [g_acc EXCEPT ![h] =
                   [g_acc[h] EXCEPT !.tag_map = Append(tm, tag)]]
    <3> DEFINE um == Append(tm, tag)
    <3>1. g_acc'[h].tag_map = um
      <4>1. um \in Seq(Tag) /\ g_acc[h] \in Acc
        BY <1>1, <2>1, <2>8
      <4>2. [g_acc[h] EXCEPT !.tag_map = um].tag_map = um
        BY <4>1, SetTagMap
      <4> QED
        BY <1>1, <2>1, <2>12, <4>2
    <3>2. RowOf(c, op) = Len(tm)
      BY <2>5, <2>8, <2>12
    <3>3. /\ Len(um) = Len(tm) + 1 /\ DOMAIN um = 1 .. Len(tm) + 1
          /\ \A i \in DOMAIN tm : um[i] = tm[i]
          /\ um[Len(tm) + 1] = tag
      BY <2>1, <2>8
    <3> HIDE DEF tm, ops, um
    <3>4. ASSUME NEW i \in DOMAIN um
          PROVE  \E n \in Operators(c) :
                   RowOf(c, n) = i - 1 /\ Text(um[i]) = TextOf(c, n)
      <4>1. CASE i \in DOMAIN tm
        BY <2>4, <3>3, <4>1
      <4>2. CASE i \notin DOMAIN tm
        <5>1. i = Len(tm) + 1
          BY <2>1, <3>3, <3>4, <4>2
        <5>2. i - 1 = RowOf(c, op) /\ um[i] = tag
          BY <2>1, <3>2, <3>3, <5>1
        <5> QED
          BY <1>1, <2>8, <5>2
      <4> QED
        BY <4>1, <4>2
    <3>5. ASSUME NEW n \in Operators(c), n < op + 1 \/ Wanted(n), RowOf(c, n) < ops
          PROVE  RowOf(c, n) < Len(um)
      <4>1. RowOf(c, n) \in Nat
        BY <1>1, <1>2, RowNat DEF RowOf
      <4>2. RowOf(c, n) < Len(tm) \/ RowOf(c, n) = Len(tm)
        BY <2>4, <2>7, <3>2, <3>5
      <4> QED
        BY <2>1, <3>3, <4>1, <4>2
    <3>6. IF RowOf(c, op) < ops THEN row' = RowOf(c, op) ELSE row' >= ops
      <4>1. RowOf(c, op) < ops
        BY <2>12, <3>2 DEF tm, ops
      <4> QED
        BY <2>12, <3>2, <4>1 DEF tm
    <3>7. \A n \in Operators(c) :
            (n < op + 1 \/ Wanted(n)) /\ RowOf(c, n) < ops => RowOf(c, n) < Len(um)
      BY <3>5
    <3> QED
      BY <3>1, <3>4, <3>6, <3>7 DEF ops
  <2>13. \/ /\ g_acc' = g_acc
            /\ \E i \in DOMAIN tm : row' = i - 1 /\ Text(tm[i]) = Text(tag)
         \/ /\ g_acc' = g_acc /\ row' = NoRow /\ ~(Len(tm) < ops)
            /\ \A i \in DOMAIN tm : Text(tm[i]) # Text(tag)
         \/ /\ row' = Len(tm) /\ Len(tm) < ops
            /\ \A i \in DOMAIN tm : Text(tm[i]) # Text(tag)
            /\ g_acc' = [g_acc EXCEPT ![h] =
                 [g_acc[h] EXCEPT !.tag_map = Append(tm, tag)]]
    <3>1. TypeOK /\ PoolInv
      BY <1>1
    <3>2. \/ ~Live(h)
          \/ /\ g_acc' = g_acc
             /\ \E i \in DOMAIN tm : row' = i - 1 /\ Text(tm[i]) = Text(tag)
          \/ /\ g_acc' = g_acc /\ row' = NoRow /\ ~(Len(tm) < g_acc[h].ops)
             /\ \A i \in DOMAIN tm : Text(tm[i]) # Text(tag)
          \/ /\ row' = Len(tm) /\ Len(tm) < g_acc[h].ops
             /\ \A i \in DOMAIN tm : Text(tm[i]) # Text(tag)
             /\ g_acc' = [g_acc EXCEPT ![h] =
                  [g_acc[h] EXCEPT !.tag_map = Append(tm, tag)]]
      BY ONLY <2>8, <2>9, <3>1, Resolves, Zenon
    <3> QED
      BY ONLY <1>1, <3>2, Zenon
  <2> QED
    BY <2>10, <2>11, <2>12, <2>13
<1> QED
  BY <1>2, <1>3, <1>4

LEMMA FindRowInv ==
  ASSUME AccInv, FindRow PROVE AccInv'
<1> USE DEF AccInv
<1>1. /\ pc = "row" /\ pc' = "begin" /\ op < Len(Model[who])
      /\ UNCHANGED <<handle, buffer, who, op, job, lapses>>
      /\ UNCHANGED <<ready, owner, want, tally>>
  BY DEF FindRow, meter
<1>2. PICK h : h = handle[who]
  OBVIOUS
<1>3. row' \in 0 .. NoRow
  BY <1>2, TagStep
<1>4. /\ PoolType'
      /\ \A id \in Id :
           /\ g_acc'[id].in_use = g_acc[id].in_use
           /\ g_acc'[id].complete = g_acc[id].complete
           /\ g_acc'[id].ops = g_acc[id].ops
           /\ g_acc'[id].events = g_acc[id].events
           /\ g_acc'[id].next_event = g_acc[id].next_event
           /\ g_acc'[id].sum = g_acc[id].sum
      /\ spoiled' \in [Client -> SUBSET MapEvent]
      /\ \A d \in Client :
           /\ spoiled[d] \subseteq spoiled'[d]
           /\ Steady => spoiled'[d] = spoiled[d]
           /\ Owns(d) /\ d # who =>
                \/ g_acc'[handle[d]] = g_acc[handle[d]]
                \/ MapEvent \subseteq spoiled'[d] /\ MaxLapses # 0
  BY TagStepKeeps
<1>5. /\ \A id : Live(id)' <=> Live(id)
      /\ \A d : Owns(d)' <=> Owns(d)
      /\ \A d : Owns(d) => handle[d] \in Id
  BY <1>1, <1>4 DEF Live, Owns
<1>6. TypeOK'
  BY <1>1, <1>3, <1>4 DEF TypeOK, PoolType
<1>7. PoolInv'
  <2>1. ASSUME NEW id \in Id, Live(id)' PROVE MatrixOK(id)'
    <3>1. MatrixOK(id)
      BY <1>5, <2>1 DEF PoolInv
    <3> QED
      BY <1>1, <1>4, <3>1 DEF MatrixOK
  <2>2. ASSUME NEW id \in Id, owner' = id PROVE OwnerOK(id)'
    <3>1. OwnerOK(id)
      BY <1>1, <2>2 DEF PoolInv
    <3>2. PassRequest(g_acc[id])' = PassRequest(g_acc[id])
      BY <1>4 DEF PassRequest
    <3> QED
      BY <1>1, <1>4, <1>5, <3>1, <3>2 DEF OwnerOK
  <2> QED
    BY <1>4, <2>1, <2>2 DEF PoolInv, PoolType
<1>8. PlaceInv'
  BY <1>1 DEF PlaceInv
<1>9. HandleInv' /\ SteadyInv'
  BY <1>1, <1>4, <1>5 DEF HandleInv, SteadyInv
<1>10. \A d \in Client : Kept(d)
  BY <1>1, <1>4, <1>5 DEF Kept
<1>11. ASSUME NEW d \in Client
       PROVE  CellsInv(d)'
  <2>1. Done(d)' = Done(d)
    BY <1>1 DEF Done
  <2> QED
    BY <1>1, <1>10, <2>1, CellsFrame
<1>12. ASSUME NEW d \in Client, d # who
       PROVE  TagInv(d)' /\ RowInv(d)'
  <2> SUFFICES ASSUME Sound(d)' PROVE TagInv(d)'
    BY <1>1, <1>12 DEF TagInv, RowInv
  <2>1. Owns(d) /\ g_acc'[handle[d]] = g_acc[handle[d]]
    BY <1>4, <1>5, <1>12 DEF Sound
  <2>2. Seen(d) = 0 /\ Seen(d)' = 0
    BY <1>1, <1>12 DEF Seen
  <2> QED
    BY <1>10, <2>1, <2>2, TagFrame
<1>13. ASSUME NEW c \in Client, c = who, Sound(c)'
       PROVE  TagInv(c)' /\ RowInv(c)'
  <2>1. /\ Owns(c) /\ Sound(c) /\ h = handle[c] /\ h \in Id
        /\ handle'[c] = h
        /\ g_acc'[h].ops = g_acc[h].ops
        /\ g_acc'[h].next_event = g_acc[h].next_event
    BY <1>1, <1>2, <1>4, <1>5, <1>13 DEF Sound
  <2>2. \A n : RowOf(c, n)' = RowOf(c, n)
    BY <1>1 DEF RowOf
  <2>3. Seen(c)' = op + 1
    BY <1>1, <1>13 DEF Seen
  <2>4. RowInv(c)'
    BY <1>1, <1>13, <2>1, <2>2, RowFound DEF RowInv
  <2>5. ASSUME job[c].by_tag
        PROVE  TagInv(c)'
    <3>1. /\ \A i \in DOMAIN g_acc'[h].tag_map :
               \E n \in Operators(c) :
                 /\ RowOf(c, n)' = i - 1
                 /\ Text(g_acc'[h].tag_map[i]) = TextOf(c, n)
          /\ \A n \in Operators(c) :
               (n < op + 1 \/ (MaxLapses = 0 /\ g_acc[h].next_event > 0))
                 /\ RowOf(c, n)' < g_acc[h].ops =>
                 RowOf(c, n)' < Len(g_acc'[h].tag_map)
      BY <1>13, <2>1, <2>2, <2>5, RowFound
    <3> QED
      BY <2>1, <2>3, <3>1 DEF TagInv, Entered
  <2>6. ASSUME ~job[c].by_tag PROVE TagInv(c)'
    BY <1>1, <2>6 DEF TagInv
  <2> QED
    BY <2>4, <2>5, <2>6
<1>14. ASSUME NEW c \in Client, c = who
       PROVE  TagInv(c)' /\ RowInv(c)'
  BY <1>13, <1>14 DEF TagInv, RowInv
<1> QED
  BY <1>6, <1>7, <1>8, <1>9, <1>11, <1>12, <1>14

-----------------------------------------------------------------------------
(* Reading the counters at the end of an operator *)

LEMMA SpoilKeeps ==
  ASSUME AccInv, NEW h, NEW columns \in SUBSET MapEvent, Spoil(h, columns)
  PROVE  /\ spoiled' \in [Client -> SUBSET MapEvent]
         /\ \A d \in Client : spoiled[d] \subseteq spoiled'[d]
         /\ Live(h) => columns \subseteq spoiled'[g_acc[h].sum]
         /\ columns = {} => spoiled' = spoiled
<1>1. spoiled \in [Client -> SUBSET MapEvent]
  BY DEF AccInv, TypeOK
<1>2. CASE Live(h)
  <2>1. g_acc[h].sum \in Client
    BY <1>2, LiveFacts DEF AccInv
  <2>2. spoiled' = [spoiled EXCEPT ![g_acc[h].sum] = @ \cup columns]
    BY <1>2 DEF Spoil
  <2> QED
    BY <1>1, <2>1, <2>2
<1>3. CASE ~Live(h)
  BY <1>1, <1>3 DEF Spoil
<1> QED
  BY <1>2, <1>3

LEMMA PassListed ==
  ASSUME AccInv, NEW h, Live(h)
  PROVE  PassColumns(g_acc[h]) \in SUBSET MapEvent
<1>1. g_acc[h].next_event \in Nat /\ g_acc[h].events \in 1 .. MapSize
  BY LiveFacts DEF AccInv
<1>2. PassColumns(g_acc[h]) \subseteq g_acc[h].next_event .. g_acc[h].events - 1
  BY <1>1, Bounds, Columns
<1> QED
  BY <1>1, <1>2, Bounds

LEMMA ValuesNat ==
  ASSUME TypeOK, NEW h, NEW value \in CounterValues(h), NEW s \in Slot
  PROVE  value[s] \in Nat
<1>1. CASE ~ready
  BY <1>1 DEF CounterValues
<1>2. CASE value \in [Slot -> Foreign]
  BY <1>2, MeterAssumption
<1>3. CASE value = [i \in Slot |-> Exact(i)]
  <2>1. value[s] = Exact(s)
    BY <1>3
  <2>2. want[s] \in Request
    BY DEF TypeOK
  <2>3. CASE want[s].enabled
    <3>1. tally[want[s].eventId] \in Nat
      BY <2>2 DEF TypeOK, Request
    <3>2. Modulus(want[s].counterSize) \in Nat /\ Modulus(want[s].counterSize) > 0
      BY WordNat, MeterAssumption DEF Modulus, Word
    <3>3. tally[want[s].eventId] % Modulus(want[s].counterSize) \in Nat
      <4> DEFINE t == tally[want[s].eventId]
                 m == Modulus(want[s].counterSize)
      <4> HIDE DEF t, m
      <4>1. t \in Nat /\ m \in Nat /\ m > 0
        BY <3>1, <3>2 DEF t, m
      <4>2. t % m \in 0 .. m - 1
        BY <4>1, DivMod
      <4>3. t % m \in Nat
        BY <4>1, <4>2
      <4> QED
        BY <4>3 DEF t, m
    <3> QED
      BY <2>1, <2>3, <3>3 DEF Exact
  <2>4. CASE ~want[s].enabled
    BY <2>1, <2>4 DEF Exact
  <2> QED
    BY <2>3, <2>4
<1>4. ready => value \in [Slot -> Foreign] \/ value = [i \in Slot |-> Exact(i)]
  BY DEF CounterValues, Readings
<1> QED
  BY <1>1, <1>2, <1>3, <1>4

(* What the owner reads in the slot of a column of its pass. *)
LEMMA OwnerReads ==
  ASSUME TypeOK, PoolInv, NEW h \in Id, owner = h, ~g_acc[h].complete,
         NEW value \in CounterValues(h), NEW e \in PassColumns(g_acc[h])
  PROVE  value[e - g_acc[h].next_event] = tally[e] % Word
<1> DEFINE a == g_acc[h]
           s == e - a.next_event
<1>1. OwnerOK(h)
  BY DEF PoolInv
<1>2. Live(h) /\ ready /\ want = PassRequest(a)
  BY <1>1 DEF OwnerOK
<1>3. a.next_event \in Nat /\ a.events \in Nat
  <2>1. a.next_event \in Nat /\ a.events \in 1 .. MapSize
    BY <1>2, LiveFacts
  <2> QED
    BY ONLY <2>1, Bounds
<1>4. /\ e \in a.next_event .. a.events - 1
      /\ s \in 0 .. EventsPerRun - 1
  BY <1>3, Columns
<1>5. s \in Slot
  <2>1. Slot = 0 .. 2 * EventsPerRun - 1
    BY AccumulatorAssumption
  <2> QED
    BY ONLY <1>4, <2>1, Bounds
<1>6. /\ s < EventsPerRun /\ a.next_event + s = e /\ a.next_event + s < a.events
  <2>1. EventsPerRun \in Nat
    BY Bounds
  <2>2. e \in Nat /\ s = e - a.next_event
    BY ONLY <1>3, <1>4 DEF s
  <2> HIDE DEF s
  <2> QED
    BY ONLY <1>3, <1>4, <2>1, <2>2
<1> HIDE DEF s
<1>7. want[s] = [enabled |-> TRUE, eventId |-> e, counterSize |-> 32]
  BY <1>2, <1>5, <1>6 DEF PassRequest
<1>8. Exact(s) = tally[e] % Word
  BY <1>7 DEF Exact, Word
<1>9. value = [i \in Slot |-> Exact(i)]
  BY <1>2 DEF CounterValues, Readings
<1> QED
  BY <1>5, <1>8, <1>9 DEF s

(* The cells that op_end(h, row) writes. *)
LEMMA CellsWritten ==
  ASSUME AccInv, NEW h, HasRow(h, row), nsx_pmu_accm_op_end(h, row)
  PROVE  /\ ready => Zero
         /\ ~ready => UNCHANGED meter
         /\ buffer' \in [Client -> [0 .. BufferSize - 1 -> 0 .. Word - 1]]
         /\ \A d \in Client : d # g_acc[h].sum => buffer'[d] = buffer[d]
         /\ PassColumns(g_acc[h]) = {} => buffer' = buffer
         /\ \E value \in CounterValues(h) :
              \A r \in 0 .. g_acc[h].ops - 1, e \in 0 .. g_acc[h].events - 1 :
                buffer'[g_acc[h].sum][Cell(g_acc[h], r, e)] =
                  IF r = row /\ e \in PassColumns(g_acc[h])
                    THEN (buffer[g_acc[h].sum][Cell(g_acc[h], r, e)] +
                            value[e - g_acc[h].next_event]) % Word
                    ELSE buffer[g_acc[h].sum][Cell(g_acc[h], r, e)]
<1> USE DEF AccInv
<1> DEFINE a == g_acc[h]
           d == a.sum
           column(k) == k - Cell(a, row, 0)
<1>1. /\ Live(h) /\ row < a.ops /\ row \in Nat
      /\ a.ops \in Nat /\ a.events \in Nat /\ a.next_event \in Nat
      /\ d \in Client /\ a.ops * a.events \in Nat
      /\ a.ops * a.events <= BufferSize
  <2>1. Live(h) /\ row < a.ops
    BY DEF HasRow
  <2>2. row \in Nat
    BY Bounds DEF TypeOK
  <2>3. /\ a.ops \in 1 .. MaxOps /\ a.events \in 1 .. MapSize
        /\ a.next_event \in Nat /\ d \in Client
        /\ a.ops * a.events \in Nat /\ a.ops * a.events <= BufferSize
    BY <2>1, LiveFacts
  <2>4. a.ops \in Nat /\ a.events \in Nat
    <3>1. a.ops \in 1 .. MaxOps /\ a.events \in 1 .. MapSize
      BY ONLY <2>3, Zenon
    <3> QED
      BY ONLY <3>1
  <2> QED
    BY ONLY <2>1, <2>2, <2>3, <2>4, Zenon
<1>2. PICK value \in CounterValues(h) :
        buffer' = [buffer EXCEPT ![d] =
          [k \in 0 .. BufferSize - 1 |->
             IF column(k) \in PassColumns(a)
               THEN (@[k] + value[column(k) - a.next_event]) % Word
               ELSE @[k]]]
  BY DEF nsx_pmu_accm_op_end
<1>3. ready => Zero
  BY DEF nsx_pmu_accm_op_end
<1>4. ~ready => UNCHANGED meter
  BY DEF nsx_pmu_accm_op_end
<1>5. buffer \in [Client -> [0 .. BufferSize - 1 -> 0 .. Word - 1]]
  BY DEF TypeOK
<1> DEFINE b == [k \in 0 .. BufferSize - 1 |->
                   IF column(k) \in PassColumns(a)
                     THEN (buffer[d][k] + value[column(k) - a.next_event]) % Word
                     ELSE buffer[d][k]]
<1>6. buffer' = [buffer EXCEPT ![d] = b]
  BY <1>2
<1>7. b \in [0 .. BufferSize - 1 -> 0 .. Word - 1]
  <2>1. ASSUME NEW k \in 0 .. BufferSize - 1
        PROVE  b[k] \in 0 .. Word - 1
    <3>1. buffer[d][k] \in 0 .. Word - 1
      BY <1>1, <1>5
    <3>2. CASE column(k) \in PassColumns(a)
      <4> DEFINE x == buffer[d][k]
                 y == value[column(k) - a.next_event]
      <4>1. y \in Nat
        <5>1. \A e \in PassColumns(a) : e - a.next_event \in 0 .. EventsPerRun - 1
          BY <1>1, Columns
        <5> HIDE DEF column
        <5>2. column(k) - a.next_event \in 0 .. EventsPerRun - 1
          BY <3>2, <5>1
        <5>3. 0 .. EventsPerRun - 1 \subseteq Slot
          <6>1. Slot = 0 .. 2 * EventsPerRun - 1
            BY AccumulatorAssumption
          <6> QED
            BY ONLY <6>1, Bounds
        <5> QED
          BY <5>2, <5>3, ValuesNat
      <4>2. b[k] = (x + y) % Word
        BY <3>2
      <4> HIDE DEF x, y
      <4>3. x + y \in Nat
        BY <3>1, <4>1, WordNat DEF x
      <4>4. (x + y) % Word \in 0 .. Word - 1
        BY <4>3, WordNat, DivMod
      <4> QED
        BY <4>2, <4>4
    <3>3. CASE column(k) \notin PassColumns(a)
      <4>1. b[k] = buffer[d][k]
        BY <3>3
      <4> QED
        BY <3>1, <4>1
    <3> QED
      BY <3>2, <3>3
  <2> QED
    BY <2>1
<1>8. ASSUME PassColumns(a) = {} PROVE buffer' = buffer
  <2>1. b = [k \in 0 .. BufferSize - 1 |-> buffer[d][k]]
    BY <1>8
  <2>2. b = buffer[d]
    BY <1>1, <1>5, <2>1
  <2> HIDE DEF b
  <2> QED
    BY <1>1, <1>5, <1>6, <2>2
<1> DEFINE Sum(v, r, e) ==
             IF r = row /\ e \in PassColumns(a)
               THEN (buffer[d][Cell(a, r, e)] + v[e - a.next_event]) % Word
               ELSE buffer[d][Cell(a, r, e)]
<1>9. ASSUME NEW r \in 0 .. a.ops - 1, NEW e \in 0 .. a.events - 1
      PROVE  b[Cell(a, r, e)] = Sum(value, r, e)
  <2>1. Cell(a, r, e) \in 0 .. BufferSize - 1
    <3>1. Cell(a, r, e) \in 0 .. a.ops * a.events - 1
      BY <1>1, CellInside DEF Cell
    <3>2. a.ops * a.events \in Nat /\ a.ops * a.events <= BufferSize
      BY ONLY <1>1
    <3> QED
      BY ONLY <3>1, <3>2, Bounds
  <2>2. CASE r = row
    <3>1. column(Cell(a, r, e)) = e
      <4>1. r * a.events \in Nat
        BY <1>1, Z3
      <4> QED
        BY <2>2, <4>1 DEF Cell
    <3> HIDE DEF column
    <3> QED
      BY <2>1, <2>2, <3>1
  <2>3. CASE r # row
    <3>1. column(Cell(a, r, e)) \notin 0 .. a.events - 1
      BY <1>1, <2>3, CellsApart DEF Cell
    <3>2. PassColumns(a) \subseteq 0 .. a.events - 1
      <4>1. PassColumns(a) \subseteq a.next_event .. a.events - 1
        BY <1>1, Columns
      <4> QED
        BY ONLY <1>1, <4>1
    <3>3. column(Cell(a, r, e)) \notin PassColumns(a)
      BY <3>1, <3>2
    <3> HIDE DEF column
    <3> QED
      BY <2>1, <2>3, <3>3
  <2> QED
    BY <2>2, <2>3
<1>10. /\ buffer' \in [Client -> [0 .. BufferSize - 1 -> 0 .. Word - 1]]
       /\ buffer'[d] = b
       /\ \A c \in Client : c # d => buffer'[c] = buffer[c]
  <2> HIDE DEF b
  <2> QED
    BY <1>1, <1>5, <1>6, <1>7
<1> HIDE DEF Sum, b
<1>11. \E v \in CounterValues(h) :
         \A r \in 0 .. a.ops - 1, e \in 0 .. a.events - 1 :
           buffer'[d][Cell(a, r, e)] = Sum(v, r, e)
  BY ONLY <1>9, <1>10, value \in CounterValues(h), Zenon
<1> QED
  BY ONLY <1>3, <1>4, <1>8, <1>10, <1>11 DEF Sum

(* The matrix of the client whose operator ends. *)
LEMMA CellsMeasured ==
  ASSUME AccInv, OpEnd, NEW c \in Client, Owns(c),
         NEW r \in 0 .. g_acc[handle[c]].ops - 1,
         NEW e \in 0 .. g_acc[handle[c]].events - 1,
         c = who \/ (Live(handle[who]) /\ g_acc[handle[who]].sum = c),
         e \notin spoiled'[c]
  PROVE  buffer'[c][Cell(g_acc[handle[c]], r, e)] =
           Occurrences(c, job[c].by_tag, r, e)[Measured(c, e)'] % Word
<1> USE DEF AccInv
<1>1. PICK h : h = handle[who]
  OBVIOUS
<1>2. /\ pc = "end" /\ pc' = "gap" /\ nsx_pmu_accm_op_end(h, row)
      /\ Spoil(h, IF HasRow(h, row) /\ (owner # h \/ ~Owns(who))
                    THEN PassColumns(g_acc[h]) ELSE {})
      /\ UNCHANGED <<g_acc, handle, row, who, op, job>>
      /\ op < Len(Model[who]) /\ op \in Nat /\ who \in Client
  BY <1>1 DEF OpEnd, PlaceInv, TypeOK
<1>3. /\ handle[c] = h /\ Live(h) /\ h \in Id /\ g_acc[h].sum = c
  BY <1>1, LiveFacts, OwnsFacts
<1> DEFINE a == g_acc[h]
           occ == Occurrences(c, job[c].by_tag, r, e)
           k == Cell(a, r, e)
<1>4. /\ r \in 0 .. a.ops - 1 /\ e \in 0 .. a.events - 1 /\ e \in MapEvent
      /\ a.ops \in Nat /\ a.events \in Nat /\ a.next_event \in Nat
      /\ a.complete <=> a.next_event >= a.events
      /\ r \in Nat /\ row \in Nat
  <2>1. /\ a.events \in 1 .. MapSize /\ a.ops \in 1 .. MaxOps
        /\ a.next_event \in Nat /\ (a.complete <=> a.next_event >= a.events)
    BY <1>3, LiveFacts
  <2>2. /\ r \in 0 .. a.ops - 1 /\ e \in 0 .. a.events - 1
    BY <1>3
  <2>3. row \in Nat
    BY Bounds DEF TypeOK
  <2>4. a.ops \in Nat /\ a.events \in Nat /\ r \in Nat
    BY ONLY <2>1, <2>2, Bounds
  <2>5. e \in MapEvent
    BY ONLY <2>1, <2>2, Bounds
  <2> QED
    BY <2>1, <2>2, <2>3, <2>4, <2>5
<1>5. job[c].by_tag \in BOOLEAN
  BY RunAssumption DEF TypeOK
<1>6. /\ spoiled[c] \subseteq spoiled'[c]
      /\ HasRow(h, row) /\ (owner # h \/ ~Owns(who)) =>
           PassColumns(a) \subseteq spoiled'[c]
  <2>1. PassColumns(a) \in SUBSET MapEvent
    BY <1>3, PassListed
  <2> QED
    BY <1>2, <1>3, <2>1, SpoilKeeps
<1>7. buffer[c][k] = occ[Measured(c, e)] % Word
  BY <1>3, <1>4, <1>6 DEF CellsInv
<1>8. CASE e \notin PassColumns(a)
  <2>1. Measured(c, e)' = Measured(c, e)
    BY <1>2, <1>3, <1>8 DEF Measured, PassColumns
  <2>2. buffer'[c][k] = buffer[c][k]
    <3>1. CASE HasRow(h, row)
      BY <1>2, <1>3, <1>4, <1>8, <3>1, CellsWritten
    <3>2. CASE ~HasRow(h, row)
      BY <1>2, <3>2 DEF nsx_pmu_accm_op_end
    <3> QED
      BY <3>1, <3>2
  <2> QED
    BY <1>3, <1>7, <2>1, <2>2
<1>9. CASE e \in PassColumns(a)
  <2>1. /\ ~a.complete
        /\ ~(e < a.next_event)
    <3>1. PassColumns(a) \subseteq a.next_event .. a.events - 1
      BY <1>4, Columns
    <3> QED
      BY <1>4, <1>9, <3>1
  <2>2. CASE who # c
    <3>1. HasRow(h, row) => e \in spoiled'[c]
      BY <1>3, <1>6, <1>9, <2>2, <1>1 DEF Owns
    <3>2. ~HasRow(h, row)
      BY <3>1
    <3>3. buffer'[c][k] = buffer[c][k]
      BY <1>2, <3>2 DEF nsx_pmu_accm_op_end
    <3>4. Measured(c, e)' = Measured(c, e)
      BY <1>2, <1>3, <2>2 DEF Measured, Done, PassColumns
    <3> QED
      BY <1>3, <1>7, <3>3, <3>4
  <2>3. CASE who = c
    <3>1. op \in Operators(c) /\ Len(Model[c]) \in Nat
      BY <1>2, <2>3, RunAssumption DEF Operators
    <3>2. Measured(c, e) = op /\ Measured(c, e)' = op + 1
      BY <1>2, <1>3, <1>9, <2>1, <2>3 DEF Measured, Done, PassColumns
    <3>3. /\ occ[op] \in Nat /\ Cost(op, e) \in Nat
          /\ occ[op + 1] = occ[op] + IF RowOf(c, op) = r THEN Cost(op, e) ELSE 0
      <4>1. op \in 0 .. Len(Model[c]) /\ op \in 0 .. Len(Model[c]) - 1
        BY <3>1 DEF Operators
      <4>2. Cost(op, e) \in Nat
        BY <1>4, <4>1, RunAssumption
      <4>3. occ[op] \in Nat
        BY <1>4, <1>5, <4>1, OccurrencesAre
      <4>4. occ[op + 1] = occ[op] + IF RowOf(c, op) = r THEN Cost(op, e) ELSE 0
        BY <1>4, <1>5, <3>1, OccurrencesAre DEF RowOf
      <4> QED
        BY <4>2, <4>3, <4>4
    <3>4. IF RowOf(c, op) < a.ops THEN row = RowOf(c, op) ELSE row >= a.ops
      <4>1. Sound(c)
        BY <1>4, <1>6 DEF Sound
      <4> QED
        BY <1>2, <1>3, <2>3, <4>1 DEF RowInv
    <3>5. RowOf(c, op) \in Nat
      BY <1>5, <3>1, RowNat DEF RowOf
    <3>6. CASE row = r
      <4>1. RowOf(c, op) = r /\ HasRow(h, row)
        BY <1>3, <1>4, <3>4, <3>5, <3>6 DEF HasRow
      <4>2. owner = h
        BY <1>6, <1>9, <4>1
      <4>3. PICK value \in CounterValues(h) :
              buffer'[c][k] = (buffer[c][k] + value[e - a.next_event]) % Word
        BY <1>2, <1>3, <1>4, <1>9, <3>6, <4>1, CellsWritten
      <4>4. value[e - a.next_event] = Cost(op, e) % Word
        <5>1. tally[e] = Cost(op, e)
          BY <1>1, <1>2, <1>4, <4>1 DEF PlaceInv
        <5> QED
          BY <1>3, <1>9, <2>1, <4>2, <5>1, OwnerReads
      <4>5. buffer[c][k] = occ[op] % Word
        BY <1>7, <3>2
      <4>6. occ[op + 1] = occ[op] + Cost(op, e)
        BY <3>3, <4>1
      <4> HIDE DEF occ, k
      <4>7. ((occ[op] % Word) + (Cost(op, e) % Word)) % Word =
              (occ[op] + Cost(op, e)) % Word
        BY <3>3, WordNat, ModAdd
      <4>8. buffer'[c][k] = occ[op + 1] % Word
        BY ONLY <4>3, <4>4, <4>5, <4>6, <4>7
      <4> QED
        BY <1>3, <3>2, <4>8 DEF occ, k
    <3>7. CASE row # r
      <4>1. RowOf(c, op) # r
        BY <1>4, <3>4, <3>5, <3>7
      <4>2. buffer'[c][k] = buffer[c][k]
        <5>1. CASE HasRow(h, row)
          BY <1>2, <1>3, <1>4, <3>7, <5>1, CellsWritten
        <5>2. CASE ~HasRow(h, row)
          BY <1>2, <5>2 DEF nsx_pmu_accm_op_end
        <5> QED
          BY <5>1, <5>2
      <4> HIDE DEF occ
      <4>3. occ[op + 1] = occ[op]
        BY <3>3, <4>1
      <4> HIDE DEF k
      <4>4. buffer'[c][k] = occ[Measured(c, e)'] % Word
        BY <1>7, <3>2, <4>2, <4>3
      <4> QED
        BY <1>3, <4>4 DEF occ, k
    <3> QED
      BY <3>6, <3>7
  <2> QED
    BY <2>2, <2>3
<1> QED
  BY <1>8, <1>9

LEMMA OpEndInv ==
  ASSUME AccInv, OpEnd PROVE AccInv'
<1> USE DEF AccInv
<1>1. PICK h : h = handle[who]
  OBVIOUS
<1>2. /\ pc = "end" /\ pc' = "gap" /\ nsx_pmu_accm_op_end(h, row)
      /\ Spoil(h, IF HasRow(h, row) /\ (owner # h \/ ~Owns(who))
                    THEN PassColumns(g_acc[h]) ELSE {})
      /\ UNCHANGED <<g_acc, handle, row, who, op, job, lapses>>
  BY <1>1 DEF OpEnd
<1>3. /\ \A id : Live(id)' <=> Live(id)
      /\ \A d : Owns(d)' <=> Owns(d)
  BY <1>2 DEF Live, Owns
<1>4. /\ UNCHANGED <<ready, owner, want>> /\ MeterType'
      /\ buffer' \in [Client -> [0 .. BufferSize - 1 -> 0 .. Word - 1]]
  <2>1. MeterType
    BY Typed
  <2>2. CASE HasRow(h, row)
    <3>1. Zero \/ UNCHANGED meter
      BY <1>2, <2>2, CellsWritten DEF TypeOK
    <3>2. UNCHANGED <<ready, owner, want>> /\ MeterType'
      BY <2>1, <3>1, MeterSteps DEF Zero, meter
    <3> QED
      BY <1>2, <2>2, <3>2, CellsWritten
  <2>3. CASE ~HasRow(h, row)
    <3>1. UNCHANGED meter /\ buffer' = buffer
      BY <1>2, <2>3 DEF nsx_pmu_accm_op_end
    <3> QED
      BY <2>1, <3>1, MeterSteps DEF meter, TypeOK
  <2> QED
    BY <2>2, <2>3
<1>5. /\ spoiled' \in [Client -> SUBSET MapEvent]
      /\ \A d \in Client : spoiled[d] \subseteq spoiled'[d]
      /\ Steady => spoiled' = spoiled
  <2>1. CASE HasRow(h, row) /\ (owner # h \/ ~Owns(who))
    <3>1. Live(h)
      BY <2>1 DEF HasRow
    <3>2. PassColumns(g_acc[h]) \in SUBSET MapEvent
      BY <3>1, PassListed
    <3>3. ~Steady
      BY <1>1, <2>1, <3>1, NotLive DEF SteadyInv, HandleInv, Steady, Live, TypeOK
    <3> QED
      BY <1>2, <2>1, <3>2, <3>3, SpoilKeeps
  <2>2. CASE ~(HasRow(h, row) /\ (owner # h \/ ~Owns(who)))
    <3>1. Spoil(h, {})
      BY <1>2, <2>2
    <3> QED
      BY <3>1, SpoilKeeps
  <2> QED
    BY <2>1, <2>2
<1>6. TypeOK'
  <2>1. AccOK'
    BY <1>2 DEF TypeOK, AccOK
  <2> QED
    BY <1>2, <1>4, <1>5, <2>1 DEF TypeOK, MeterType
<1>7. PoolInv'
  <2>1. \A id \in Id : Live(id)' => MatrixOK(id)'
    BY <1>2, <1>3, MatrixFrame DEF PoolInv
  <2>2. \A id \in Id : owner' = id => OwnerOK(id)'
    BY <1>2, <1>4, OwnerFrame DEF PoolInv
  <2> QED
    BY <1>2, <2>1, <2>2 DEF PoolInv
<1>8. PlaceInv'
  BY <1>2 DEF PlaceInv
<1>9. HandleInv' /\ SteadyInv'
  BY <1>2, <1>3, <1>4, <1>5 DEF HandleInv, SteadyInv
<1>10. ASSUME NEW d \in Client
       PROVE  TagInv(d)' /\ RowInv(d)' /\ CellsInv(d)'
  <2>1. Kept(d)
    BY <1>2, <1>3, <1>5 DEF Kept
  <2>2. TagInv(d)'
    <3>1. Seen(d)' = Seen(d) /\ Seen(d) \in Nat
      BY <1>2, SeenNat DEF Seen
    <3> QED
      BY <1>2, <2>1, <3>1, TagFrame
  <2>3. CASE d = who \/ (Live(h) /\ g_acc[h].sum = d)
    <3>1. ASSUME Owns(d), NEW r \in 0 .. g_acc[handle[d]].ops - 1,
                 NEW e \in 0 .. g_acc[handle[d]].events - 1, e \notin spoiled'[d]
          PROVE  buffer'[d][Cell(g_acc[handle[d]], r, e)] =
                   Occurrences(d, job[d].by_tag, r, e)[Measured(d, e)'] % Word
      BY <1>1, <2>3, <3>1, CellsMeasured
    <3> QED
      BY <1>2, <1>3, <2>2, <3>1 DEF RowInv, CellsInv, Cell
  <2>4. CASE ~(d = who \/ (Live(h) /\ g_acc[h].sum = d))
    <3>1. buffer'[d] = buffer[d]
      <4>1. CASE HasRow(h, row)
        BY <1>2, <2>4, <4>1, CellsWritten DEF HasRow
      <4>2. CASE ~HasRow(h, row)
        BY <1>2, <4>2 DEF nsx_pmu_accm_op_end
      <4> QED
        BY <4>1, <4>2
    <3>2. Done(d)' = Done(d)
      BY <1>2, <2>4 DEF Done
    <3> QED
      BY <1>2, <2>1, <2>2, <3>1, <3>2, CellsFrame DEF RowInv
  <2> QED
    BY <2>3, <2>4
<1> QED
  BY <1>6, <1>7, <1>8, <1>9, <1>10

-----------------------------------------------------------------------------
(* The end of an inference *)

LEMMA PassEndedIs ==
  ASSUME NEW x \in Acc
  PROVE  LET a == [x EXCEPT !.next_event = NextEvent(x), !.complete = LastPass(x)]
         IN /\ a \in Acc
            /\ a.next_event = x.next_event + EventsPerRun
            /\ a.complete = LastPass(x)
            /\ a.in_use = x.in_use /\ a.ops = x.ops /\ a.events = x.events
            /\ a.tag_map = x.tag_map /\ a.sum = x.sum
<1> DEFINE y == [x EXCEPT !.next_event = NextEvent(x)]
           z == [y EXCEPT !.complete = LastPass(x)]
<1>1. NextEvent(x) \in Nat /\ LastPass(x) \in BOOLEAN
  BY Bounds DEF Acc, NextEvent, LastPass
<1>2. /\ y \in Acc /\ y.next_event = NextEvent(x)
      /\ y.in_use = x.in_use /\ y.ops = x.ops /\ y.events = x.events
      /\ y.tag_map = x.tag_map /\ y.sum = x.sum
  BY <1>1, SetNextEvent
<1>3. [x EXCEPT !.next_event = NextEvent(x), !.complete = LastPass(x)] = z
  OBVIOUS
<1> HIDE DEF y
<1>4. /\ z \in Acc /\ z.complete = LastPass(x)
      /\ z.next_event = y.next_event
      /\ z.in_use = y.in_use /\ z.ops = y.ops /\ z.events = y.events
      /\ z.tag_map = y.tag_map /\ z.sum = y.sum
  BY <1>1, <1>2, SetComplete
<1> HIDE DEF z
<1> QED
  BY <1>2, <1>3, <1>4 DEF NextEvent

(* inference_end under a handle that is not in use, or of a matrix that is  *)
(* complete.                                                                *)
LEMMA NothingEndsInv ==
  ASSUME AccInv, InferenceEnd,
         ~(Live(handle[who]) /\ ~g_acc[handle[who]].complete)
  PROVE  AccInv'
<1> USE DEF AccInv
<1>1. PICK h : h = handle[who]
  OBVIOUS
<1>2. /\ pc = "row" /\ pc' = "idle" /\ op' = 0 /\ row' = 0 /\ who' = who
      /\ Spoil(h, IF Live(h) /\ ~Owns(who) THEN PassColumns(g_acc[h]) ELSE {})
      /\ UNCHANGED <<g_acc, handle, buffer, job, lapses>>
      /\ UNCHANGED <<ready, owner, want, tally>>
      /\ who \in Client
  BY <1>1 DEF InferenceEnd, Return, nsx_pmu_accm_inference_end, meter, TypeOK
<1>3. /\ \A id : Live(id)' <=> Live(id)
      /\ \A d : Owns(d)' <=> Owns(d)
  BY <1>2 DEF Live, Owns
<1>4. /\ spoiled' \in [Client -> SUBSET MapEvent]
      /\ \A d \in Client : spoiled[d] \subseteq spoiled'[d]
      /\ Steady => spoiled' = spoiled
  <2>1. CASE Live(h) /\ ~Owns(who)
    <3>1. PassColumns(g_acc[h]) \in SUBSET MapEvent
      BY <2>1, PassListed
    <3>2. ~Steady
      BY <1>1, <1>2, <2>1, NotLive DEF HandleInv, Steady
    <3> QED
      BY <1>2, <2>1, <3>1, <3>2, SpoilKeeps
  <2>2. CASE ~(Live(h) /\ ~Owns(who))
    <3>1. Spoil(h, {})
      BY <1>2, <2>2
    <3> QED
      BY <3>1, SpoilKeeps
  <2> QED
    BY <2>1, <2>2
<1>5. TypeOK'
  <2>1. AccOK'
    BY <1>2 DEF TypeOK, AccOK
  <2>2. MeterType'
    BY <1>2, Typed DEF MeterType
  <2>3. row' \in 0 .. NoRow
    BY <1>2, Bounds
  <2> QED
    BY <1>2, <1>4, <2>1, <2>2, <2>3 DEF TypeOK, MeterType
<1>6. PoolInv'
  <2>1. \A id \in Id : Live(id)' => MatrixOK(id)'
    BY <1>2, <1>3, MatrixFrame DEF PoolInv
  <2>2. \A id \in Id : owner' = id => OwnerOK(id)'
    BY <1>2, OwnerFrame DEF PoolInv
  <2> QED
    BY <1>2, <2>1, <2>2 DEF PoolInv
<1>7. PlaceInv'
  BY <1>2, RunAssumption DEF PlaceInv
<1>8. HandleInv' /\ SteadyInv'
  BY <1>2, <1>3, <1>4 DEF HandleInv, SteadyInv
<1>9. ASSUME NEW d \in Client
      PROVE  TagInv(d)' /\ RowInv(d)' /\ CellsInv(d)'
  <2>1. Kept(d)
    BY <1>2, <1>3, <1>4 DEF Kept
  <2>2. TagInv(d)'
    <3>1. Seen(d) \in Nat /\ Seen(d)' = 0
      BY <1>2, SeenNat DEF Seen
    <3>2. Seen(d)' <= Seen(d) /\ Seen(d)' \in Nat
      BY <3>1
    <3> QED
      BY <1>2, <2>1, <3>1, <3>2, TagFrame
  <2>3. CASE d # who
    <3>1. Done(d)' = Done(d)
      BY <1>2, <2>3 DEF Done
    <3> QED
      BY <1>2, <2>1, <2>2, <3>1, CellsFrame DEF RowInv
  <2>4. CASE d = who
    <3> SUFFICES ASSUME Owns(d) PROVE CellsInv(d)'
      BY <1>2, <1>3, <2>2 DEF RowInv, CellsInv
    <3>1. Live(h) /\ g_acc[h].complete /\ handle[d] = h
      BY <1>1, <2>4 DEF Owns
    <3>2. PassColumns(g_acc[h]) = {}
      <4>1. /\ g_acc[h].events \in 1 .. MapSize /\ g_acc[h].next_event \in Nat
            /\ g_acc[h].next_event >= g_acc[h].events
        BY <3>1, LiveFacts
      <4>2. g_acc[h].events \in Nat
        BY ONLY <4>1, Bounds
      <4> QED
        BY <4>1, <4>2, Columns
    <3>3. PassColumns(g_acc[h])' = {}
      BY <1>2, <3>2 DEF PassColumns
    <3>4. \A e : Measured(d, e)' = Measured(d, e)
      BY <1>2, <3>1, <3>2, <3>3 DEF Measured
    <3> QED
      BY <1>2, <1>3, <1>4, <3>4 DEF CellsInv, Cell
  <2> QED
    BY <2>3, <2>4
<1> QED
  BY <1>5, <1>6, <1>7, <1>8, <1>9

(* inference_end of a pass. *)
LEMMA PassEndsInv ==
  ASSUME AccInv, InferenceEnd, Live(handle[who]), ~g_acc[handle[who]].complete
  PROVE  AccInv'
<1> USE DEF AccInv
<1>1. PICK h : h = handle[who]
  OBVIOUS
<1>2. PICK x : x = g_acc[h]
  OBVIOUS
<1> DEFINE a == [x EXCEPT !.next_event = NextEvent(x), !.complete = LastPass(x)]
<1>3. /\ pc = "row" /\ op = Len(Model[who])
      /\ pc' = "idle" /\ op' = 0 /\ row' = 0 /\ who' = who
      /\ Spoil(h, IF ~Owns(who) THEN PassColumns(x) ELSE {})
      /\ g_acc' = [g_acc EXCEPT ![h] = a]
      /\ IF a.complete THEN UNCHANGED meter ELSE cfg_select_events(h, a)
      /\ UNCHANGED <<handle, buffer, job, lapses>>
      /\ who \in Client
  BY <1>1, <1>2
  DEF InferenceEnd, Return, nsx_pmu_accm_inference_end, TypeOK
<1>4. /\ Live(h) /\ ~x.complete /\ h \in Id /\ x \in Acc /\ x.in_use
      /\ x.ops \in 1 .. MaxOps /\ x.events \in 1 .. MapSize
      /\ x.ops \in Nat /\ x.events \in Nat /\ x.next_event \in Nat
      /\ x.next_event < x.events /\ x.sum \in Client
      /\ x.tag_map \in Seq(Tag) /\ Len(x.tag_map) <= x.ops
      /\ handle[x.sum] = h
      /\ x.ops = job[x.sum].ops /\ x.events = job[x.sum].events
  <2>1. /\ Live(h) /\ ~x.complete /\ h \in Id /\ x \in Acc /\ x.in_use
        /\ x.ops \in 1 .. MaxOps /\ x.events \in 1 .. MapSize
        /\ x.next_event \in Nat /\ x.sum \in Client
        /\ ~(x.next_event >= x.events)
        /\ x.tag_map \in Seq(Tag) /\ Len(x.tag_map) <= x.ops
        /\ handle[x.sum] = h
        /\ x.ops = job[x.sum].ops /\ x.events = job[x.sum].events
    BY <1>1, <1>2, LiveFacts
  <2>2. x.ops \in Nat /\ x.events \in Nat
    BY <2>1, Bounds
  <2>3. x.next_event < x.events
    BY <2>1, <2>2
  <2> QED
    BY <2>1, <2>2, <2>3
<1>5. /\ a \in Acc
      /\ a.next_event = x.next_event + EventsPerRun
      /\ a.complete = LastPass(x)
      /\ a.in_use /\ a.ops = x.ops /\ a.events = x.events
      /\ a.tag_map = x.tag_map /\ a.sum = x.sum
  BY <1>4, PassEndedIs
<1>6. a.complete = (x.next_event + EventsPerRun >= x.events)
  BY <1>5 DEF LastPass
<1> HIDE DEF a
<1>7. /\ g_acc' \in [Id -> Acc] /\ g_acc'[h] = a
      /\ \A id \in Id : id # h => g_acc'[id] = g_acc[id]
  BY <1>3, <1>4, <1>5 DEF PoolInv
<1>8. /\ \A id : Live(id)' <=> Live(id)
      /\ \A d : Owns(d)' <=> Owns(d)
      /\ \A d : Owns(d) => handle[d] \in Id
  BY <1>2, <1>3, <1>4, <1>5, <1>7 DEF Live, Owns
<1>9. /\ spoiled' \in [Client -> SUBSET MapEvent]
      /\ \A d \in Client : spoiled[d] \subseteq spoiled'[d]
      /\ Steady => spoiled' = spoiled
      /\ ~Owns(who) => PassColumns(x) \subseteq spoiled'[x.sum] /\ MaxLapses # 0
  <2>1. CASE ~Owns(who)
    <3>1. PassColumns(x) \in SUBSET MapEvent
      BY <1>2, <1>4, PassListed
    <3>2. ~Steady /\ MaxLapses # 0
      BY <1>1, <1>3, <1>4, <2>1, NotLive DEF HandleInv, Steady
    <3> QED
      BY <1>2, <1>3, <1>4, <2>1, <3>1, <3>2, SpoilKeeps
  <2>2. CASE Owns(who)
    <3>1. Spoil(h, {})
      BY <1>3, <2>2
    <3> QED
      BY <2>2, <3>1, SpoilKeeps
  <2> QED
    BY <2>1, <2>2
<1>10. \/ a.complete /\ UNCHANGED meter
       \/ ~a.complete /\ Program(h, PassRequest(a))
       \/ ~a.complete /\ BackendFails /\ Disturb
  BY <1>3 DEF cfg_select_events
<1>11. TypeOK'
  <2>1. AccOK'
    <3>1. /\ a.in_use /\ a.complete \in BOOLEAN
          /\ a.ops \in 1 .. MaxOps /\ a.events \in 1 .. MapSize
          /\ a.tag_map \in Seq(Tag) /\ Len(a.tag_map) <= a.ops
          /\ a.sum \in Client
      BY <1>4, <1>5 DEF Acc
    <3>2. a.next_event \in 0 .. a.events - 1 + EventsPerRun
      <4>1. x.next_event \in Nat /\ x.events \in Nat /\ x.next_event < x.events
        BY <1>4, Bounds
      <4>2. EventsPerRun \in Nat
        BY Bounds
      <4> QED
        BY ONLY <1>5, <4>1, <4>2
    <3>3. AccOK
      BY DEF TypeOK
    <3> QED
      BY <1>7, <3>1, <3>2, <3>3 DEF AccOK
  <2>2. MeterType'
    <3>1. PassRequest(a) \in [Slot -> Request]
      <4>1. a.next_event \in Nat /\ a.events \in 0 .. MapSize
        BY <1>4, <1>5, Bounds
      <4> QED
        BY <4>1, PassRequestType
    <3> QED
      BY <1>4, <1>10, <3>1, Typed, MeterSteps
  <2>3. row' \in 0 .. NoRow
    BY <1>3, Bounds
  <2> QED
    BY <1>3, <1>9, <2>1, <2>2, <2>3 DEF TypeOK, MeterType
<1>12. PoolInv'
  <2>1. ASSUME NEW id \in Id, id # h, Live(id)'
        PROVE  MatrixOK(id)'
    <3>1. MatrixOK(id)
      BY <1>8, <2>1 DEF PoolInv
    <3> QED
      BY <1>3, <1>7, <2>1, <3>1, MatrixFrame
  <2>2. MatrixOK(h)'
    <3>1. a.complete <=> a.next_event >= a.events
      BY <1>5, <1>6
    <3> QED
      BY <1>3, <1>4, <1>5, <1>7, <3>1 DEF MatrixOK
  <2>3. ASSUME NEW id \in Id, owner' = id
        PROVE  OwnerOK(id)'
    <3>1. CASE a.complete /\ UNCHANGED meter
      <4>1. UNCHANGED <<ready, owner, want>> /\ OwnerOK(id)
        BY <2>3, <3>1 DEF meter, PoolInv
      <4>2. CASE id # h
        BY <1>7, <4>1, <4>2, OwnerFrame
      <4>3. CASE id = h
        BY <1>4, <1>7, <1>8, <3>1, <4>1, <4>3 DEF OwnerOK
      <4> QED
        BY <4>2, <4>3
    <3>2. CASE ~a.complete /\ Program(h, PassRequest(a))
      <4>1. id = h /\ ready' /\ want' = PassRequest(a)
        BY <2>3, <3>2 DEF Program
      <4>2. PassRequest(g_acc[h])' = PassRequest(a)
        BY <1>7 DEF PassRequest
      <4> QED
        BY <1>4, <1>8, <4>1, <4>2 DEF OwnerOK
    <3>3. CASE Disturb
      BY <2>3, <3>3, Bounds DEF Disturb
    <3> QED
      BY <1>10, <3>1, <3>2, <3>3
  <2> QED
    BY <1>7, <2>1, <2>2, <2>3 DEF PoolInv
<1>13. PlaceInv'
  BY <1>3, RunAssumption DEF PlaceInv
<1>14. HandleInv'
  BY <1>3, <1>8 DEF HandleInv
<1>15. SteadyInv'
  <2>1. ASSUME Steady, NEW id \in Id, Live(id)' PROVE owner' = id
    <3>1. id = h
      BY <1>4, <2>1 DEF Steady, Id
    <3>2. owner = id
      BY <1>8, <2>1 DEF SteadyInv
    <3> QED
      BY <1>10, <2>1, <3>1, <3>2 DEF Program, Steady, meter
  <2> QED
    BY <1>9, <2>1 DEF SteadyInv
<1>16. ASSUME NEW d \in Client, handle[d] # h
       PROVE  TagInv(d)' /\ RowInv(d)' /\ CellsInv(d)'
  <2> SUFFICES ASSUME Owns(d) PROVE TagInv(d)' /\ CellsInv(d)'
    BY <1>3, <1>8 DEF TagInv, RowInv, CellsInv, Sound
  <2>1. g_acc'[handle[d]] = g_acc[handle[d]]
    BY <1>7, <1>8, <1>16
  <2>2. Kept(d)
    BY <1>3, <1>9, <2>1 DEF Kept
  <2>3. d # who
    BY <1>1, <1>16
  <2>4. Seen(d) = 0 /\ Seen(d)' = 0 /\ Done(d)' = Done(d)
    BY <1>3, <2>3 DEF Seen, Done
  <2> QED
    BY <1>3, <2>1, <2>2, <2>4, TagFrame, CellsFrame
<1>17. ASSUME NEW d \in Client, handle[d] = h
       PROVE  TagInv(d)' /\ RowInv(d)' /\ CellsInv(d)'
  <2> SUFFICES ASSUME Owns(d) PROVE TagInv(d)' /\ CellsInv(d)'
    BY <1>3, <1>8 DEF TagInv, RowInv, CellsInv, Sound
  <2>1. x.sum = d /\ (who # d => ~Owns(who))
    BY <1>1, <1>2, <1>17 DEF Owns
  <2>2. TagInv(d)'
    <3> SUFFICES ASSUME Sound(d)', job[d].by_tag PROVE TagInv(d)'
      BY <1>3 DEF TagInv
    <3>1. Sound(d)
      BY <1>8, <1>9 DEF Sound
    <3>2. \A n : RowOf(d, n)' = RowOf(d, n)
      BY <1>3 DEF RowOf
    <3>3. /\ \A i \in DOMAIN x.tag_map :
               \E n \in Operators(d) :
                 /\ RowOf(d, n) = i - 1
                 /\ Text(x.tag_map[i]) = TextOf(d, n)
          /\ \A n \in Operators(d) :
               n < Seen(d) => Entered(d, RowOf(d, n))
      BY <1>2, <1>17, <3>1 DEF TagInv
    <3>4. \A r : Entered(d, r)' <=> Entered(d, r)
      BY <1>2, <1>3, <1>5, <1>7, <1>17 DEF Entered
    <3>5. ASSUME NEW n \in Operators(d), n < Seen(d)' \/ MaxLapses = 0
          PROVE  Entered(d, RowOf(d, n))
      <4>1. Seen(d)' = 0
        BY <1>3 DEF Seen
      <4>2. who = d
        BY <1>9, <2>1, <3>5, <4>1 DEF Operators
      <4>3. Seen(d) = Len(Model[d])
        BY <1>3, <4>2 DEF Seen
      <4>4. n < Seen(d)
        BY <4>3, RunAssumption DEF Operators
      <4> QED
        BY <3>3, <4>4
    <3>6. handle'[d] = h /\ g_acc'[handle'[d]].tag_map = x.tag_map
      BY <1>3, <1>5, <1>7, <1>17
    <3>7. \A i \in DOMAIN g_acc'[handle'[d]].tag_map :
            \E n \in Operators(d) :
              /\ RowOf(d, n)' = i - 1
              /\ Text(g_acc'[handle'[d]].tag_map[i]) = TextOf(d, n)
      BY <3>2, <3>3, <3>6
    <3>8. \A n \in Operators(d) :
            n < Seen(d)' \/ MaxLapses = 0 => Entered(d, RowOf(d, n))'
      BY <3>2, <3>4, <3>5 DEF Entered
    <3> QED
      BY <3>7, <3>8 DEF TagInv
  <2>3. CellsInv(d)'
    <3>1. ASSUME NEW r \in 0 .. x.ops - 1, NEW e \in 0 .. x.events - 1,
                 e \notin spoiled'[d]
          PROVE  /\ e \notin spoiled[d]
                 /\ Measured(d, e)' = Measured(d, e)
      <4>1. e \in Nat /\ EventsPerRun \in Nat
        BY <1>4, Bounds
      <4>2. Measured(d, e) = IF e < x.next_event THEN Len(Model[d])
                             ELSE IF e \in PassColumns(x) THEN Done(d) ELSE 0
        BY <1>2, <1>17 DEF Measured
      <4>3. Measured(d, e)' = IF e < a.next_event THEN Len(Model[d])
                              ELSE IF e \in PassColumns(a) THEN Done(d)' ELSE 0
        BY <1>3, <1>7, <1>17 DEF Measured, PassColumns
      <4>4. Done(d)' = 0
        BY <1>3 DEF Done
      <4>5. CASE e < x.next_event
        <5>1. e < a.next_event
          BY <1>4, <1>5, <4>1, <4>5
        <5> QED
          BY <1>9, <3>1, <4>2, <4>3, <4>5, <5>1
      <4>6. CASE ~(e < x.next_event) /\ e \in PassColumns(x)
        <5>1. e < a.next_event
          BY <1>4, <1>5, <4>1, <4>6, Columns
        <5>2. who = d
          BY <1>9, <2>1, <3>1, <4>6
        <5>3. Done(d) = Len(Model[d])
          BY <1>3, <5>2 DEF Done
        <5> QED
          BY <1>9, <3>1, <4>2, <4>3, <4>6, <5>1, <5>3
      <4>7. CASE ~(e < x.next_event) /\ e \notin PassColumns(x)
        <5>1. ~(e < a.next_event)
          BY <1>4, <1>5, <4>1, <4>7, Columns
        <5>2. Measured(d, e) = 0 /\ Measured(d, e)' = 0
          BY <4>2, <4>3, <4>4, <4>7, <5>1
        <5> QED
          BY <1>9, <3>1, <5>2
      <4> QED
        BY <4>5, <4>6, <4>7
    <3>2. /\ handle'[d] = h /\ g_acc'[h].ops = x.ops
          /\ g_acc'[h].events = x.events
          /\ buffer'[d] = buffer[d] /\ job'[d] = job[d]
      BY <1>3, <1>5, <1>7, <1>17
    <3>3. ASSUME NEW r \in 0 .. x.ops - 1, NEW e \in 0 .. x.events - 1,
                 e \notin spoiled'[d]
          PROVE  buffer[d][Cell(x, r, e)] =
                   Occurrences(d, job[d].by_tag, r, e)[Measured(d, e)'] % Word
      BY <1>2, <1>17, <3>1, <3>3 DEF CellsInv
    <3> QED
      BY <3>2, <3>3 DEF CellsInv, Cell
  <2> QED
    BY <2>2, <2>3
<1> QED
  BY <1>11, <1>12, <1>13, <1>14, <1>15, <1>16, <1>17

LEMMA InferenceEndInv ==
  ASSUME AccInv, InferenceEnd PROVE AccInv'
BY NothingEndsInv, PassEndsInv

-----------------------------------------------------------------------------
(* The invariant *)

LEMMA StutterInv ==
  ASSUME AccInv, UNCHANGED vars PROVE AccInv'
<1> USE DEF AccInv
<1>1. /\ SamePool
      /\ UNCHANGED <<buffer, row, pc, who, op, tally>>
  BY DEF vars, accVars, meter, inference, SamePool
<1>2. TypeOK'
  BY <1>1 DEF TypeOK, AccOK, SamePool
<1>3. PoolInv' /\ HandleInv' /\ SteadyInv' /\ \A d : Kept(d)
  BY <1>1, PoolFrame
<1>4. PlaceInv'
  BY <1>1 DEF PlaceInv, HasRow, Live, SamePool
<1>5. ASSUME NEW d \in Client
      PROVE  TagInv(d)' /\ RowInv(d)' /\ CellsInv(d)'
  <2>1. Seen(d)' = Seen(d) /\ Done(d)' = Done(d) /\ Seen(d) \in Nat
    BY <1>1, SeenNat DEF Seen, Done
  <2>2. TagInv(d)'
    BY <1>1, <1>3, <2>1, TagFrame DEF SamePool
  <2>3. CellsInv(d)'
    BY <1>1, <1>3, <2>1, CellsFrame
  <2>4. RowInv(d)'
    BY <1>1, <1>3, RowFrame
  <2> QED
    BY <2>2, <2>3, <2>4
<1> QED
  BY <1>2, <1>3, <1>4, <1>5

LEMMA StepInv ==
  ASSUME AccInv, [Next]_vars PROVE AccInv'
<1>1. CASE Step
  BY <1>1, FindRowInv, OpBeginInv, RunOpInv, OpEndInv, BetweenOpsInv,
     InferenceEndInv DEF Step
<1>2. CASE Abandon
  BY <1>2, AbandonInv
<1>3. ASSUME NEW c \in Client, (\E j \in Job : Create(c, j)) \/ Destroy(c) \/ Infer(c)
      PROVE  AccInv'
  BY <1>3, CreateInv, DestroyInv, InferInv
<1>4. CASE UNCHANGED vars
  BY <1>4, StutterInv
<1> QED
  BY <1>1, <1>2, <1>3, <1>4 DEF Next

LEMMA Invariance == Spec => []AccInv
<1>1. Init => AccInv
  BY InitInv
<1>2. AccInv /\ [Next]_vars => AccInv'
  BY StepInv
<1> QED
  BY <1>1, <1>2, PTL DEF Spec

-----------------------------------------------------------------------------
(* The theorems *)

(* All along, the pool, the handles, the buffers and the PMU hold values of *)
(* their types: no sum leaves 32 bits, no row a uint16_t, and next_event    *)
(* never runs more than a pass beyond the last column.                      *)
THEOREM TypeCorrect == Spec => []TypeOK
<1>1. AccInv => TypeOK
  BY DEF AccInv
<1> QED
  BY <1>1, Invariance, PTL

(* nsx_pmu_accm_get_layer and nsx_pmu_accmprint_matrix read, in the columns *)
(* nothing went wrong in, the sums of the cells.                            *)
LEMMA ExactColumns ==
  ASSUME AccInv, NEW c \in Client, NEW columns,
         columns \cap spoiled[c] = {}
  PROVE  Exactly(c, columns)
<1> USE DEF AccInv
<1>1. PICK h : h = handle[c]
  OBVIOUS
<1> SUFFICES ASSUME Owns(c), nsx_pmu_accm_complete(h),
                    NEW r \in 0 .. g_acc[h].ops - 1,
                    NEW e \in columns \cap
                      DOMAIN Layer(h, r, g_acc[h].events)
             PROVE  /\ Layer(h, r, g_acc[h].events)[e] = Expected(c, r, e)
                    /\ nsx_pmu_accmprint_matrix(h, g_acc[h].ops, g_acc[h].events)[r][e]
                         = Layer(h, r, g_acc[h].events)[e]
  BY <1>1 DEF Exactly
<1> DEFINE a == g_acc[h]
<1>2. /\ Live(h) /\ a.sum = c /\ a.complete
      /\ a.events \in Nat /\ a.next_event \in Nat
      /\ a.next_event >= a.events
  <2>1. Live(h) /\ a.sum = c /\ a.complete
    BY <1>1 DEF Owns, nsx_pmu_accm_complete
  <2>2. /\ a.events \in 1 .. MapSize /\ a.next_event \in Nat
        /\ a.next_event >= a.events
    BY <2>1, LiveFacts
  <2>3. a.events \in Nat
    BY ONLY <2>2, Bounds
  <2> QED
    BY ONLY <2>1, <2>2, <2>3
<1>3. DOMAIN Layer(h, r, a.events) = 0 .. a.events - 1
      /\ \A f \in 0 .. a.events - 1 :
           Layer(h, r, a.events)[f] = buffer[c][Cell(a, r, f)]
  BY <1>2 DEF Layer, Lesser
<1>4. e \in 0 .. a.events - 1 /\ e \notin spoiled[c]
  <2>1. e \in columns /\ e \in DOMAIN Layer(h, r, a.events)
    OBVIOUS
  <2> QED
    BY ONLY <1>3, <2>1, columns \cap spoiled[c] = {}
<1>5. Measured(c, e) = Len(Model[c])
  <2>1. e < a.next_event
    BY <1>2, <1>4
  <2> QED
    BY <1>1, <2>1 DEF Measured
<1>6. buffer[c][Cell(a, r, e)] = Expected(c, r, e)
  BY <1>1, <1>4, <1>5 DEF CellsInv, Expected
<1>7. nsx_pmu_accmprint_matrix(h, a.ops, a.events)[r][e] = buffer[c][Cell(a, r, e)]
  BY <1>2, <1>4 DEF nsx_pmu_accmprint_matrix, nsx_pmu_accm_get, Cell
<1> QED
  BY <1>3, <1>4, <1>6, <1>7

(* Whatever fails and however the clients lapse, a complete matrix is exact *)
(* in every column that was measured without it: see OwnColumnsExact.       *)
THEOREM OwnColumns == Spec => []OwnColumnsExact
<1>1. AccInv => OwnColumnsExact
  BY ExactColumns DEF OwnColumnsExact
<1> QED
  BY <1>1, Invariance, PTL

(* With one matrix on the PMU, a backend that does not fail and clients     *)
(* that do not lapse, a complete matrix is exact in every cell.             *)
THEOREM MatrixExact ==
  ASSUME MaxMatrices = 1, ~BackendFails, MaxLapses = 0
  PROVE  Spec => []CompleteMatrixExact
<1>1. AccInv => CompleteMatrixExact
  <2> SUFFICES ASSUME AccInv, NEW c \in Client PROVE Exactly(c, MapEvent)
    BY DEF CompleteMatrixExact
  <2>1. spoiled[c] = {}
    BY DEF AccInv, SteadyInv, Steady
  <2> QED
    BY <2>1, ExactColumns
<1> QED
  BY <1>1, Invariance, PTL

(* Where clients do not lapse, find_tag knows the row of every tag of the   *)
(* model of a complete matrix, whoever uses the PMU and whatever fails.     *)
THEOREM TagsFound ==
  ASSUME MaxLapses = 0
  PROVE  Spec => []TagsFindTheirRows
<1>1. AccInv => TagsFindTheirRows
  <2> SUFFICES ASSUME AccInv, NEW c \in Client, Owns(c),
                      nsx_pmu_accm_complete(handle[c]), job[c].by_tag,
                      NEW n \in Operators(c)
               PROVE  FindTag(handle[c], Model[c][n + 1]) =
                        IF RowOf(c, n) < job[c].ops THEN RowOf(c, n) ELSE NoRow
    BY DEF TagsFindTheirRows
  <2> USE DEF AccInv
  <2>1. PICK a : a = g_acc[handle[c]]
    OBVIOUS
  <2>2. PICK tag : tag = Model[c][n + 1]
    OBVIOUS
  <2>3. /\ Live(handle[c]) /\ a.tag_map \in Seq(Tag)
        /\ a.ops = job[c].ops /\ a.ops \in Nat /\ Len(a.tag_map) <= a.ops
        /\ a.next_event > 0
    <3>1. /\ Live(handle[c]) /\ a.sum = c /\ a.complete
      BY <2>1 DEF Owns, nsx_pmu_accm_complete
    <3>2. /\ a.tag_map \in Seq(Tag) /\ Len(a.tag_map) <= a.ops
          /\ a.ops = job[c].ops /\ a.ops \in 1 .. MaxOps
          /\ a.events \in 1 .. MapSize /\ a.next_event \in Nat
          /\ a.next_event >= a.events
      BY <2>1, <3>1, LiveFacts
    <3> QED
      BY <3>1, <3>2, Bounds
  <2>4. Len(a.tag_map) \in Nat /\ DOMAIN a.tag_map = 1 .. Len(a.tag_map)
    BY <2>3
  <2>5. job[c].by_tag = TRUE
    BY RunAssumption DEF TypeOK
  <2>6. PICK r : r = RowOf(c, n)
    OBVIOUS
  <2>7. r = RowIn(c, TRUE, n)
    BY <2>5, <2>6 DEF RowOf
  <2>8. r \in Nat
    <3>1. RowIn(c, TRUE, n) \in Nat
      BY RowNat
    <3> QED
      BY <2>7, <3>1
  <2>9. /\ \A i \in DOMAIN a.tag_map : \E m \in Operators(c) :
             RowIn(c, TRUE, m) = i - 1 /\ Text(a.tag_map[i]) = TextOf(c, m)
        /\ r < a.ops => r < Len(a.tag_map)
    <3>1. TagInv(c) /\ Sound(c)
      BY DEF Sound
    <3>2. \A m : RowOf(c, m) = RowIn(c, TRUE, m)
      BY <2>5 DEF RowOf
    <3>3. Entered(c, RowOf(c, n))
      BY <2>1, <2>3, <3>1 DEF TagInv
    <3> QED
      BY <2>1, <2>6, <3>1, <3>2, <3>3 DEF TagInv, Entered
  <2>10. Text(tag) = TextOf(c, n)
    BY <2>2 DEF TextOf
  <2>11. ASSUME NEW i \in DOMAIN a.tag_map, Text(a.tag_map[i]) = Text(tag)
         PROVE  i - 1 = r
    <3>1. PICK m \in Operators(c) :
            RowIn(c, TRUE, m) = i - 1 /\ Text(a.tag_map[i]) = TextOf(c, m)
      BY <2>9
    <3>2. RowIn(c, TRUE, m) = RowIn(c, TRUE, n)
      BY <2>10, <2>11, <3>1, SameTextSameRow
    <3> QED
      BY <2>7, <3>1, <3>2
  <2>12. CASE r < a.ops
    <3>1. r + 1 \in DOMAIN a.tag_map /\ (r + 1) - 1 = r
      BY <2>4, <2>8, <2>9, <2>12
    <3>2. PICK m \in Operators(c) :
            RowIn(c, TRUE, m) = (r + 1) - 1 /\ Text(a.tag_map[r + 1]) = TextOf(c, m)
      BY <2>9, <3>1
    <3>3. Text(a.tag_map[r + 1]) = Text(tag)
      BY <2>7, <2>10, <3>1, <3>2, SameRowSameText
    <3>4. Known(a, tag)
      BY <2>3, <3>1, <3>3, KnownIs
    <3>5. RowOfTag(a, tag) = r
      BY <2>3, <2>11, <3>4, KnownIs
    <3> QED
      BY <2>1, <2>2, <2>3, <2>6, <2>12, <3>4, <3>5 DEF FindTag
  <2>13. CASE ~(r < a.ops)
    <3>1. ASSUME NEW i \in DOMAIN a.tag_map, Text(a.tag_map[i]) = Text(tag)
          PROVE  FALSE
      <4>1. i - 1 = r /\ i \in 1 .. Len(a.tag_map)
        BY <2>4, <2>11, <3>1
      <4>2. r < Len(a.tag_map)
        BY <2>4, <2>8, <4>1
      <4> QED
        BY <2>3, <2>4, <2>8, <2>13, <4>2
    <3>2. ~Known(a, tag)
      BY <2>3, <3>1, KnownIs
    <3> QED
      BY <2>1, <2>2, <2>3, <2>6, <2>13, <3>2 DEF FindTag
  <2> QED
    BY <2>12, <2>13
<1> QED
  BY <1>1, Invariance, PTL

(* No call writes a caller's buffer but create, which clears it, and op_end *)
(* under the handle of its matrix until this is complete.                   *)
THEOREM BuffersSafe == Spec => BuffersLeftAlone
<1> DEFINE Safe ==
      \A c \in Client :
        buffer'[c] # buffer[c] =>
          \/ ~Owns(c) /\ Owns(c)'
          \/ LET h == handle[who]
             IN Live(h) /\ g_acc[h].sum = c /\ ~g_acc[h].complete
<1>1. AccInv /\ [Next]_vars => Safe
  <2> SUFFICES ASSUME AccInv, [Next]_vars, NEW c \in Client,
                      buffer'[c] # buffer[c]
               PROVE  \/ ~Owns(c) /\ Owns(c)'
                      \/ /\ Live(handle[who]) /\ g_acc[handle[who]].sum = c
                         /\ ~g_acc[handle[who]].complete
    OBVIOUS
  <2> USE DEF AccInv
  <2>1. CASE OpEnd
    <3>1. PICK h : h = handle[who]
      OBVIOUS
    <3>2. nsx_pmu_accm_op_end(h, row)
      BY <2>1, <3>1 DEF OpEnd
    <3>3. HasRow(h, row)
      BY <3>2 DEF nsx_pmu_accm_op_end
    <3>4. g_acc[h].sum = c /\ PassColumns(g_acc[h]) # {}
      BY <3>2, <3>3, CellsWritten
    <3>5. Live(h)
      BY <3>3 DEF HasRow
    <3>6. ~g_acc[h].complete
      <4>1. /\ g_acc[h].next_event \in Nat /\ g_acc[h].events \in Nat
            /\ g_acc[h].complete <=> g_acc[h].next_event >= g_acc[h].events
        BY <3>5, LiveFacts, Bounds
      <4>2. g_acc[h].next_event >= g_acc[h].events => PassColumns(g_acc[h]) = {}
        BY <4>1, Columns
      <4> QED
        BY ONLY <3>4, <4>1, <4>2
    <3> QED
      BY <3>1, <3>4, <3>5, <3>6
  <2>2. ASSUME NEW d \in Client, NEW j \in Job, Create(d, j)
        PROVE  ~Owns(c) /\ Owns(c)'
    <3>1. /\ ~CreateRefused(j.ops, j.events)
          /\ buffer' = Cleared(d, j.ops, j.events)
          /\ g_acc' = [g_acc EXCEPT ![Min(FreeIds)] = NewMatrix(d, j.ops, j.events)]
          /\ handle' = [handle EXCEPT ![d] = Min(FreeIds)]
          /\ ~Owns(d)
      BY <2>2 DEF Create, nsx_pmu_accm_create, NewMatrix
    <3>2. c = d
      BY <3>1 DEF Cleared, TypeOK
    <3>3. Min(FreeIds) \in Id
      <4>1. FreeIds # {} /\ FreeIds \subseteq Nat
        BY <3>1, Bounds DEF CreateRefused, FreeIds
      <4>2. Min(FreeIds) \in FreeIds
        BY <4>1, MinIsLeast
      <4> QED
        BY <4>2 DEF FreeIds
    <3>4. PICK idx : idx = Min(FreeIds)
      OBVIOUS
    <3>5. /\ NewMatrix(d, j.ops, j.events).in_use
          /\ NewMatrix(d, j.ops, j.events).sum = d
      BY RunAssumption, NewMatrixIs
    <3>6. handle'[d] = idx /\ g_acc'[idx] = NewMatrix(d, j.ops, j.events)
      BY <3>1, <3>3, <3>4 DEF TypeOK, PoolInv
    <3> QED
      BY <3>1, <3>2, <3>3, <3>4, <3>5, <3>6 DEF Owns, Live
  <2>3. CASE \/ FindRow \/ OpBegin \/ RunOp \/ BetweenOps \/ InferenceEnd
             \/ Abandon \/ UNCHANGED vars
    BY <2>3 DEF FindRow, OpBegin, RunOp, BetweenOps, InferenceEnd, Abandon,
                accVars, vars
  <2>4. ASSUME NEW d \in Client, Destroy(d) \/ Infer(d)
        PROVE  FALSE
    BY <2>4 DEF Destroy, Infer, accVars
  <2> QED
    BY <2>1, <2>2, <2>3, <2>4 DEF Next, Step
<1>2. AccInv /\ [Next]_vars => [Safe]_vars
  BY <1>1
<1> QED
  BY <1>2, Invariance, PTL DEF Spec, BuffersLeftAlone
=============================================================================
