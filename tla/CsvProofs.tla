------------------------------- MODULE CsvProofs -------------------------------
(***************************************************************************)
(* The table that nsx_pmu_capture_serialize_csv sends is that of the ready *)
(* chunk.  CaptureProofs shows that the chunk's cells are exact; here each *)
(* write is matched with its place in the table.                           *)
(***************************************************************************)
EXTENDS CsvRun, DeliveryProofs

-----------------------------------------------------------------------------
(* Arithmetic of the rows in the table. *)

LEMMA RowOfText ==
  ASSUME NEW W \in Nat, NEW r \in Nat, NEW c \in 0 .. W - 1
  PROVE  /\ (r * W + c) \div W = r
         /\ (r * W + c) % W = c
  BY Z3

LEMMA Pair ==
  ASSUME NEW a, NEW b
  PROVE  /\ <<a, b>> = [k \in 1 .. 2 |-> <<a, b>>[k]]
         /\ <<a, b>>[1] = a /\ <<a, b>>[2] = b
  <1>1. <<a, b>> \in Seq({a, b}) /\ Len(<<a, b>>) = 2
    OBVIOUS
  <1>2. <<a, b>> \in [1 .. 2 -> {a, b}]
    BY <1>1, LenProperties
  <1> QED BY <1>2

(* Two sequences joined, text by text. *)
LEMMA Joined ==
  ASSUME NEW m \in Nat, NEW n \in Nat, NEW s, NEW t,
         s = [k \in 1 .. m |-> s[k]], t = [k \in 1 .. n |-> t[k]]
  PROVE  s \o t = [k \in 1 .. m + n |-> IF k <= m THEN s[k] ELSE t[k - m]]
  <1> DEFINE S == {s[k] : k \in 1 .. m} \cup {t[k] : k \in 1 .. n}
             u == [k \in 1 .. m + n |-> IF k <= m THEN s[k] ELSE t[k - m]]
  <1>1. s \in [1 .. m -> S] /\ t \in [1 .. n -> S]
    OBVIOUS
  <1> HIDE DEF S
  <1>2. s \in Seq(S) /\ t \in Seq(S) /\ Len(s) = m /\ Len(t) = n
    BY <1>1
  <1>3. u \in Seq(S) /\ Len(u) = m + n
    <2>1. ASSUME NEW k \in 1 .. m + n
          PROVE  u[k] \in S
      <3>1. CASE k <= m
        BY <1>1, <3>1
      <3>2. CASE ~(k <= m)
        <4>1. k - m \in 1 .. n
          BY <3>2
        <4> QED BY <1>1, <3>2, <4>1
      <3> QED BY <3>1, <3>2
    <2>2. u \in [1 .. m + n -> S]
      BY <2>1
    <2> HIDE DEF u
    <2>3. PICK l \in Nat : l = m + n
      BY <1>1
    <2>4. u \in [1 .. l -> S]
      BY ONLY <2>2, <2>3
    <2> QED BY ONLY <2>3, <2>4
  <1>4. /\ s \o t \in Seq(S) /\ Len(s \o t) = m + n
        /\ \A k \in 1 .. m + n :
             (s \o t)[k] = IF k <= m THEN s[k] ELSE t[k - m]
    <2>1. /\ s \o t \in Seq(S) /\ Len(s \o t) = Len(s) + Len(t)
          /\ \A k \in 1 .. Len(s) + Len(t) :
               (s \o t)[k] = IF k <= Len(s) THEN s[k] ELSE t[k - Len(s)]
      BY <1>2, ConcatProperties
    <2> QED BY ONLY <1>2, <2>1
  <1>5. s \o t = u
    <2>1. \A k \in 1 .. Len(u) : (s \o t)[k] = u[k]
      BY <1>3, <1>4
    <2> HIDE DEF u
    <2> QED BY <1>3, <1>4, <2>1, SeqEqual
  <1> QED BY <1>5

-----------------------------------------------------------------------------
(* The texts of the table, place by place. *)

HeaderLen == IF header THEN 2 + 2 * Width ELSE 0
TableLen == HeaderLen + current_chunk_ops * Width

SizesOK ==
  /\ capture.total_event_count \in Nat /\ current_chunk_ops \in Nat
  /\ header \in BOOLEAN

LEMMA Sizes ==
  ASSUME SizesOK
  PROVE  /\ Width \in Nat /\ Width >= 2
         /\ Width = capture.total_event_count + 2
         /\ HeaderLen \in Nat /\ current_chunk_ops * Width \in Nat
         /\ TableLen \in Nat /\ TableLen = HeaderLen + current_chunk_ops * Width
         /\ header => HeaderLen = 2 + 2 * Width
         /\ ~header => HeaderLen = 0
  <1>1. \A a, b \in Nat : a * b \in Nat
    BY Z3
  <1>2. Width \in Nat /\ Width >= 2 /\ Width = capture.total_event_count + 2
    BY DEF SizesOK, Width
  <1>3. current_chunk_ops * Width \in Nat
    BY <1>1, <1>2 DEF SizesOK
  <1>4. /\ HeaderLen \in Nat
        /\ header => HeaderLen = 2 + 2 * Width
        /\ ~header => HeaderLen = 0
    BY <1>2 DEF HeaderLen, SizesOK
  <1> DEFINE p == current_chunk_ops * Width
  <1>5. TableLen = HeaderLen + p /\ p \in Nat
    BY <1>3 DEF TableLen
  <1> HIDE DEF p
  <1>6. TableLen \in Nat
    BY <1>4, <1>5
  <1> QED BY <1>2, <1>3, <1>4, <1>5, <1>6 DEF p

LEMMA HeaderShape ==
  ASSUME SizesOK
  PROVE  /\ HeaderText = [k \in 1 .. 2 + 2 * Width |-> HeaderText[k]]
         /\ HeaderText[1] = <<"# version">>
         /\ HeaderText[2] =
              <<"# chunk", current_chunk_start, current_chunk_ops,
                capture.total_ops, capture.total_event_count,
                capture.events_per_pass>>
         /\ \A k \in 1 .. Width :
              /\ HeaderText[2 + k] =
                   IF k = 1 THEN <<"layer_index">>
                   ELSE IF k < Width THEN <<"name", Column(k - 2)>>
                   ELSE <<"\n">>
              /\ HeaderText[2 + Width + k] =
                   IF k = 1 THEN <<"event_id">>
                   ELSE IF k < Width THEN <<"id", Column(k - 2)>>
                   ELSE <<"\n">>
  <1> DEFINE a == <<"# version">>
             b == <<"# chunk", current_chunk_start, current_chunk_ops,
                    capture.total_ops, capture.total_event_count,
                    capture.events_per_pass>>
             first == <<a, b>>
             names == [k \in 1 .. Width |->
                         IF k = 1 THEN <<"layer_index">>
                         ELSE IF k < Width THEN <<"name", Column(k - 2)>>
                         ELSE <<"\n">>]
             ids == [k \in 1 .. Width |->
                       IF k = 1 THEN <<"event_id">>
                       ELSE IF k < Width THEN <<"id", Column(k - 2)>>
                       ELSE <<"\n">>]
             W == Width
             u == [k \in 1 .. 2 + W |-> IF k <= 2 THEN first[k] ELSE names[k - 2]]
             v == [k \in 1 .. (2 + W) + W |->
                     IF k <= 2 + W THEN u[k] ELSE ids[k - (2 + W)]]
  <1>1. W \in Nat /\ W >= 2
    BY Sizes
  <1>2. HeaderText = (first \o names) \o ids
    BY DEF HeaderText, Line
  <1>3. first = [k \in 1 .. 2 |-> first[k]] /\ first[1] = a /\ first[2] = b
    <2> HIDE DEF a, b
    <2>1. /\ <<a, b>> = [k \in 1 .. 2 |-> <<a, b>>[k]]
          /\ <<a, b>>[1] = a /\ <<a, b>>[2] = b
      BY ONLY Pair, Zenon
    <2> QED BY <2>1, Zenon
  <1>4. /\ names = [k \in 1 .. W |-> names[k]]
        /\ ids = [k \in 1 .. W |-> ids[k]]
    OBVIOUS
  <1>5. first \o names = u
    <2> HIDE DEF a, b, first, names, W
    <2> DEFINE m == 2
    <2>2. m \in Nat /\ first = [k \in 1 .. m |-> first[k]]
      BY <1>3
    <2> HIDE DEF m
    <2>3. first \o names =
            [k \in 1 .. m + W |-> IF k <= m THEN first[k] ELSE names[k - m]]
      BY <1>1, <1>4, <2>2, Joined
    <2> QED BY <2>3 DEF u, m
  <1>6. u = [k \in 1 .. 2 + W |-> u[k]]
    OBVIOUS
  <1>7. u \o ids = v
    <2> HIDE DEF u, ids, W
    <2>1. 2 + W \in Nat
      BY <1>1
    <2> QED BY <1>1, <1>4, <1>6, <2>1, Joined DEF v
  <1>8. HeaderText = v
    BY <1>2, <1>5, <1>7
  <1>9. /\ v = [k \in 1 .. 2 + 2 * W |-> v[k]]
        /\ v[1] = a /\ v[2] = b
        /\ \A k \in 1 .. W : v[2 + k] = names[k] /\ v[2 + W + k] = ids[k]
    <2> HIDE DEF a, b, first, names, ids, W
    <2>1. (2 + W) + W = 2 + 2 * W
      BY <1>1
    <2>2. v = [k \in 1 .. 2 + 2 * W |-> v[k]]
      BY <2>1
    <2>3. \A k \in 1 .. 2 + W : v[k] = IF k <= 2 THEN first[k] ELSE names[k - 2]
      BY <1>1
    <2>4. \A k \in 1 .. W : v[2 + W + k] = ids[k]
      BY <1>1
    <2> HIDE DEF u, v
    <2>5. v[1] = a /\ v[2] = b
      BY <1>1, <1>3, <2>3
    <2>6. \A k \in 1 .. W : v[2 + k] = names[k]
      <3>1. \A k \in 1 .. W : 2 + k \in 1 .. 2 + W /\ ~(2 + k <= 2) /\ (2 + k) - 2 = k
        BY <1>1
      <3> QED BY <2>3, <3>1
    <2> QED BY <2>2, <2>4, <2>5, <2>6
  <1>10. \A k \in 1 .. W :
           /\ names[k] = IF k = 1 THEN <<"layer_index">>
                         ELSE IF k < Width THEN <<"name", Column(k - 2)>>
                         ELSE <<"\n">>
           /\ ids[k] = IF k = 1 THEN <<"event_id">>
                       ELSE IF k < Width THEN <<"id", Column(k - 2)>>
                       ELSE <<"\n">>
    OBVIOUS
  <1> HIDE DEF v, names, ids
  <1> QED BY <1>8, <1>9, <1>10 DEF W, a, b

LEMMA TableShape ==
  ASSUME SizesOK
  PROVE  /\ Table = [k \in 1 .. TableLen |-> Table[k]]
         /\ header => \A k \in 1 .. HeaderLen : Table[k] = HeaderText[k]
         /\ \A k \in 1 .. current_chunk_ops * Width :
              Table[HeaderLen + k] = RowsText[k]
  <1> DEFINE n == current_chunk_ops * Width
             h == HeaderLen
             s == IF header THEN HeaderText ELSE <<>>
             v == [k \in 1 .. h + n |-> IF k <= h THEN s[k] ELSE RowsText[k - h]]
  <1>1. h \in Nat /\ n \in Nat /\ TableLen = h + n
    BY Sizes
  <1>2. s = [k \in 1 .. h |-> s[k]]
    <2>1. CASE header
      BY <2>1, Sizes, HeaderShape
    <2>2. CASE ~header
      <3>1. h = 0 /\ s = <<>>
        BY <2>2, Sizes
      <3>2. <<>> = [k \in 1 .. 0 |-> s[k]]
        OBVIOUS
      <3> HIDE DEF h, s
      <3> QED BY <3>1, <3>2
    <2> QED BY <2>1, <2>2
  <1>3. RowsText = [k \in 1 .. n |-> RowsText[k]]
    BY DEF RowsText
  <1>4. Table = v
    <2>1. Table = s \o RowsText
      BY DEF Table
    <2> HIDE DEF s, n, h
    <2> QED BY <1>1, <1>2, <1>3, <2>1, Joined DEF v
  <1>5. \A k \in 1 .. h : v[k] = s[k]
    <2> HIDE DEF h, n, s
    <2> QED BY <1>1
  <1>6. \A k \in 1 .. n : v[h + k] = RowsText[k]
    <2> HIDE DEF h, n, s
    <2>1. \A k \in 1 .. n : h + k \in 1 .. h + n /\ ~(h + k <= h) /\ (h + k) - h = k
      BY <1>1
    <2> QED BY <1>1, <2>1
  <1>7. v = [k \in 1 .. h + n |-> v[k]]
    OBVIOUS
  <1>8. header => \A k \in 1 .. h : v[k] = HeaderText[k]
    <2> HIDE DEF v, h
    <2> QED BY <1>5
  <1> HIDE DEF v, s, n, h
  <1> QED BY <1>1, <1>4, <1>6, <1>7, <1>8 DEF h, n

(* Row r of the chunk, its label, its exact values and its end. *)
LEMMA RowTexts ==
  ASSUME SizesOK, NEW r \in 0 .. current_chunk_ops - 1, NEW c \in 1 .. Width
  PROVE  /\ HeaderLen + r * Width \in Nat
         /\ HeaderLen + (r + 1) * Width = HeaderLen + r * Width + Width
         /\ HeaderLen + r * Width + Width <= TableLen
         /\ Table[HeaderLen + r * Width + c] =
              IF c = 1 THEN <<"row", current_chunk_start + r>>
              ELSE IF c < Width
                THEN <<"value",
                       Cost(current_chunk_start + r, Column(c - 2)) % Word>>
              ELSE <<"\n">>
  <1> DEFINE W == Width
             n == current_chunk_ops
             p == r * W
             k == p + c
  <1>1. W \in Nat /\ W >= 2 /\ n \in Nat /\ HeaderLen \in Nat
    BY Sizes DEF SizesOK
  <1>2. r \in Nat /\ c \in 1 .. W /\ r + 1 <= n /\ c - 1 \in 0 .. W - 1
    BY <1>1
  <1>3. /\ p \in Nat /\ (r + 1) * W = p + W
        /\ p + W <= n * W /\ n * W \in Nat
    <2> HIDE DEF W, n
    <2>1. \A x, y, z \in Nat : x + 1 <= z => /\ x * y \in Nat /\ z * y \in Nat
                                           /\ (x + 1) * y = x * y + y
                                           /\ x * y + y <= z * y
      BY Z3
    <2> QED BY <1>1, <1>2, <2>1
  <1>4. TableLen = HeaderLen + n * W
    BY Sizes
  <1>5. (p + (c - 1)) \div W = r /\ (p + (c - 1)) % W = c - 1
    <2> HIDE DEF W, n
    <2> QED BY <1>1, <1>2, RowOfText
  <1>6. k \in 1 .. n * W /\ k - 1 = p + (c - 1)
    <2> HIDE DEF p, W, n
    <2>1. \A q \in Nat : p + W <= q => k \in 1 .. q
      BY <1>1, <1>2, <1>3
    <2> QED BY <1>1, <1>2, <1>3, <2>1
  <1>7. RowsText[k] = RowText(current_chunk_start + r)[c]
    <2>1. RowsText[k] =
            RowText(current_chunk_start + (k - 1) \div W)[((k - 1) % W) + 1]
      <3> HIDE DEF k
      <3> QED BY <1>6 DEF RowsText
    <2>2. (k - 1) \div W = r /\ ((k - 1) % W) + 1 = c
      <3>1. (k - 1) \div W = r /\ (k - 1) % W = c - 1
        <4> HIDE DEF k, p, W
        <4> QED BY <1>5, <1>6
      <3>2. (c - 1) + 1 = c
        BY <1>2
      <3> HIDE DEF k, W
      <3> QED BY <3>1, <3>2
    <2> HIDE DEF k, W
    <2> QED BY <2>1, <2>2
  <1>8. Table[HeaderLen + k] = RowsText[k]
    <2>1. \A j \in 1 .. n * W : Table[HeaderLen + j] = RowsText[j]
      BY TableShape
    <2> HIDE DEF k, n, W
    <2> QED BY <1>6, <2>1
  <1>9. RowText(current_chunk_start + r)[c] =
          IF c = 1 THEN <<"row", current_chunk_start + r>>
          ELSE IF c < Width
            THEN <<"value", Cost(current_chunk_start + r, Column(c - 2)) % Word>>
          ELSE <<"\n">>
    BY DEF RowText, Line
  <1>10. HeaderLen + k = HeaderLen + p + c
    <2> HIDE DEF p
    <2> QED BY <1>1, <1>2, <1>3
  <1>11. /\ HeaderLen + p \in Nat
         /\ HeaderLen + (r + 1) * W = HeaderLen + p + W
         /\ HeaderLen + p + W <= TableLen
    <2> DEFINE q == n * W
               x == (r + 1) * W
    <2>1. q \in Nat /\ x = p + W /\ p + W <= q /\ TableLen = HeaderLen + q
      BY <1>3, <1>4
    <2> HIDE DEF q, x, p, W
    <2> QED BY <1>1, <1>3, <2>1 DEF x
  <1>12. Table[HeaderLen + p + c] = RowText(current_chunk_start + r)[c]
    <2> HIDE DEF k, p
    <2> QED BY <1>7, <1>8, <1>10
  <1> QED BY <1>9, <1>11, <1>12

-----------------------------------------------------------------------------
(* The texts written so far are the beginning of the table.                 *)

Cut(n) == [k \in 1 .. n |-> Table[k]]

LEMMA Appended ==
  ASSUME NEW f, NEW n \in Nat
  PROVE  Append([k \in 1 .. n |-> f[k]], f[n + 1]) = [k \in 1 .. n + 1 |-> f[k]]
  <1> DEFINE S == {f[k] : k \in 1 .. n + 1}
             s == [k \in 1 .. n |-> f[k]]
             t == [k \in 1 .. n + 1 |-> f[k]]
  <1>1. s \in [1 .. n -> S] /\ t \in [1 .. n + 1 -> S] /\ f[n + 1] \in S
    OBVIOUS
  <1>2. \A k \in 1 .. n + 1 : t[k] = IF k <= n THEN s[k] ELSE f[n + 1]
    OBVIOUS
  <1> HIDE DEF S, s, t
  <1>3. s \in Seq(S) /\ t \in Seq(S) /\ Len(s) = n /\ Len(t) = n + 1
    BY <1>1
  <1> DEFINE u == Append(s, f[n + 1])
  <1>4. /\ u \in Seq(S) /\ Len(u) = n + 1
        /\ \A k \in 1 .. n : u[k] = s[k]
        /\ u[n + 1] = f[n + 1]
    <2>1. /\ u \in Seq(S) /\ Len(u) = Len(s) + 1
          /\ \A k \in 1 .. Len(s) : u[k] = s[k]
          /\ u[Len(s) + 1] = f[n + 1]
      BY <1>1, <1>3, AppendProperties
    <2> HIDE DEF u
    <2> QED BY <1>3, <2>1
  <1> HIDE DEF u
  <1>5. \A k \in 1 .. Len(u) : u[k] = t[k]
    BY <1>2, <1>4
  <1>6. u = t
    BY <1>3, <1>4, <1>5, SeqEqual
  <1> QED BY <1>6 DEF s, t, u

LEMMA Beginning ==
  ASSUME NEW t, NEW m \in Nat, t = [k \in 1 .. m |-> t[k]], NEW n \in 0 .. m
  PROVE  /\ IsPrefix([k \in 1 .. n |-> t[k]], t)
         /\ [k \in 1 .. m |-> t[k]] = t
  <1> DEFINE S == {t[k] : k \in 1 .. m}
             s == [k \in 1 .. n |-> t[k]]
  <1>1. t \in [1 .. m -> S] /\ s \in [1 .. n -> S]
    OBVIOUS
  <1>2. \A k \in 1 .. n : s[k] = t[k] /\ k \in 1 .. m
    OBVIOUS
  <1> HIDE DEF S, s
  <1>3. s \in Seq(S) /\ t \in Seq(S) /\ Len(s) = n /\ Len(t) = m
    BY <1>1
  <1> DEFINE u == SubSeq(t, 1, n)
  <1>4. SubSeq(s, 1, Len(s)) = s
    BY <1>3, SubSeqFull
  <1>5. u \in Seq(S) /\ Len(u) = n /\ \A k \in 1 .. n : u[k] = t[k]
    <2>1. t \in Seq(S) /\ n \in 0 .. Len(t)
      BY <1>3
    <2>2. u \in Seq(S)
      BY <2>1
    <2>3. Len(u) = n
      BY <2>1
    <2>4. \A k \in 1 .. n : u[k] = t[k]
      BY <2>1
    <2> QED BY <2>2, <2>3, <2>4
  <1> HIDE DEF u
  <1>6. \A k \in 1 .. Len(u) : u[k] = s[k]
    BY <1>2, <1>5
  <1>7. u = s
    BY <1>3, <1>5, <1>6, SeqEqual
  <1>8. IsPrefix(s, t)
    <2>1. Len(s) <= Len(t)
      BY <1>3
    <2>2. SubSeq(t, 1, Len(s)) = u
      BY <1>3 DEF u
    <2> QED BY <1>4, <1>7, <2>1, <2>2, Zenon DEF IsPrefix
  <1> QED BY <1>8 DEF s

(* n texts precede the write at p. *)
Reached(p, n) ==
  \/ p.stage = "version" /\ header /\ n = 0
  \/ p.stage = "chunk" /\ header /\ n = 1
  \/ p.stage = "layer_index" /\ header /\ n = 2
  \/ /\ p.stage = "name" /\ header
     /\ p.e \in 0 .. capture.total_event_count /\ n = 3 + p.e
  \/ p.stage = "event_id" /\ header /\ n = 2 + Width
  \/ /\ p.stage = "id" /\ header
     /\ p.e \in 0 .. capture.total_event_count /\ n = 3 + Width + p.e
  \/ /\ p.stage = "label"
     /\ p.r \in 0 .. current_chunk_ops /\ n = HeaderLen + p.r * Width
  \/ /\ p.stage = "value"
     /\ p.r \in 0 .. current_chunk_ops - 1
     /\ p.e \in 0 .. capture.total_event_count
     /\ n = HeaderLen + p.r * Width + 1 + p.e

SentInv ==
  /\ header \in BOOLEAN
  /\ result \in {None, "SUCCESS", "FAILURE"}
  /\ at # Idle \/ result # None => pc = "ready"
  /\ at # Idle =>
       /\ result = None
       /\ \E n \in 0 .. TableLen : Reached(at, n) /\ written = Cut(n)
  /\ result = "FAILURE" => \E n \in 0 .. TableLen : written = Cut(n)
  /\ result = "SUCCESS" => written = Cut(TableLen)

LEMMA SentIsExact ==
  ASSUME SizesOK, SentInv
  PROVE  TableIsExact /\ OnlyTransportFails
  <1>1. OnlyTransportFails
    BY ResultAssumption DEF SentInv, OnlyTransportFails
  <1>2. TableLen \in Nat /\ Table = [k \in 1 .. TableLen |-> Table[k]]
    BY Sizes, TableShape
  <1>3. \A n \in 0 .. TableLen : IsPrefix(Cut(n), Table)
    BY <1>2, Beginning DEF Cut
  <1>4. Cut(TableLen) = Table /\ TableLen \in 0 .. TableLen
    BY <1>2 DEF Cut
  <1>5. at # Idle \/ result # None => \E n \in 0 .. TableLen : written = Cut(n)
    BY <1>4 DEF SentInv
  <1> QED BY <1>1, <1>3, <1>4, <1>5 DEF SentInv, TableIsExact

-----------------------------------------------------------------------------
(* The steps. *)

LEMMA SizesKnown == TypeOK /\ header \in BOOLEAN => SizesOK
  BY CaptureAssumption DEF TypeOK, ShapeOK, ProgressOK, SizesOK

LEMMA SameTable ==
  ASSUME UNCHANGED <<captureVars, header>>
  PROVE  /\ Table' = Table /\ TableLen' = TableLen
         /\ \A n : Cut(n)' = Cut(n)
         /\ \A p, n : Reached(p, n)' = Reached(p, n)
  <1>1. UNCHANGED <<capture, current_chunk_start, current_chunk_ops>>
    BY DEF captureVars, progress
  <1>2. Table' = Table
    BY <1>1 DEF Table, HeaderText, RowsText, RowText, Line, Width, Column
  <1>3. TableLen' = TableLen
    BY <1>1 DEF TableLen, HeaderLen, Width
  <1>4. \A p, n : Reached(p, n)' = Reached(p, n)
    BY <1>1 DEF Reached, HeaderLen, Width
  <1> QED BY <1>2, <1>3, <1>4 DEF Cut

Sending ==
  /\ pc = "ready" /\ UNCHANGED <<captureVars, header, pc>>
  /\ result = None /\ TypeOK /\ SentInv

(* A call that returns with a failure of the transport has written the      *)
(* beginning of the table.                                                  *)
LEMMA FailedStep ==
  ASSUME Sending, TransportFails, NEW n \in 0 .. TableLen, written = Cut(n)
  PROVE  SentInv'
  <1>1. at' = Idle /\ result' = "FAILURE" /\ written' = written
    BY DEF TransportFails, Return
  <1>2. n \in 0 .. TableLen' /\ written' = Cut(n)'
    BY <1>1, SameTable DEF Sending
  <1>3. header' \in BOOLEAN /\ pc' = "ready"
    BY DEF Sending, SentInv
  <1> QED BY <1>1, <1>2, <1>3 DEF SentInv

(* A write that puts down the text that is due. *)
LEMMA WriteStep ==
  ASSUME Sending, NEW n \in 0 .. TableLen, written = Cut(n),
         NEW text, NEW next, Write(text, next),
         n < TableLen, text = Table[n + 1],
         Reached(next, n + 1)
  PROVE  SentInv'
  <1>1. CASE TransportFails
    BY <1>1, FailedStep
  <1>2. CASE written' = Append(written, text) /\ at' = next /\ result' = result
    <2>1. TableLen \in Nat
      BY Sizes, SizesKnown DEF Sending, SentInv
    <2>2. n + 1 \in 0 .. TableLen
      BY <2>1
    <2>3. Append(Cut(n), Table[n + 1]) = Cut(n + 1)
      BY <2>1, Appended DEF Cut
    <2>4. n + 1 \in 0 .. TableLen' /\ written' = Cut(n + 1)'
      BY <1>2, <2>2, <2>3, SameTable DEF Sending
    <2>5. header' \in BOOLEAN /\ pc' = "ready" /\ result' = None
      BY <1>2 DEF Sending, SentInv
    <2>6. Reached(at, n + 1)'
      <3>1. PICK p : p = at'
        OBVIOUS
      <3>2. Reached(p, n + 1)'
        BY <1>2, <3>1, SameTable DEF Sending
      <3> QED BY <3>1, <3>2 DEF Reached
    <2> QED BY <2>4, <2>5, <2>6, ResultAssumption DEF SentInv
  <1> QED BY <1>1, <1>2 DEF Write

LEMMA FirstLinesStep ==
  ASSUME Sending, NEW n \in 0 .. TableLen, written = Cut(n), Reached(at, n),
         FirstLines
  PROVE  SentInv'
  <1>1. /\ SizesOK /\ header' = header /\ capture' = capture
        /\ current_chunk_ops' = current_chunk_ops
    BY SizesKnown DEF Sending, SentInv, captureVars, progress
  <1>2. header /\ n \in {0, 1} /\ HeaderLen = 2 + 2 * Width
        /\ TableLen \in Nat /\ TableLen = HeaderLen + current_chunk_ops * Width
        /\ Width \in Nat /\ current_chunk_ops * Width \in Nat
    BY <1>1, Sizes DEF Reached, FirstLines
  <1>3. n < TableLen /\ n + 1 \in 1 .. HeaderLen
    <2> DEFINE p == current_chunk_ops * Width
    <2>1. p \in Nat /\ TableLen = HeaderLen + p
      BY <1>2
    <2> HIDE DEF p
    <2> QED BY <1>2, <2>1
  <1>4. Table[n + 1] = HeaderText[n + 1]
    BY <1>1, <1>2, <1>3, TableShape
  <1>5. CASE at.stage = "version" /\ Write(<<"# version">>, At("chunk", 0, 0))
    <2>1. n = 0
      BY <1>5 DEF Reached
    <2>2. Table[n + 1] = <<"# version">>
      <3>1. HeaderText[1] = <<"# version">>
        BY <1>1, HeaderShape, Zenon
      <3>2. n + 1 = 1
        BY <2>1
      <3> QED BY ONLY <1>4, <3>1, <3>2, Zenon
    <2>3. Reached(At("chunk", 0, 0), n + 1)
      BY <1>1, <1>2, <2>1 DEF Reached, At
    <2> QED BY <1>3, <1>5, <2>2, <2>3, WriteStep
  <1>6. CASE /\ at.stage = "chunk"
             /\ Write(<<"# chunk", current_chunk_start, current_chunk_ops,
                        capture.total_ops, capture.total_event_count,
                        capture.events_per_pass>>, At("layer_index", 0, 0))
    <2>1. n = 1
      BY <1>6 DEF Reached
    <2>2. Table[n + 1] = <<"# chunk", current_chunk_start, current_chunk_ops,
                           capture.total_ops, capture.total_event_count,
                           capture.events_per_pass>>
      <3>1. HeaderText[2] =
              <<"# chunk", current_chunk_start, current_chunk_ops,
                capture.total_ops, capture.total_event_count,
                capture.events_per_pass>>
        BY <1>1, HeaderShape, Zenon
      <3>2. n + 1 = 2
        BY <2>1
      <3> QED BY ONLY <1>4, <3>1, <3>2, Zenon
    <2>3. Reached(At("layer_index", 0, 0), n + 1)
      BY <1>1, <1>2, <2>1 DEF Reached, At
    <2> QED BY <1>3, <1>6, <2>2, <2>3, WriteStep
  <1> QED BY <1>5, <1>6 DEF FirstLines

(* The two header lines, from place a on: title, cells, end. *)
LEMMA HeaderLinesStep ==
  ASSUME Sending, CaptureInv, NEW n \in 0 .. TableLen, written = Cut(n),
         Reached(at, n), HeaderLines
  PROVE  SentInv'
  <1> DEFINE E == capture.total_event_count
  <1>1. /\ SizesOK /\ header' = header /\ capture' = capture
        /\ current_chunk_ops' = current_chunk_ops
    BY SizesKnown DEF Sending, SentInv, captureVars, progress
  <1>2. /\ Width \in Nat /\ Width = E + 2 /\ E \in Nat
        /\ TableLen \in Nat /\ HeaderLen = 2 + 2 * Width
        /\ HeaderLen <= TableLen /\ header /\ Width' = Width
    <2> DEFINE p == current_chunk_ops * Width
    <2>1. header
      BY DEF Reached, HeaderLines, HeaderLine
    <2>2. /\ Width \in Nat /\ Width = E + 2 /\ TableLen \in Nat
          /\ HeaderLen = 2 + 2 * Width /\ p \in Nat /\ TableLen = HeaderLen + p
      BY <1>1, <2>1, Sizes
    <2>3. Width' = Width /\ E \in Nat
      BY <1>1 DEF Width, SizesOK
    <2> HIDE DEF p
    <2> QED BY <2>1, <2>2, <2>3
  <1>3. \A e \in 0 .. E - 1 : HeaderIndex(e) = Column(e) /\ Column(e) \in MapEvent
    BY DEF Sending, CaptureInv, ChunkInv, InCapture, Running, HeaderIndex, Column
  <1>4. \A k \in 1 .. HeaderLen : Table[k] = HeaderText[k]
    BY <1>1, <1>2, TableShape
  <1>5. \A k \in 1 .. Width :
          /\ HeaderText[2 + k] =
               IF k = 1 THEN <<"layer_index">>
               ELSE IF k < Width THEN <<"name", Column(k - 2)>>
               ELSE <<"\n">>
          /\ HeaderText[2 + Width + k] =
               IF k = 1 THEN <<"event_id">>
               ELSE IF k < Width THEN <<"id", Column(k - 2)>>
               ELSE <<"\n">>
    BY <1>1, HeaderShape
  <1>6. \A k \in 1 .. Width :
          /\ 2 + k \in 1 .. HeaderLen /\ 2 + Width + k \in 1 .. HeaderLen
    BY <1>2
  <1>7. ASSUME NEW k \in 1 .. Width
        PROVE  /\ Table[2 + k] =
                    IF k = 1 THEN <<"layer_index">>
                    ELSE IF k < Width THEN <<"name", Column(k - 2)>>
                    ELSE <<"\n">>
               /\ Table[2 + Width + k] =
                    IF k = 1 THEN <<"event_id">>
                    ELSE IF k < Width THEN <<"id", Column(k - 2)>>
                    ELSE <<"\n">>
               /\ 2 + k <= TableLen /\ 2 + Width + k <= TableLen
    <2>1. /\ Table[2 + k] = HeaderText[2 + k]
          /\ Table[2 + Width + k] = HeaderText[2 + Width + k]
      BY <1>4, <1>6, Zenon
    <2>2. 2 + k <= TableLen /\ 2 + Width + k <= TableLen
      BY <1>2
    <2> QED BY <1>5, <2>1, <2>2, Zenon
  <1>8. ASSUME NEW title, NEW cells, NEW next, NEW a \in Nat,
               HeaderLine(title, cells, next),
               at.stage = title => n = a,
               at.stage = cells => at.e \in 0 .. E /\ n = a + 1 + at.e,
               a + Width <= TableLen,
               Table[a + 1] = <<title>>,
               \A e \in 0 .. E - 1 : Table[a + 2 + e] = <<cells, Column(e)>>,
               Table[a + Width] = <<"\n">>,
               Reached(At(cells, 0, 0), a + 1),
               \A e \in 0 .. E : Reached(At(cells, 0, e), a + 1 + e),
               Reached(At(next, 0, 0), a + Width)
        PROVE  SentInv'
    <2>1. CASE at.stage = title /\ Write(<<title>>, At(cells, 0, 0))
      <3>1. n = a /\ n < TableLen
        BY <1>2, <1>8, <2>1
      <3>2. /\ <<title>> = Table[n + 1]
            /\ Reached(At(cells, 0, 0), n + 1)
        BY ONLY <1>8, <3>1, Zenon
      <3> QED BY <2>1, <3>1, <3>2, WriteStep
    <2>2. CASE /\ at.stage = cells /\ at.e < E
               /\ HeaderIndex(at.e) \in MapEvent
               /\ Write(<<cells, HeaderIndex(at.e)>>, At(cells, 0, at.e + 1))
      <3>1. /\ at.e \in 0 .. E - 1 /\ at.e + 1 \in 0 .. E /\ n < TableLen
            /\ n + 1 = a + 2 + at.e /\ n + 1 = a + 1 + (at.e + 1)
        BY <1>2, <1>8, <2>2
      <3>2. <<cells, HeaderIndex(at.e)>> = Table[n + 1]
        <4>1. Table[a + 2 + at.e] = <<cells, Column(at.e)>>
          BY ONLY <1>8, <3>1, Zenon
        <4>2. HeaderIndex(at.e) = Column(at.e)
          BY ONLY <1>3, <3>1, Zenon
        <4> QED BY ONLY <3>1, <4>1, <4>2, Zenon
      <3>3. Reached(At(cells, 0, at.e + 1), n + 1)
        <4>1. Reached(At(cells, 0, at.e + 1), a + 1 + (at.e + 1))
          BY ONLY <1>8, <3>1, Zenon
        <4> QED BY ONLY <3>1, <4>1, Zenon
      <3> QED BY <2>2, <3>1, <3>2, <3>3, WriteStep
    <2>3. CASE /\ at.stage = cells /\ at.e < E
               /\ HeaderIndex(at.e) \notin MapEvent
      <3>1. at.e \in 0 .. E - 1
        BY <1>2, <1>8, <2>3
      <3> QED BY <1>3, <2>3, <3>1
    <2>4. CASE at.stage = cells /\ at.e >= E /\ Write(<<"\n">>, At(next, 0, 0))
      <3>1. n + 1 = a + Width /\ n < TableLen
        BY <1>2, <1>8, <2>4
      <3>2. /\ <<"\n">> = Table[n + 1]
            /\ Reached(At(next, 0, 0), n + 1)
        BY ONLY <1>8, <3>1, Zenon
      <3> QED BY <2>4, <3>1, <3>2, WriteStep
    <2> QED BY <1>8, <2>1, <2>2, <2>3, <2>4 DEF HeaderLine
  <1>9. 1 \in 1 .. Width /\ Width \in 1 .. Width /\ Width # 1
        /\ \A e \in 0 .. E - 1 :
             e + 2 \in 1 .. Width /\ e + 2 # 1 /\ e + 2 < Width /\ e + 2 - 2 = e
    BY <1>2
  <1>10. CASE HeaderLine("layer_index", "name", "event_id")
    <2> DEFINE a == 2
    <2>1. a \in Nat /\ a + Width <= TableLen
      BY <1>2
    <2>2. /\ at.stage = "layer_index" => n = a
          /\ at.stage = "name" => at.e \in 0 .. E /\ n = a + 1 + at.e
      BY DEF Reached
    <2>3. /\ Table[a + 1] = <<"layer_index">> /\ Table[a + Width] = <<"\n">>
          /\ \A e \in 0 .. E - 1 : Table[a + (e + 2)] = <<"name", Column(e)>>
      <3>1. \A k \in 1 .. Width :
              Table[a + k] = IF k = 1 THEN <<"layer_index">>
                             ELSE IF k < Width THEN <<"name", Column(k - 2)>>
                             ELSE <<"\n">>
        BY <1>7
      <3> HIDE DEF a
      <3>2. Table[a + 1] = <<"layer_index">> /\ Table[a + Width] = <<"\n">>
        <4>1. ~(Width < Width)
          BY <1>2
        <4> QED BY <1>9, <3>1, <4>1, Zenon
      <3>3. ASSUME NEW e \in 0 .. E - 1
            PROVE  Table[a + (e + 2)] = <<"name", Column(e)>>
        <4> DEFINE c == e + 2
        <4>1. c \in 1 .. Width /\ c # 1 /\ c < Width /\ c - 2 = e
          BY <1>2
        <4> HIDE DEF c
        <4>2. Table[a + c] = <<"name", Column(c - 2)>>
          BY <3>1, <4>1, Zenon
        <4>3. Table[a + c] = <<"name", Column(e)>>
          BY ONLY <4>1, <4>2, Zenon
        <4> QED BY <4>3 DEF c
      <3> QED BY <3>2, <3>3
    <2>4. \A e \in 0 .. E - 1 : Table[a + 2 + e] = <<"name", Column(e)>>
      <3>1. \A e \in 0 .. E - 1 : a + (e + 2) = a + 2 + e
        OBVIOUS
      <3> QED BY <2>3, <3>1
    <2>5. \A e \in 0 .. E : Reached(At("name", 0, e), a + 1 + e)
      BY <1>2 DEF Reached, At
    <2>6. Reached(At("name", 0, 0), a + 1)
      BY <1>2 DEF Reached, At
    <2>7. Reached(At("event_id", 0, 0), a + Width)
      BY <1>2 DEF Reached, At
    <2> HIDE DEF a, E
    <2> QED BY <1>8, <1>10, <2>1, <2>2, <2>3, <2>4, <2>5, <2>6, <2>7
  <1>11. CASE HeaderLine("event_id", "id", "label")
    <2> DEFINE a == 2 + Width
    <2>1. a \in Nat /\ a + Width <= TableLen
      BY <1>2
    <2>2. /\ at.stage = "event_id" => n = a
          /\ at.stage = "id" => at.e \in 0 .. E /\ n = a + 1 + at.e
      BY <1>2 DEF Reached
    <2>3. /\ Table[a + 1] = <<"event_id">> /\ Table[a + Width] = <<"\n">>
          /\ \A e \in 0 .. E - 1 : Table[a + (e + 2)] = <<"id", Column(e)>>
      <3>1. \A k \in 1 .. Width :
              Table[a + k] = IF k = 1 THEN <<"event_id">>
                             ELSE IF k < Width THEN <<"id", Column(k - 2)>>
                             ELSE <<"\n">>
        BY <1>7
      <3> HIDE DEF a
      <3>2. Table[a + 1] = <<"event_id">> /\ Table[a + Width] = <<"\n">>
        <4>1. ~(Width < Width)
          BY <1>2
        <4> QED BY <1>9, <3>1, <4>1, Zenon
      <3>3. ASSUME NEW e \in 0 .. E - 1
            PROVE  Table[a + (e + 2)] = <<"id", Column(e)>>
        <4> DEFINE c == e + 2
        <4>1. c \in 1 .. Width /\ c # 1 /\ c < Width /\ c - 2 = e
          BY <1>2
        <4> HIDE DEF c
        <4>2. Table[a + c] = <<"id", Column(c - 2)>>
          BY <3>1, <4>1, Zenon
        <4>3. Table[a + c] = <<"id", Column(e)>>
          BY ONLY <4>1, <4>2, Zenon
        <4> QED BY <4>3 DEF c
      <3> QED BY <3>2, <3>3
    <2>4. \A e \in 0 .. E - 1 : Table[a + 2 + e] = <<"id", Column(e)>>
      <3>1. \A e \in 0 .. E - 1 : a + (e + 2) = a + 2 + e
        BY <1>2
      <3> QED BY <2>3, <3>1
    <2>5. \A e \in 0 .. E : Reached(At("id", 0, e), a + 1 + e)
      BY <1>2 DEF Reached, At
    <2>6. Reached(At("id", 0, 0), a + 1)
      BY <1>2 DEF Reached, At
    <2>7. Reached(At("label", 0, 0), a + Width)
      <3>1. a + Width = HeaderLen + 0 * Width /\ 0 \in 0 .. current_chunk_ops
        BY <1>1, <1>2 DEF SizesOK
      <3> QED BY <3>1 DEF Reached, At
    <2> HIDE DEF a, E
    <2> QED BY <1>8, <1>11, <2>1, <2>2, <2>3, <2>4, <2>5, <2>6, <2>7
  <1> QED BY <1>10, <1>11 DEF HeaderLines

LEMMA RowLineStep ==
  ASSUME Sending, CaptureInv, NEW n \in 0 .. TableLen, written = Cut(n),
         Reached(at, n), RowLine
  PROVE  SentInv'
  <1> DEFINE E == capture.total_event_count
             W == Width
  <1>1. SizesOK /\ W \in Nat /\ W = E + 2 /\ E \in Nat /\ TableLen \in Nat
        /\ current_chunk_ops \in Nat
    BY Sizes, SizesKnown DEF Sending, SentInv, SizesOK
  <1>2. ASSUME NEW r \in 0 .. current_chunk_ops - 1, NEW e \in 0 .. E - 1
        PROVE  matrix_storage[Offset(r, e)] =
                 Cost(current_chunk_start + r, Column(e)) % Word
    BY DEF Sending, CaptureInv, ReadyRowsExact, Columns
  <1>3. CASE /\ at.stage = "label" /\ at.r < current_chunk_ops
             /\ Write(<<"row", Label(at.r)>>, At("value", at.r, 0))
    <2> DEFINE r == at.r
               h == HeaderLen + r * W
    <2>1. r \in 0 .. current_chunk_ops - 1 /\ n = h
      BY <1>1, <1>3 DEF Reached
    <2>2. 1 \in 1 .. W
      BY <1>1
    <2>3. /\ h \in Nat /\ h + W <= TableLen
          /\ Table[h + 1] = <<"row", current_chunk_start + r>>
      BY <1>1, <2>1, <2>2, RowTexts
    <2> HIDE DEF h, r
    <2>4. n < TableLen /\ n + 1 = h + 1
      BY <1>1, <2>1, <2>3
    <2>5. <<"row", Label(r)>> = Table[n + 1]
      BY <2>3, <2>4 DEF Label
    <2>6. Reached(At("value", r, 0), n + 1)
      <3>1. n + 1 = h + 1 + 0 /\ 0 \in 0 .. E
        BY <1>1, <2>1, <2>3
      <3> QED BY <2>1, <3>1 DEF Reached, At, h
    <2> QED BY <1>3, <2>4, <2>5, <2>6, WriteStep DEF r
  <1>4. ASSUME at.stage = "value"
        PROVE  /\ at.r \in 0 .. current_chunk_ops - 1 /\ at.e \in 0 .. E
               /\ n = HeaderLen + at.r * W + 1 + at.e
    BY <1>4 DEF Reached
  <1>5. CASE /\ at.stage = "value" /\ at.e < E
             /\ Write(<<"value", matrix_storage[Offset(at.r, at.e)]>>,
                      At("value", at.r, at.e + 1))
    <2> DEFINE r == at.r
               e == at.e
               h == HeaderLen + r * W
    <2>1. r \in 0 .. current_chunk_ops - 1 /\ e \in 0 .. E - 1 /\ n = h + 1 + e
      BY <1>1, <1>4, <1>5
    <2>2. /\ e + 2 \in 1 .. W /\ e + 2 # 1 /\ e + 2 < W /\ e + 2 - 2 = e
      BY <1>1, <2>1
    <2>3. /\ h \in Nat /\ h + W <= TableLen
          /\ Table[h + (e + 2)] =
               <<"value", Cost(current_chunk_start + r, Column(e)) % Word>>
      <3> DEFINE c == e + 2
      <3>1. c \in 1 .. W /\ c # 1 /\ c < W /\ c - 2 = e
        BY <1>1, <2>1
      <3> HIDE DEF c
      <3>2. /\ h \in Nat /\ h + W <= TableLen
            /\ Table[h + c] =
                 IF c = 1 THEN <<"row", current_chunk_start + r>>
                 ELSE IF c < Width
                   THEN <<"value",
                          Cost(current_chunk_start + r, Column(c - 2)) % Word>>
                 ELSE <<"\n">>
        BY <1>1, <2>1, <3>1, RowTexts
      <3> HIDE DEF h, r, e
      <3> QED BY <3>1, <3>2, Zenon DEF c
    <2>4. matrix_storage[Offset(r, e)] =
            Cost(current_chunk_start + r, Column(e)) % Word
      BY <1>2, <2>1
    <2> HIDE DEF h, r, e
    <2>5. n < TableLen /\ n + 1 = h + (e + 2)
      BY <1>1, <2>1, <2>2, <2>3
    <2>6. <<"value", matrix_storage[Offset(r, e)]>> = Table[n + 1]
      BY ONLY <2>3, <2>4, <2>5, Zenon
    <2>7. Reached(At("value", r, e + 1), n + 1)
      <3>1. n + 1 = h + 1 + (e + 1) /\ e + 1 \in 0 .. E
        BY <1>1, <2>1, <2>3
      <3> QED BY <2>1, <3>1 DEF Reached, At, h
    <2> QED BY <1>5, <2>5, <2>6, <2>7, WriteStep DEF r, e
  <1>6. CASE /\ at.stage = "value" /\ at.e >= E
             /\ Write(<<"\n">>, At("label", at.r + 1, 0))
    <2> DEFINE r == at.r
               h == HeaderLen + r * W
    <2>1. r \in 0 .. current_chunk_ops - 1 /\ at.e = E /\ n = h + 1 + E
      BY <1>1, <1>4, <1>6
    <2>2. W \in 1 .. W /\ W # 1 /\ ~(W < W)
      BY <1>1
    <2>3. /\ h \in Nat /\ h + W <= TableLen /\ Table[h + W] = <<"\n">>
          /\ HeaderLen + (r + 1) * W = h + W
      BY <1>1, <2>1, <2>2, RowTexts
    <2> HIDE DEF h, r
    <2>4. n < TableLen /\ n + 1 = h + W
      BY <1>1, <2>1, <2>3
    <2>5. <<"\n">> = Table[n + 1]
      BY ONLY <2>3, <2>4, Zenon
    <2>6. Reached(At("label", r + 1, 0), n + 1)
      <3>1. r + 1 \in 0 .. current_chunk_ops
        BY <1>1, <2>1
      <3>2. n + 1 = HeaderLen + (r + 1) * W
        BY ONLY <2>3, <2>4, Zenon
      <3> QED BY <3>1, <3>2 DEF Reached, At
    <2> QED BY <1>6, <2>4, <2>5, <2>6, WriteStep DEF r
  <1> QED BY <1>3, <1>5, <1>6 DEF RowLine

LEMMA FlushStep ==
  ASSUME Sending, NEW n \in 0 .. TableLen, written = Cut(n), Reached(at, n),
         Flush
  PROVE  SentInv'
  <1>1. CASE TransportFails
    BY <1>1, FailedStep
  <1>2. CASE at.r >= current_chunk_ops /\ at.stage = "label"
             /\ Return("SUCCESS") /\ written' = written
    <2>1. SizesOK /\ current_chunk_ops \in Nat
      BY SizesKnown DEF Sending, SentInv, SizesOK
    <2>2. at.r = current_chunk_ops /\ n = HeaderLen + at.r * Width
      BY <1>2, <2>1 DEF Reached
    <2>3. n = TableLen
      BY <2>2 DEF TableLen
    <2>4. written' = Cut(TableLen)'
      <3>1. PICK m : m = TableLen
        OBVIOUS
      <3>2. written' = Cut(m)' /\ TableLen' = m
        BY <1>2, <2>3, <3>1, SameTable DEF Sending
      <3> QED BY <3>2 DEF Cut
    <2>5. header' \in BOOLEAN /\ pc' = "ready" /\ at' = Idle /\ result' = "SUCCESS"
      BY <1>2 DEF Sending, SentInv, Return
    <2> QED BY <2>4, <2>5 DEF SentInv
  <1> QED BY <1>1, <1>2 DEF Flush

LEMMA SizeType ==
  ASSUME NEW h \in BOOLEAN, NEW E \in Nat, NEW n \in Nat
  PROVE  (IF h THEN 2 + 2 * (E + 2) ELSE 0) + n * (E + 2) \in Nat
  <1> DEFINE p == n * (E + 2)
  <1>1. p \in Nat
    <2>1. \A a, b \in Nat : a * b \in Nat
      BY Z3
    <2> QED BY <2>1
  <1> HIDE DEF p
  <1>2. (IF h THEN 2 + 2 * (E + 2) ELSE 0) + p \in Nat
    BY <1>1
  <1> QED BY <1>2 DEF p

LEMMA SerializeBegins ==
  ASSUME TypeOK, CaptureInv, SentInv, NEW include_header \in BOOLEAN,
         Serialize(include_header),
         UNCHANGED <<captureVars, status, meter, pc, op, rows>>
  PROVE  SentInv'
  <1>1. pc = "ready" /\ pc' = "ready" /\ header' = include_header
        /\ written' = <<>>
    BY DEF Serialize
  <1>2. chunk_ready
    BY <1>1 DEF CaptureInv, ChunkInv, InCapture, Running
  <1>3. at' = At(IF include_header THEN "version" ELSE "label", 0, 0)
        /\ result' = None
    BY <1>2 DEF Serialize
  <1>4. header' \in BOOLEAN /\ capture.total_event_count' \in Nat
        /\ current_chunk_ops' \in Nat
    BY <1>1, SizesKnown DEF SizesOK, SentInv, captureVars, progress
  <1>5. TableLen' \in Nat
    <2>1. TableLen' = (IF header' THEN 2 + 2 * (capture.total_event_count' + 2)
                       ELSE 0)
                      + current_chunk_ops' * (capture.total_event_count' + 2)
      BY DEF TableLen, HeaderLen, Width
    <2> QED BY ONLY <1>4, <2>1, SizeType
  <1>6. 0 \in 0 .. TableLen' /\ written' = Cut(0)'
    <2>1. <<>> = [k \in 1 .. 0 |-> Table'[k]]
      OBVIOUS
    <2> QED BY <1>1, <1>5, <2>1 DEF Cut
  <1>7. Reached(at, 0)'
    <2>1. CASE include_header
      BY <1>1, <1>3, <2>1 DEF Reached, At
    <2>2. CASE ~include_header
      <3>1. at'.stage = "label" /\ at'.r = 0 /\ ~header'
        BY <1>1, <1>3, <2>2 DEF At
      <3>2. 0 \in 0 .. current_chunk_ops'
        BY <1>4
      <3>3. HeaderLen' = 0 /\ 0 * Width' = 0
        <4>1. \A a \in Nat : a + 2 \in Nat /\ 0 * (a + 2) = 0
          BY Z3
        <4> QED BY <1>4, <3>1, <4>1 DEF HeaderLen, Width
      <3>4. 0 = HeaderLen' + at'.r * Width'
        BY <3>1, <3>3
      <3> QED BY <3>1, <3>2, <3>4, Zenon DEF Reached
    <2> QED BY <2>1, <2>2
  <1> QED BY <1>1, <1>3, <1>4, <1>6, <1>7, ResultAssumption DEF SentInv

(* The step of the call that is due. *)
LEMMA SerializeGoesOn ==
  ASSUME TypeOK, CaptureInv, SentInv, SerializeStep,
         UNCHANGED <<captureVars, status, meter, pc, op, rows>>
  PROVE  SentInv'
  <1>1. at # Idle
    <2>1. at.stage \in {"version", "chunk", "layer_index", "name", "event_id",
                        "id", "label", "value"}
      BY DEF SerializeStep, FirstLines, HeaderLines, HeaderLine, RowLine, Flush
    <2>2. Idle.stage = "idle"
      BY DEF Idle, At
    <2> QED BY <2>1, <2>2
  <1>2. Sending
    BY <1>1 DEF Sending, SentInv, SerializeStep
  <1>3. PICK n \in 0 .. TableLen : Reached(at, n) /\ written = Cut(n)
    BY <1>1 DEF SentInv
  <1> QED BY <1>2, <1>3, FirstLinesStep, HeaderLinesStep, RowLineStep, FlushStep
             DEF SerializeStep

LEMMA SendStep ==
  ASSUME TypeOK, CaptureInv, SentInv, Send
  PROVE  TypeOK' /\ CaptureInv' /\ SentInv'
  <1>1. UNCHANGED <<captureVars, status, meter, pc, op, rows>>
    BY DEF Send
  <1>2. SentInv'
    BY <1>1, SerializeBegins, SerializeGoesOn DEF Send
  <1>3. upsets' \in 0 .. MaxUpsets
    <2>1. upsets' = upsets \/ (upsets < MaxUpsets /\ upsets' = upsets + 1)
      BY DEF Send, Serialize, SerializeStep, FirstLines, HeaderLines,
             HeaderLine, RowLine, Flush, Write, TransportFails
    <2>2. MaxUpsets \in Nat
      BY RunAssumption
    <2>3. upsets \in 0 .. MaxUpsets
      BY DEF TypeOK, ApplicationOK
    <2> QED BY ONLY <2>1, <2>2, <2>3
  <1>4. TypeOK'
    <2>1. ApplicationOK'
      BY <1>1, <1>3 DEF TypeOK, ApplicationOK
    <2> QED BY <1>1, <2>1 DEF TypeOK, ShapeOK, ProgressOK, BufferOK, MeterOK,
                              captureVars, progress, meter
  <1>5. CaptureInv'
    <2>1. ShapeInv' /\ ChunkInv' /\ MeterInv'
      BY <1>1 DEF CaptureInv, ShapeInv, ChunkInv, MeterInv, Accepted, InCapture,
         Running, PassEnd, Column, captureVars, progress, meter
    <2>2. LayerInv'
      BY <1>1 DEF CaptureInv, LayerInv, Running, Sampled, captureVars, progress,
         meter
    <2>3. CellsInv' /\ ReadyRowsExact'
      BY <1>1 DEF CaptureInv, CellsInv, ReadyRowsExact, Running, PassEnd,
         LayersDone, Measured, Columns, Column, Offset, captureVars, progress
    <2> QED BY <2>1, <2>2, <2>3 DEF CaptureInv
  <1> QED BY <1>2, <1>4, <1>5

(* Between calls a ready chunk stays as it is. *)
LEMMA ReadyKept ==
  ASSUME CaptureInv, Next, pc = "ready", pc' = "ready"
  PROVE  UNCHANGED captureVars
  <1>1. chunk_ready
    BY DEF CaptureInv, ChunkInv, InCapture, Running
  <1>2. ASSUME NEW cfg \in CaptureCfg, Setup(cfg)
        PROVE  FALSE
    BY <1>2 DEF Setup
  <1>3. CASE Work
    BY <1>3 DEF Work, LayerBegin, RunLayer, LayerEnd, BetweenLayers, ModelEnd,
                TakeRows, Advance, Recover, GiveUp
  <1>4. CASE Restart
    BY <1>4 DEF Restart, Then
  <1>5. CASE Stray
    BY <1>1, <1>5 DEF Stray, nsx_pmu_capture_model_end
  <1>6. ASSUME NEW c \in Config \ {Mine}, Lend(c)
        PROVE  UNCHANGED captureVars
    BY <1>6 DEF Lend
  <1> QED BY <1>2, <1>3, <1>4, <1>5, <1>6 DEF Next

LEMMA OtherwiseStep ==
  ASSUME TypeOK, CaptureInv, SentInv, Next, Otherwise
  PROVE  SentInv'
  <1>1. at' = Idle /\ header' = header
    BY DEF Otherwise
  <1>2. CASE result' = None
    BY <1>1, <1>2, ResultAssumption DEF SentInv
  <1>3. CASE result' # None
    <2>1. pc' = pc /\ result' = result /\ written' = written
      BY <1>3 DEF Otherwise
    <2>2. pc = "ready" /\ pc' = "ready"
      BY <1>3, <2>1 DEF SentInv
    <2>3. UNCHANGED <<captureVars, header>>
      BY <1>1, <2>2, ReadyKept
    <2>4. TableLen' = TableLen /\ \A n : Cut(n)' = Cut(n)
      BY <2>3, SameTable
    <2>5. result = "FAILURE" => \E n \in 0 .. TableLen' : written' = Cut(n)'
      BY <2>1, <2>4 DEF SentInv
    <2>6. result = "SUCCESS" => written' = Cut(TableLen)'
      <3>1. PICK m : m = TableLen
        OBVIOUS
      <3>2. Cut(m)' = Cut(m) /\ TableLen' = m
        BY <2>4, <3>1
      <3> QED BY <2>1, <3>1, <3>2 DEF SentInv, Cut
    <2> QED BY <1>1, <2>1, <2>2, <2>5, <2>6 DEF SentInv
  <1> QED BY <1>2, <1>3

LEMMA Unchanged ==
  ASSUME TypeOK, CaptureInv, SentInv, UNCHANGED csvVars
  PROVE  TypeOK' /\ CaptureInv' /\ SentInv'
  <1>1. UNCHANGED vars
    BY DEF csvVars
  <1>2. TypeOK' /\ CaptureInv'
    BY <1>1, NextInv
  <1>3. UNCHANGED <<captureVars, header, at, written, result, pc>>
    BY DEF csvVars, vars, csv, application
  <1>4. /\ TableLen' = TableLen
        /\ \A n : Cut(n)' = Cut(n)
        /\ \A p, n : Reached(p, n)' = Reached(p, n)
    BY <1>3, SameTable
  <1>5. at # Idle => \E n \in 0 .. TableLen' : Reached(at, n)' /\ written' = Cut(n)'
    <2>1. ASSUME NEW n, Reached(at, n)
          PROVE  Reached(at, n)'
      <3>1. PICK p : p = at
        OBVIOUS
      <3>2. Reached(p, n)'
        BY <1>4, <2>1, <3>1
      <3> QED BY <1>3, <3>1, <3>2 DEF Reached
    <2> QED BY <1>3, <1>4, <2>1 DEF SentInv
  <1>6. result = "SUCCESS" => written' = Cut(TableLen)'
    <2>1. PICK m : m = TableLen
      OBVIOUS
    <2>2. Cut(m)' = Cut(m) /\ TableLen' = m
      BY <1>4, <2>1
    <2> QED BY <1>3, <2>1, <2>2 DEF SentInv, Cut
  <1>7. result = "FAILURE" => \E n \in 0 .. TableLen' : written' = Cut(n)'
    BY <1>3, <1>4 DEF SentInv
  <1> QED BY <1>2, <1>3, <1>5, <1>6, <1>7 DEF SentInv

LEMMA SentInductive == CsvSpec => [](TypeOK /\ CaptureInv /\ SentInv)
  <1>1. CsvInit => TypeOK /\ CaptureInv /\ SentInv
    BY InitInv, ResultAssumption DEF CsvInit, SentInv
  <1>2. TypeOK /\ CaptureInv /\ SentInv /\ [CsvNext]_csvVars
          => (TypeOK /\ CaptureInv /\ SentInv)'
    BY NextInv, OtherwiseStep, SendStep, Unchanged DEF CsvNext
  <1> QED BY <1>1, <1>2, PTL DEF CsvSpec

LEMMA SentMeans == TypeOK /\ SentInv => TableIsExact /\ OnlyTransportFails
  BY SentIsExact, SizesKnown DEF SentInv

(* A call of nsx_pmu_capture_serialize_csv that returns success has written *)
(* the whole table of the chunk, with or without the header and whatever    *)
(* earlier calls left half written; one that fails, its beginning.  The map *)
(* may be any, the model, the chunk and the counts of any size.             *)
THEOREM TableExact == CsvSpec => []TableIsExact
  BY SentInductive, SentMeans, PTL

(* Sending a chunk, and sending it again, leaves its rows exact.            *)
THEOREM RowsExactWhileSending == CsvSpec => []ReadyRowsExact
  <1>1. CaptureInv => ReadyRowsExact
    BY DEF CaptureInv
  <1> QED BY SentInductive, <1>1, PTL

(* Only the transport makes a call fail: the passes that filled a ready     *)
(* chunk have looked up all the columns the header names.                   *)
THEOREM TransportOnly == CsvSpec => []OnlyTransportFails
  BY SentInductive, SentMeans, PTL

(* The invariant of CaptureProofs holds while chunks are sent: the calls    *)
(* in between change nothing it speaks of.                                  *)
THEOREM CaptureCorrectWhileSending == CsvSpec => [](TypeOK /\ CaptureInv)
  BY SentInductive, PTL

LEMMA SendingKeeps ==
  TypeOK /\ CaptureInv /\ [CsvNext]_csvVars => [BeyondKept]_vars
  <1> SUFFICES ASSUME TypeOK, CaptureInv, [CsvNext]_csvVars
               PROVE  [BeyondKept]_vars
    OBVIOUS
  <1>1. CASE Next \/ UNCHANGED csvVars
    BY <1>1, NextKeeps DEF csvVars
  <1>2. CASE Send
    BY <1>2 DEF Send, captureVars, BeyondKept
  <1> QED BY <1>1, <1>2 DEF CsvNext

(* Sending stores nothing, and the calls in between stay within the words   *)
(* of the capture.                                                          *)
THEOREM StorageSafeWhileSending == CsvSpec => StorageRespected
  <1>1. [BeyondKept]_vars <=>
          [\A k \in capture'.matrix_storage_count .. StorageSize - 1 :
             matrix_storage'[k] = matrix_storage[k]]_vars
    BY DEF BeyondKept
  <1> QED BY SentInductive, SendingKeeps, <1>1, PTL DEF CsvSpec, StorageRespected

LEMMA SendingDelivers ==
  TypeOK /\ CaptureInv /\ DeliveryInv /\ TypeOK' /\ [CsvNext]_csvVars =>
    DeliveryInv' /\ DeliveryStep
  <1> SUFFICES ASSUME TypeOK, CaptureInv, DeliveryInv, TypeOK', [CsvNext]_csvVars
               PROVE  DeliveryInv' /\ DeliveryStep
    OBVIOUS
  <1>1. CASE Next \/ UNCHANGED csvVars
    BY <1>1, NextDelivers DEF csvVars
  <1>2. CASE Send
    BY <1>2, Untaken DEF Send
  <1> QED BY <1>1, <1>2 DEF CsvNext

(* An application that sends every chunk before it takes the rows, and      *)
(* sends it again when a write fails, still receives one exact row per      *)
(* operator, in order and never twice.                                      *)
THEOREM RowsDeliveredWhileSending == CsvSpec => DeliversRows
  <1>1. CsvInit => Delivery!Init /\ DeliveryInv
    BY InitDelivers DEF CsvInit
  <1>2. TypeOK /\ CaptureInv /\ DeliveryInv /\ TypeOK' /\ [CsvNext]_csvVars
          => DeliveryInv' /\ [Delivery!Next]_<<JobInHand, Received>>
    BY SendingDelivers DEF DeliveryStep
  <1> QED BY <1>1, <1>2, SentInductive, PTL
          DEF CsvSpec, DeliversRows, Delivery!Spec
===============================================================================
