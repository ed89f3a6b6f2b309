---------------------------- MODULE TransportProofs ----------------------------
(***************************************************************************)
(* Theorems about Transport, for every capacity of the line buffer, every  *)
(* set of transports and messages of every length.                         *)
(***************************************************************************)
EXTENDS Transport, SequenceTheorems, WellFoundedInduction, TLAPS

-----------------------------------------------------------------------------
(* Sequences of bytes. *)

LEMMA ByteOf ==
  ASSUME NEW s \in Seq(Byte)
  PROVE  Bytes(s) = {s[i] : i \in 1 .. Len(s)} /\ Bytes(s) \subseteq Byte
  BY DEF Bytes

LEMMA BytesOfConcat ==
  ASSUME NEW s \in Seq(Byte), NEW t \in Seq(Byte)
  PROVE  /\ s \o t \in Seq(Byte)
         /\ Bytes(s \o t) = Bytes(s) \cup Bytes(t)
  <1>1. /\ s \o t \in Seq(Byte) /\ Len(s \o t) = Len(s) + Len(t)
        /\ \A i \in 1 .. Len(s) + Len(t) :
             (s \o t)[i] = IF i <= Len(s) THEN s[i] ELSE t[i - Len(s)]
    BY ConcatProperties
  <1>2. Len(s) \in Nat /\ Len(t) \in Nat
    BY LenProperties
  <1>3. ASSUME NEW b \in Bytes(s \o t)
        PROVE  b \in Bytes(s) \cup Bytes(t)
    <2>1. PICK i \in 1 .. Len(s) + Len(t) : b = (s \o t)[i]
      <3>1. Bytes(s \o t) = {(s \o t)[i] : i \in 1 .. Len(s \o t)}
        BY <1>1, ByteOf
      <3> QED BY ONLY <1>1, <1>3, <3>1
    <2>2. CASE i <= Len(s)
      <3>1. i \in 1 .. Len(s) /\ b = s[i]
        BY <1>1, <1>2, <2>1, <2>2
      <3> QED BY <3>1, ByteOf
    <2>3. CASE ~(i <= Len(s))
      <3>1. i - Len(s) \in 1 .. Len(t) /\ b = t[i - Len(s)]
        BY <1>1, <1>2, <2>1, <2>3
      <3> QED BY <3>1, ByteOf
    <2> QED BY <2>2, <2>3
  <1>4. ASSUME NEW b \in Bytes(s)
        PROVE  b \in Bytes(s \o t)
    <2>1. PICK i \in 1 .. Len(s) : b = s[i]
      BY <1>4, ByteOf
    <2>2. i \in 1 .. Len(s \o t) /\ (s \o t)[i] = b
      BY <1>1, <1>2, <2>1
    <2> QED BY <1>1, <2>2, ByteOf
  <1>5. ASSUME NEW b \in Bytes(t)
        PROVE  b \in Bytes(s \o t)
    <2>1. PICK i \in 1 .. Len(t) : b = t[i]
      BY <1>5, ByteOf
    <2> DEFINE j == Len(s) + i
    <2>2. j \in 1 .. Len(s) + Len(t) /\ ~(j <= Len(s)) /\ j - Len(s) = i
      BY <1>2
    <2>3. j \in 1 .. Len(s \o t) /\ (s \o t)[j] = b
      BY <1>1, <2>1, <2>2
    <2> QED BY <1>1, <2>3, ByteOf
  <1> QED BY <1>1, <1>3, <1>4, <1>5

LEMMA AppendByte ==
  ASSUME NEW s \in Seq(Byte), NEW b \in Byte
  PROVE  /\ Append(s, b) \in Seq(Byte)
         /\ Append(s, b) = s \o <<b>>
         /\ Len(Append(s, b)) = Len(s) + 1
         /\ Bytes(Append(s, b)) = Bytes(s) \cup {b}
  <1>1. /\ Append(s, b) \in Seq(Byte) /\ Len(Append(s, b)) = Len(s) + 1
        /\ Append(s, b) = s \o <<b>>
    BY AppendProperties, AppendIsConcat
  <1>2. <<b>> \in Seq(Byte) /\ Bytes(<<b>>) = {b}
    BY DEF Bytes
  <1>3. Bytes(s \o <<b>>) = Bytes(s) \cup Bytes(<<b>>)
    BY <1>2, BytesOfConcat
  <1> QED BY <1>1, <1>2, <1>3

LEMMA FirstByte ==
  ASSUME NEW s \in Seq(Byte), s # <<>>
  PROVE  /\ Head(s) \in Byte /\ Tail(s) \in Seq(Byte)
         /\ s = <<Head(s)>> \o Tail(s)
         /\ Head(s) \in Bytes(s)
  <1>1. Head(s) \in Byte /\ Tail(s) \in Seq(Byte)
    BY HeadTailProperties
  <1>2. Len(s) \in Nat /\ Len(s) >= 1
    BY EmptySeq, LenProperties
  <1>3. SubSeq(s, 1, Len(s)) = <<s[1]>> \o SubSeq(s, 2, Len(s))
    BY <1>2, SubSeqRecursiveFirst
  <1>4. s = <<Head(s)>> \o Tail(s)
    BY <1>3, SubSeqFull, TailIsSubSeq
  <1>5. Head(s) \in Bytes(s)
    BY <1>2, ByteOf
  <1> QED BY <1>1, <1>4, <1>5

(* A buffer that holds a NUL has a first one. *)
LEMMA FirstNul ==
  ASSUME NEW s \in Seq(Byte), NUL \in Bytes(s)
  PROVE  \E n \in DOMAIN s : s[n] = NUL /\ \A m \in 1 .. n - 1 : s[m] # NUL
  <1> DEFINE T == {n \in 1 .. Len(s) : s[n] = NUL}
  <1>1. T \subseteq Nat /\ T # {}
    BY ByteOf
  <1>2. PICK n \in T : \A m \in T : ~(<<m, n>> \in OpToRel(<, Nat))
    BY <1>1, WFMin, NatLessThanWellFounded
  <1>3. \A m \in T : ~(m < n)
    BY <1>1, <1>2 DEF OpToRel
  <1>4. n \in 1 .. Len(s) /\ Len(s) \in Nat
    BY LenProperties
  <1>5. \A m \in 1 .. n - 1 : m \in 1 .. Len(s) /\ m < n
    BY <1>4
  <1>6. \A m \in 1 .. n - 1 : s[m] # NUL
    BY <1>3, <1>5
  <1> QED BY <1>4, <1>6, LenProperties

(* What is printed consists of bytes, and is everything if there is no NUL. *)
LEMMA PrintedType ==
  ASSUME NEW s \in Seq(Byte)
  PROVE  Printed(s) \in Seq(Byte) /\ (NUL \notin Bytes(s) => Printed(s) = s)
  <1>1. CASE NUL \notin Bytes(s)
    BY <1>1 DEF Printed
  <1>2. CASE NUL \in Bytes(s)
    <2> DEFINE n == CHOOSE n \in DOMAIN s :
                      s[n] = NUL /\ \A m \in 1 .. n - 1 : s[m] # NUL
    <2>1. n \in 1 .. Len(s) /\ Len(s) \in Nat
      BY <1>2, FirstNul, LenProperties
    <2>2. SubSeq(s, 1, n - 1) \in Seq(Byte)
      <3>1. \A i \in 1 .. n - 1 : s[i] \in Byte
        BY <2>1, ElementOfSeq
      <3>2. n - 1 \in Int
        BY <2>1
      <3> QED BY <3>1, <3>2, SubSeqProperties
    <2> QED BY <1>2, <2>2 DEF Printed
  <1> QED BY <1>1, <1>2
(* Nothing is lost or moved between the buffer and the console when the     *)
(* buffer is printed and holds no NUL.                                      *)
LEMMA Regroup ==
  ASSUME NEW c \in Seq(Byte), NEW l \in Seq(Byte), NEW b \in Byte,
         NEW d \in Seq(Byte)
  PROVE  (c \o Append(l, b)) \o d = (c \o l) \o (<<b>> \o d)
  <1>1. <<b>> \in Seq(Byte)
    OBVIOUS
  <1>2. c \o Append(l, b) = (c \o l) \o <<b>>
    BY <1>1, AppendByte, ConcatAssociative
  <1>3. c \o l \in Seq(Byte)
    BY BytesOfConcat
  <1>4. ((c \o l) \o <<b>>) \o d = (c \o l) \o (<<b>> \o d)
    BY <1>1, <1>3, ConcatAssociative
  <1> QED BY <1>2, <1>4

(* The bytes sent are those in front of the bytes that wait. *)
LEMMA FrontOf ==
  ASSUME NEW s \in Seq(Byte), NEW l \in Seq(Byte), NEW d \in Seq(Byte)
  PROVE  LET o == (s \o l) \o d
         IN SubSeq(o, 1, (Len(o) - Len(l)) - Len(d)) = s
  <1> DEFINE o == (s \o l) \o d
  <1>1. s \o l \in Seq(Byte) /\ Len(s \o l) = Len(s) + Len(l)
    BY ConcatProperties
  <1>2. Len(o) = (Len(s) + Len(l)) + Len(d)
    BY <1>1, ConcatProperties
  <1>3. Len(s) \in Nat /\ Len(l) \in Nat /\ Len(d) \in Nat
    BY LenProperties
  <1>4. (Len(o) - Len(l)) - Len(d) = Len(s)
    <2> HIDE DEF o
    <2> QED BY <1>2, <1>3
  <1>5. CASE s = <<>>
    <2>1. Len(s) = 0 /\ Len(s) \in Int
      BY <1>5, EmptySeq
    <2>2. SubSeq(o, 1, Len(s)) = <<>>
      BY <2>1, SubSeqEmpty
    <2> QED BY <1>4, <1>5, <2>2
  <1>6. CASE s # <<>>
    <2>1. 1 \in 1 .. Len(s) /\ Len(s) \in 1 .. Len(s)
      BY <1>6, <1>3, EmptySeq
    <2>2. 1 \in 1 .. Len(s \o l) /\ Len(s) \in 1 .. Len(s \o l)
      BY <1>1, <1>3, <2>1
    <2>3. SubSeq(o, 1, Len(s)) = SubSeq(s \o l, 1, Len(s))
      BY <1>1, <2>2, SubSeqOfConcat1
    <2>4. SubSeq(s \o l, 1, Len(s)) = SubSeq(s, 1, Len(s))
      BY <2>1, SubSeqOfConcat1
    <2>5. SubSeq(s, 1, Len(s)) = s
      BY SubSeqFull
    <2> QED BY <1>4, <2>3, <2>4, <2>5
  <1> QED BY <1>5, <1>6

(* It is enough to say what has been sent. *)
LEMMA KeptIf ==
  ASSUME NEW s \in Seq(Byte), TypeOK',
         owed' = (s \o line_buffer') \o data',
         NUL \notin Bytes(s) => console' = s
  PROVE  BytesKept'
  <1> DEFINE l == line_buffer'
             d == data'
             o == (s \o l) \o d
  <1>1. l \in Seq(Byte) /\ d \in Seq(Byte)
    BY DEF TypeOK
  <1>2. SubSeq(o, 1, (Len(o) - Len(l)) - Len(d)) = s
    BY <1>1, FrontOf
  <1>3. Sent' = s
    BY <1>2 DEF Sent
  <1> QED BY <1>3 DEF BytesKept

LEMMA SentType ==
  ASSUME TypeOK
  PROVE  Sent \in Seq(Byte)
  <1> DEFINE n == (Len(owed) - Len(line_buffer)) - Len(data)
  <1>1. /\ owed \in Seq(Byte) /\ Len(owed) \in Nat
        /\ Len(line_buffer) \in Nat /\ Len(data) \in Nat
    BY LenProperties DEF TypeOK
  <1>2. n \in Int /\ n <= Len(owed)
    BY <1>1
  <1>3. \A i \in 1 .. n : i \in 1 .. Len(owed)
    BY <1>1, <1>2
  <1>4. \A i \in 1 .. n : owed[i] \in Byte
    BY <1>1, <1>3, ElementOfSeq
  <1>5. SubSeq(owed, 1, n) \in Seq(Byte)
    BY <1>2, <1>4, SubSeqProperties
  <1> QED BY <1>5 DEF Sent

-----------------------------------------------------------------------------
(* The inductive invariant. *)
IInv == TypeOK /\ TerminatorFits /\ BytesKept /\ NoLineWaits

LEMMA InitInv == Init => IInv
  <1> SUFFICES ASSUME Init PROVE IInv
    OBVIOUS
  <1>1. <<>> \in Seq(Byte) /\ Len(<<>>) = 0 /\ Bytes(<<>>) = {}
    BY EmptySeq DEF Bytes
  <1>2. (<<>> \o <<>>) \o <<>> = <<>>
    BY <1>1, ConcatEmptySeq
  <1>3. TypeOK
    BY <1>1 DEF Init, TypeOK
  <1>4. TerminatorFits
    BY <1>1, TransportAssumption DEF Init, TerminatorFits
  <1>5. BytesKept
    <2>1. /\ owed = <<>> /\ line_buffer = <<>> /\ data = <<>>
          /\ console = <<>>
      BY DEF Init
    <2>2. Sent = <<>>
      <3>1. 1 \in Int /\ (0 - 0) - 0 \in Int /\ (0 - 0) - 0 < 1
        OBVIOUS
      <3>2. SubSeq(<<>>, 1, (0 - 0) - 0) = <<>>
        BY <3>1, SubSeqEmpty
      <3> QED BY <1>1, <2>1, <3>2 DEF Sent
    <2> QED BY <1>2, <2>1, <2>2 DEF BytesKept
  <1>6. NoLineWaits
    BY <1>1 DEF Init, NoLineWaits
  <1> QED BY <1>3, <1>4, <1>5, <1>6 DEF IInv

(* One byte is stored: with room made or not, and a line ended or not. *)
LEMMA StoreByteStep ==
  ASSUME IInv, StoreByte
  PROVE  IInv'
  <1> DEFINE b == Head(data)
             rest == Tail(data)
             room == IF Full(line_buffer) THEN <<>> ELSE line_buffer
             made == IF Full(line_buffer) THEN Printed(line_buffer) ELSE <<>>
             line == Append(room, b)
  <1>1. /\ line_buffer \in Seq(Byte) /\ data \in Seq(Byte)
        /\ console \in Seq(Byte) /\ owed \in Seq(Byte) /\ data # <<>>
        /\ bound \subseteq Transports
        /\ Len(line_buffer) \in Nat
    BY LenProperties DEF IInv, TypeOK, StoreByte
  <1>2. /\ b \in Byte /\ rest \in Seq(Byte) /\ data = <<b>> \o rest
        /\ b \in Bytes(data)
    BY <1>1, FirstByte
  <1>3. /\ bound' = bound /\ owed' = owed /\ data' = rest
        /\ IF b = NL
             THEN line_buffer' = <<>>
                  /\ console' = (console \o made) \o Printed(line)
             ELSE line_buffer' = line /\ console' = console \o made
    BY DEF StoreByte, AfterEmit
  <1>4. room \in Seq(Byte) /\ Bytes(room) \subseteq Bytes(line_buffer)
    <2>1. <<>> \in Seq(Byte) /\ Bytes(<<>>) = {}
      BY EmptySeq DEF Bytes
    <2> QED BY <1>1, <2>1
  <1>5. made \in Seq(Byte)
    BY <1>1, EmptySeq, PrintedType
  <1>6. /\ line \in Seq(Byte) /\ Len(line) = Len(room) + 1
        /\ Bytes(line) = Bytes(room) \cup {b}
    BY <1>2, <1>4, AppendByte
  <1>7. console \o made \in Seq(Byte)
    BY <1>1, <1>5, BytesOfConcat
  <1>8. Len(line) <= Capacity - 1
    <2>1. Len(room) < Capacity - 1
      <3>1. CASE Full(line_buffer)
        BY <3>1, EmptySeq, TransportAssumption
      <3>2. CASE ~Full(line_buffer)
        BY <1>1, <3>2, TransportAssumption DEF Full
      <3> QED BY <3>1, <3>2
    <2>2. Len(room) \in Nat
      BY <1>4, LenProperties
    <2> HIDE DEF room, line
    <2> QED BY <1>6, <2>1, <2>2, TransportAssumption
  <1>9. TypeOK'
    <2>1. (console \o made) \o Printed(line) \in Seq(Byte)
      BY <1>6, <1>7, PrintedType, BytesOfConcat
    <2> HIDE DEF b, rest, room, made, line
    <2>2. console' \in Seq(Byte) /\ line_buffer' \in Seq(Byte)
      BY <1>3, <1>6, <1>7, <2>1, EmptySeq
    <2> QED BY <1>1, <1>2, <1>3, <2>2 DEF TypeOK
  <1>10. TerminatorFits'
    <2> HIDE DEF b, rest, room, made, line
    <2>1. CASE b = NL
      BY <1>3, <2>1, EmptySeq, TransportAssumption DEF TerminatorFits
    <2>2. CASE b # NL
      BY <1>3, <1>8, <2>2 DEF TerminatorFits
    <2> QED BY <2>1, <2>2
  <1>11. NoLineWaits'
    <2>1. Bytes(<<>>) = {}
      BY DEF Bytes
    <2>2. NL \notin Bytes(room)
      BY <1>4 DEF IInv, NoLineWaits
    <2> HIDE DEF b, rest, room, made, line
    <2>3. CASE b = NL
      BY <1>3, <2>1, <2>3 DEF NoLineWaits
    <2>4. CASE b # NL
      BY <1>3, <1>6, <2>2, <2>4 DEF NoLineWaits
    <2> QED BY <2>3, <2>4
  <1>12. BytesKept'
    <2> DEFINE moved == IF Full(line_buffer) THEN line_buffer ELSE <<>>
               front == Sent \o moved
    <2>1. /\ Sent \in Seq(Byte) /\ owed = (Sent \o line_buffer) \o data
          /\ NUL \notin Bytes(Sent) => console = Sent
      BY SentType DEF IInv, BytesKept
    <2>2. moved \in Seq(Byte)
      BY <1>1, EmptySeq
    <2>3. front \in Seq(Byte) /\ Bytes(front) = Bytes(Sent) \cup Bytes(moved)
      BY <2>1, <2>2, BytesOfConcat
    <2>4. NUL \notin Bytes(moved) => made = moved
      <3>1. CASE Full(line_buffer)
        BY <1>1, <3>1, PrintedType
      <3>2. CASE ~Full(line_buffer)
        BY <3>2
      <3> QED BY <3>1, <3>2
    <2>5. front \o room = Sent \o line_buffer
      <3>1. CASE Full(line_buffer)
        <4>1. room = <<>> /\ moved = line_buffer
          BY <3>1
        <4> QED BY <2>3, <4>1, ConcatEmptySeq
      <3>2. CASE ~Full(line_buffer)
        <4>1. room = line_buffer /\ moved = <<>>
          BY <3>2
        <4> QED BY <2>1, <4>1, ConcatEmptySeq
      <3> QED BY <3>1, <3>2
    <2>6. (front \o line) \o rest = owed
      <3>1. (front \o line) \o rest = (front \o room) \o (<<b>> \o rest)
        <4> HIDE DEF b, rest, room, front
        <4> QED BY <1>2, <1>4, <2>3, Regroup
      <3> QED BY <1>2, <2>1, <2>5, <3>1
    <2>7. front \o line \in Seq(Byte)
          /\ Bytes(front \o line) = Bytes(front) \cup Bytes(line)
      BY <1>6, <2>3, BytesOfConcat
    <2> HIDE DEF b, rest, room, made, line, moved, front
    <2>8. NUL \notin Bytes(front) => console \o made = front
      <3> SUFFICES ASSUME NUL \notin Bytes(front)
                   PROVE  console \o made = front
        OBVIOUS
      <3>1. console = Sent /\ made = moved
        BY <2>1, <2>3, <2>4
      <3> QED BY <3>1 DEF front
    <2>9. CASE b = NL
      <3>1. (front \o line) \o <<>> = front \o line
        BY <2>7, ConcatEmptySeq
      <3>2. owed' = ((front \o line) \o line_buffer') \o data'
        BY <1>3, <2>6, <2>9, <3>1
      <3>3. NUL \notin Bytes(front \o line) => console' = front \o line
        BY <1>3, <1>6, <2>7, <2>8, <2>9, PrintedType
      <3> QED BY <1>9, <2>7, <3>2, <3>3, KeptIf
    <2>10. CASE b # NL
      <3>1. owed' = (front \o line_buffer') \o data'
        BY <1>3, <2>6, <2>10
      <3>2. NUL \notin Bytes(front) => console' = front
        BY <1>3, <2>8, <2>10
      <3> QED BY <1>9, <2>3, <3>1, <3>2, KeptIf
    <2> QED BY <2>9, <2>10
  <1> QED BY <1>9, <1>10, <1>11, <1>12 DEF IInv
(* A flush prints what waits. *)
LEMMA FlushStep ==
  ASSUME IInv, NEW t \in Transports, nsx_pmu_transport_flush(t)
  PROVE  IInv'
  <1>1. /\ line_buffer \in Seq(Byte) /\ data \in Seq(Byte)
        /\ console \in Seq(Byte) /\ owed \in Seq(Byte)
        /\ bound \subseteq Transports
    BY DEF IInv, TypeOK
  <1>2. /\ data = <<>> /\ data' = data /\ owed' = owed /\ bound' = bound
        /\ console' = console \o Printed(line_buffer) /\ line_buffer' = <<>>
    BY DEF nsx_pmu_transport_flush, AfterEmit
  <1>3. <<>> \in Seq(Byte) /\ Len(<<>>) = 0 /\ Bytes(<<>>) = {}
    BY EmptySeq DEF Bytes
  <1>4. console' \in Seq(Byte)
    BY <1>1, <1>2, PrintedType, BytesOfConcat
  <1>5. TypeOK' /\ TerminatorFits' /\ NoLineWaits'
    BY <1>1, <1>2, <1>3, <1>4, TransportAssumption
       DEF TypeOK, TerminatorFits, NoLineWaits
  <1>6. BytesKept'
    <2> DEFINE front == Sent \o line_buffer
    <2>1. /\ Sent \in Seq(Byte) /\ owed = front \o <<>>
          /\ NUL \notin Bytes(Sent) => console = Sent
      BY <1>2, SentType DEF IInv, BytesKept
    <2>2. /\ front \in Seq(Byte)
          /\ Bytes(front) = Bytes(Sent) \cup Bytes(line_buffer)
      BY <1>1, <2>1, BytesOfConcat
    <2>3. NUL \notin Bytes(front) => console' = front
      <3> SUFFICES ASSUME NUL \notin Bytes(front) PROVE console' = front
        OBVIOUS
      <3>1. console = Sent /\ Printed(line_buffer) = line_buffer
        BY <1>1, <2>1, <2>2, PrintedType
      <3> QED BY <1>2, <3>1
    <2> HIDE DEF front
    <2>4. owed' = (front \o line_buffer') \o data'
      BY <1>2, <2>1, <2>2, ConcatEmptySeq
    <2> QED BY <1>5, <2>2, <2>3, <2>4, KeptIf
  <1> QED BY <1>5, <1>6 DEF IInv

(* Setting up a transport clears what waits, which is owed no longer. *)
LEMMA LogSinkInitStep ==
  ASSUME IInv, NEW t \in Transports, nsx_pmu_transport_log_sink_init(t)
  PROVE  IInv'
  <1>1. /\ line_buffer \in Seq(Byte) /\ console \in Seq(Byte)
        /\ bound \subseteq Transports
        /\ Sent \in Seq(Byte) /\ owed = (Sent \o line_buffer) \o data
        /\ NUL \notin Bytes(Sent) => console = Sent
    BY SentType DEF IInv, TypeOK, BytesKept
  <1>2. /\ data = <<>> /\ data' = <<>>
        /\ owed' = SubSeq(owed, 1, Len(owed) - Len(line_buffer))
        /\ bound' = bound \cup {t}
        /\ console' = console /\ line_buffer' = <<>>
    BY DEF nsx_pmu_transport_log_sink_init
  <1>3. <<>> \in Seq(Byte) /\ Len(<<>>) = 0 /\ Bytes(<<>>) = {}
    BY EmptySeq DEF Bytes
  <1>4. owed' = Sent
    <2>1. owed \in Seq(Byte) /\ Len(owed) \in Nat /\ Len(line_buffer) \in Nat
      BY LenProperties DEF IInv, TypeOK
    <2>2. (Len(owed) - Len(line_buffer)) - Len(data)
            = Len(owed) - Len(line_buffer)
      BY <1>2, <1>3, <2>1
    <2> QED BY <1>2, <2>2 DEF Sent
  <1>5. TypeOK' /\ TerminatorFits' /\ NoLineWaits'
    BY <1>1, <1>2, <1>3, <1>4, TransportAssumption
       DEF TypeOK, TerminatorFits, NoLineWaits
  <1>6. owed' = (Sent \o line_buffer') \o data'
    BY <1>1, <1>2, <1>4, ConcatEmptySeq
  <1>7. NUL \notin Bytes(Sent) => console' = Sent
    BY <1>1, <1>2
  <1>8. BytesKept'
    BY <1>1, <1>5, <1>6, <1>7, KeptIf
  <1> QED BY <1>5, <1>8 DEF IInv

(* A call that only hands over bytes to store. *)
LEMMA HandedOver ==
  ASSUME IInv, NEW bytes \in Seq(Byte), data = <<>>,
         data' = bytes, owed' = owed \o bytes,
         UNCHANGED <<bound, line_buffer, console>>
  PROVE  IInv'
  <1>1. /\ line_buffer \in Seq(Byte) /\ owed \in Seq(Byte)
        /\ Sent \in Seq(Byte) /\ owed = (Sent \o line_buffer) \o data
        /\ NUL \notin Bytes(Sent) => console = Sent
    BY SentType DEF IInv, TypeOK, BytesKept
  <1>2. owed' \in Seq(Byte)
    BY <1>1, BytesOfConcat
  <1>3. TypeOK'
    BY <1>2 DEF IInv, TypeOK
  <1>4. TerminatorFits' /\ NoLineWaits'
    BY DEF IInv, TerminatorFits, NoLineWaits
  <1>5. owed = Sent \o line_buffer
    BY <1>1, BytesOfConcat, ConcatEmptySeq
  <1>6. owed' = (Sent \o line_buffer') \o data'
    BY <1>5
  <1>7. NUL \notin Bytes(Sent) => console' = Sent
    BY <1>1
  <1>8. BytesKept'
    BY <1>1, <1>3, <1>6, <1>7, KeptIf
  <1> QED BY <1>3, <1>4, <1>8 DEF IInv

LEMMA WriteStep ==
  ASSUME IInv, NEW t \in Transports, NEW bytes \in Message,
         nsx_pmu_transport_write(t, bytes)
  PROVE  IInv'
  <1>1. bytes \in Seq(Byte)
    BY TransportAssumption
  <1> QED BY <1>1, HandedOver DEF nsx_pmu_transport_write

(* The bytes printf hands over are the text as far as it fits. *)
LEMMA FormattedFits ==
  ASSUME NEW text \in Seq(Byte)
  PROVE  LET fits == SubSeq(text, 1, Lesser(Len(text), Capacity - 1))
         IN /\ fits \in Seq(Byte)
            /\ SubSeq(Formatted(text), 1, Length(text)) = fits
  <1> DEFINE n == Lesser(Len(text), Capacity - 1)
             fits == SubSeq(text, 1, n)
  <1>1. Len(text) \in Nat /\ Capacity \in Nat /\ Capacity > 1
    BY LenProperties, TransportAssumption
  <1>2. n \in Nat /\ n <= Len(text) /\ Length(text) = n
    BY <1>1 DEF Lesser, Length
  <1> HIDE DEF n
  <1>3. \A i \in 1 .. n : text[i] \in Byte
    BY <1>1, <1>2, ElementOfSeq
  <1>4. fits \in Seq(Byte) /\ Len(fits) = n
    BY <1>2, <1>3, SubSeqProperties
  <1>5. Formatted(text) = fits \o <<NUL>> /\ <<NUL>> \in Seq(Byte)
    <2>1. Formatted(text) = Append(fits, NUL)
      BY DEF Formatted, n
    <2> HIDE DEF fits
    <2>2. Append(fits, NUL) = fits \o <<NUL>>
      BY <1>4, AppendByte, TransportAssumption
    <2>3. <<NUL>> \in Seq(Byte)
      BY TransportAssumption
    <2> QED BY <2>1, <2>2, <2>3
  <1>6. SubSeq(fits \o <<NUL>>, 1, n) = fits
    <2> HIDE DEF fits
    <2>1. CASE n = 0
      <3>1. fits = <<>>
        BY <1>4, <2>1, EmptySeq
      <3> QED BY <2>1, <3>1, SubSeqEmpty
    <2>2. CASE n # 0
      <3>1. 1 \in 1 .. Len(fits) /\ n \in 1 .. Len(fits)
        BY <1>2, <1>4, <2>2
      <3>2. SubSeq(fits \o <<NUL>>, 1, n) = SubSeq(fits, 1, n)
        BY <1>4, <1>5, <3>1, SubSeqOfConcat1
      <3> QED BY <1>4, <3>2, SubSeqFull
    <2> QED BY <2>1, <2>2
  <1> QED BY <1>2, <1>4, <1>5, <1>6 DEF n

LEMMA PrintfStep ==
  ASSUME IInv, NEW t \in Transports, NEW text \in Message,
         nsx_pmu_transport_printf(t, text)
  PROVE  IInv'
  <1> DEFINE fits == SubSeq(text, 1, Lesser(Len(text), Capacity - 1))
  <1>1. fits \in Seq(Byte) /\ SubSeq(Formatted(text), 1, Length(text)) = fits
    BY FormattedFits, TransportAssumption
  <1>2. /\ data = <<>> /\ data' = fits /\ owed' = owed \o fits
        /\ UNCHANGED <<bound, line_buffer, console>>
    BY <1>1 DEF nsx_pmu_transport_printf
  <1> HIDE DEF fits
  <1> QED BY <1>1, <1>2, HandedOver

LEMMA NextInv == IInv /\ [Next]_vars => IInv'
  <1> SUFFICES ASSUME IInv, [Next]_vars
               PROVE  IInv'
    OBVIOUS
  <1>1. CASE UNCHANGED vars
    BY <1>1 DEF vars, IInv, TypeOK, TerminatorFits, BytesKept, Sent,
                NoLineWaits
  <1>2. CASE StoreByte
    BY <1>2, StoreByteStep
  <1>3. ASSUME NEW t \in Transports, nsx_pmu_transport_log_sink_init(t)
        PROVE  IInv'
    BY <1>3, LogSinkInitStep
  <1>4. ASSUME NEW t \in Transports, nsx_pmu_transport_flush(t)
        PROVE  IInv'
    BY <1>4, FlushStep
  <1>5. ASSUME NEW t \in Transports, NEW text \in Message,
               nsx_pmu_transport_write(t, text)
        PROVE  IInv'
    BY <1>5, WriteStep
  <1>6. ASSUME NEW t \in Transports, NEW text \in Message,
               nsx_pmu_transport_printf(t, text)
        PROVE  IInv'
    BY <1>6, PrintfStep
  <1> QED BY <1>1, <1>2, <1>3, <1>4, <1>5, <1>6 DEF Next

THEOREM Inductive == Spec => []IInv
  <1> QED BY InitInv, NextInv, PTL DEF Spec

-----------------------------------------------------------------------------
(* Buffer, console and what is owed are sequences of bytes. *)
THEOREM TransportTypes == Spec => []TypeOK
  <1>1. IInv => TypeOK
    BY DEF IInv
  <1> QED BY <1>1, Inductive, PTL

(* nsx_pmu_log_sink_emit never stores the terminator outside line_buffer[], *)
(* whatever the size of the buffer and the lengths of the writes.           *)
THEOREM TerminatorSafe == Spec => []TerminatorFits
  <1>1. IInv => TerminatorFits
    BY DEF IInv
  <1> QED BY <1>1, Inductive, PTL

(* nsx_pmu_log_sink_write loses, doubles and moves no byte, whichever       *)
(* transports share the buffer and however lines and writes are cut by it.  *)
THEOREM ConsoleInOrder == Spec => []BytesKept
  <1>1. IInv => BytesKept
    BY DEF IInv
  <1> QED BY <1>1, Inductive, PTL

(* Every line that was ended has been printed without a flush. *)
THEOREM LinesPrinted == Spec => []NoLineWaits
  <1>1. IInv => NoLineWaits
    BY DEF IInv
  <1> QED BY <1>1, Inductive, PTL
===============================================================================
