------------------------------- MODULE Transport -------------------------------
(***************************************************************************)
(* nsx_pmu_transport.c: transports that end in the log sink.  Whatever     *)
(* transport is written to, the bytes go through the one line buffer of    *)
(* the program, which is printed when a line ends, when it is full and     *)
(* when it is flushed.  nsx_printf("%s") prints up to a NUL byte.          *)
(*                                                                         *)
(* A write stores one byte per step; no other call is made meanwhile.      *)
(***************************************************************************)
EXTENDS Integers, Sequences

CONSTANTS
  Byte, NL, NUL,
  Capacity,   \* NSX_PMU_TRANSPORT_PRINTF_BUFFER_BYTES
  Transports, \* the nsx_pmu_transport_t objects of the program
  Message,    \* what callers write or format
  MaxOwed     \* bytes written (bound for TLC)

(* Formatted text holds no NUL: the NUL that ends it is not part of it. *)
ASSUME TransportAssumption ==
  /\ NL \in Byte /\ NUL \in Byte /\ NL # NUL
  /\ Capacity \in Nat /\ Capacity > 1
  /\ Message \subseteq Seq(Byte)
  /\ MaxOwed \in Nat

VARIABLES
  bound,        \* transports that nsx_pmu_transport_log_sink_init has set up
  line_buffer,  \* the bytes of line_buffer[] below used
  data,         \* what is left of the data of the write in hand
  console,      \* what nsx_printf has printed
  owed          \* history: bytes written, less those that were waiting when
                \* log_sink_init cleared the buffer

vars == <<bound, line_buffer, data, console, owed>>

Bytes(s) == {s[i] : i \in DOMAIN s}

(* What nsx_printf("%s") makes of a buffer of bytes. *)
Printed(s) ==
  IF NUL \in Bytes(s)
    THEN SubSeq(s, 1, (CHOOSE n \in DOMAIN s :
                         s[n] = NUL /\ \A m \in 1 .. n - 1 : s[m] # NUL) - 1)
    ELSE s

(* Mutant: used is not reset. *)
AfterEmitKept(line) == line

(* nsx_pmu_log_sink_emit prints the buffer and leaves used = 0. *)
AfterEmit(line) == <<>>

(* Mutant: there is no room left for the terminator. *)
FullToTheBrim(line) == Len(line) >= Capacity

Full(line) == Len(line) >= Capacity - 1

(* One turn of the loop of nsx_pmu_log_sink_write: room is made first, and  *)
(* a byte that ends the line sends it off.                                  *)
StoreByte ==
  /\ data # <<>>
  /\ LET room == IF Full(line_buffer) THEN AfterEmit(line_buffer)
                                      ELSE line_buffer
         made == IF Full(line_buffer) THEN Printed(line_buffer) ELSE <<>>
         line == Append(room, Head(data))
     IN IF Head(data) = NL
          THEN /\ line_buffer' = AfterEmit(line)
               /\ console' = (console \o made) \o Printed(line)
          ELSE /\ line_buffer' = line
               /\ console' = console \o made
  /\ data' = Tail(data)
  /\ UNCHANGED <<bound, owed>>

-----------------------------------------------------------------------------
nsx_pmu_transport_log_sink_init(t) ==
  /\ data = <<>>
  /\ bound' = bound \cup {t}
  /\ line_buffer' = <<>>
  /\ owed' = SubSeq(owed, 1, Len(owed) - Len(line_buffer))
  /\ UNCHANGED <<data, console>>

(* A transport nobody has set up refuses: INVALID_HANDLE. *)
nsx_pmu_transport_write(t, bytes) ==
  /\ data = <<>>
  /\ t \in bound
  /\ data' = bytes
  /\ owed' = owed \o bytes
  /\ UNCHANGED <<bound, line_buffer, console>>

Lesser(a, b) == IF a < b THEN a ELSE b

(* Mutant: a text as long as the buffer is taken to have fitted. *)
LengthByCapacity(text) ==
  IF Len(text) > Capacity THEN Capacity - 1 ELSE Len(text)

(* length, after vsnprintf. *)
Length(text) == IF Len(text) >= Capacity THEN Capacity - 1 ELSE Len(text)

(* vsnprintf cuts a text that does not fit and ends it with a NUL. *)
Formatted(text) == Append(SubSeq(text, 1, Lesser(Len(text), Capacity - 1)), NUL)

(* What does not fit is not promised: the rest of the text is cut off and   *)
(* the call succeeds.                                                       *)
nsx_pmu_transport_printf(t, text) ==
  /\ data = <<>>
  /\ t \in bound
  /\ NUL \notin Bytes(text)
  /\ data' = SubSeq(Formatted(text), 1, Length(text))
  /\ owed' = owed \o SubSeq(text, 1, Lesser(Len(text), Capacity - 1))
  /\ UNCHANGED <<bound, line_buffer, console>>

nsx_pmu_transport_flush(t) ==
  /\ data = <<>>
  /\ t \in bound
  /\ console' = console \o Printed(line_buffer)
  /\ line_buffer' = AfterEmit(line_buffer)
  /\ UNCHANGED <<bound, data, owed>>

Init ==
  /\ bound = {}
  /\ line_buffer = <<>> /\ data = <<>> /\ console = <<>> /\ owed = <<>>

Next ==
  \/ StoreByte
  \/ \E t \in Transports :
       \/ nsx_pmu_transport_log_sink_init(t)
       \/ nsx_pmu_transport_flush(t)
       \/ \E text \in Message :
            /\ Len(owed) + Len(text) <= MaxOwed
            /\ \/ nsx_pmu_transport_write(t, text)
               \/ nsx_pmu_transport_printf(t, text)

Spec == Init /\ [][Next]_vars

-----------------------------------------------------------------------------
TypeOK ==
  /\ bound \subseteq Transports
  /\ line_buffer \in Seq(Byte) /\ data \in Seq(Byte)
  /\ console \in Seq(Byte) /\ owed \in Seq(Byte)

(* The terminator that nsx_pmu_log_sink_emit stores behind the waiting      *)
(* bytes lies in the buffer, however long the writes are and whichever      *)
(* transport they come through.                                             *)
TerminatorFits == Len(line_buffer) <= Capacity - 1

(* The bytes that have left the buffer. *)
Sent == SubSeq(owed, 1, (Len(owed) - Len(line_buffer)) - Len(data))

(* Every byte is kept once and in the order of the calls, across lines      *)
(* longer than the buffer and transports that share it: the bytes written   *)
(* last wait in the buffer and in the write in hand, and all before them    *)
(* are on the console, unless a NUL is among those.                         *)
BytesKept ==
  /\ owed = (Sent \o line_buffer) \o data
  /\ NUL \notin Bytes(Sent) => console = Sent

(* A line that has ended is on the console: no caller has to flush for it. *)
NoLineWaits == NL \notin Bytes(line_buffer)
===============================================================================
