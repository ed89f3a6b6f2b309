-------------------------------- MODULE CsvRun --------------------------------
(***************************************************************************)
(* nsx_pmu_capture_serialize_csv: the application of CaptureRun sends each *)
(* ready chunk through a transport, one call of nsx_pmu_transport_write or *)
(* printf after the other.  Any of them may fail, as may the flush at the  *)
(* end; then the application sends the chunk again, with or without its    *)
(* header, before it takes the rows.  A failing write counts as an upset.  *)
(***************************************************************************)
EXTENDS CaptureRun, SequencesExt

ASSUME ResultAssumption == None \notin {"SUCCESS", "FAILURE", "INVALID_CONFIG"}

VARIABLES
  at,       \* the next write: stage, row and column of the loops
  header,   \* include_header of the call in hand, or of the last one
  written,  \* the texts written by that call
  result    \* what it returned, or None

csv == <<at, header, written, result>>
csvVars == <<vars, csv>>

At(stage, r, e) == [stage |-> stage, r |-> r, e |-> e]
Idle == At("idle", 0, 0)

Return(s) == at' = Idle /\ result' = s

(* The transport fails at most MaxUpsets times. *)
TransportFails ==
  /\ upsets < MaxUpsets
  /\ upsets' = upsets + 1
  /\ Return("FAILURE")
  /\ UNCHANGED written

(* A write succeeds and the call goes on, or fails and the call returns.    *)
Write(text, next) ==
  \/ /\ written' = Append(written, text)
     /\ at' = next
     /\ UNCHANGED <<result, upsets>>
  \/ TransportFails

Serialize(include_header) ==
  /\ at = Idle
  /\ pc = "ready"
  /\ result # "SUCCESS"
  /\ header' = include_header
  /\ written' = <<>>
  /\ IF chunk_ready
       THEN /\ at' = At(IF include_header THEN "version" ELSE "label", 0, 0)
            /\ result' = None
       ELSE Return("INVALID_CONFIG")
  /\ UNCHANGED upsets

FirstLines ==
  \/ at.stage = "version" /\ Write(<<"# version">>, At("chunk", 0, 0))
  \/ /\ at.stage = "chunk"
     /\ Write(<<"# chunk", current_chunk_start, current_chunk_ops,
                capture.total_ops, capture.total_event_count,
                capture.events_per_pass>>, At("layer_index", 0, 0))

(* Mutant: without a selection, columns are counted from one. *)
CountedFromOne(e) ==
  MapIndex(capture.event_map_indices,
           IF capture.event_map_indices = None THEN e + 1 ELSE e)

(* nsx_pmu_capture_get_event_map_index *)
HeaderIndex(e) == MapIndex(capture.event_map_indices, e)

(* The two header lines: a title, and the name, or the id, of every column. *)
HeaderLine(title, cells, next) ==
  \/ at.stage = title /\ Write(<<title>>, At(cells, 0, 0))
  \/ /\ at.stage = cells
     /\ at.e < capture.total_event_count
     /\ IF HeaderIndex(at.e) \in MapEvent
          THEN Write(<<cells, HeaderIndex(at.e)>>, At(cells, 0, at.e + 1))
          ELSE Return("INVALID_CONFIG") /\ UNCHANGED <<written, upsets>>
  \/ /\ at.stage = cells
     /\ at.e >= capture.total_event_count
     /\ Write(<<"\n">>, At(next, 0, 0))

HeaderLines ==
  \/ HeaderLine("layer_index", "name", "event_id")
  \/ HeaderLine("event_id", "id", "label")

(* Mutant: rows are labelled from 0 in every chunk. *)
LabelInChunk(r) == r

Label(r) == current_chunk_start + r

RowLine ==
  \/ /\ at.stage = "label"
     /\ at.r < current_chunk_ops
     /\ Write(<<"row", Label(at.r)>>, At("value", at.r, 0))
  \/ /\ at.stage = "value"
     /\ at.e < capture.total_event_count
     /\ Write(<<"value", matrix_storage[Offset(at.r, at.e)]>>,
              At("value", at.r, at.e + 1))
  \/ /\ at.stage = "value"
     /\ at.e >= capture.total_event_count
     /\ Write(<<"\n">>, At("label", at.r + 1, 0))

Flush ==
  /\ at.stage = "label"
  /\ at.r >= current_chunk_ops
  /\ \/ Return("SUCCESS") /\ UNCHANGED <<written, upsets>>
     \/ TransportFails

SerializeStep ==
  /\ FirstLines \/ HeaderLines \/ RowLine \/ Flush
  /\ UNCHANGED header

(* What the application does otherwise: it takes no rows before they are    *)
(* sent, and forgets what a call returned when it goes on.                  *)
Otherwise ==
  /\ at = Idle
  /\ pc = "ready" /\ pc' = "taken" => result = "SUCCESS"
  /\ IF pc' = pc THEN UNCHANGED <<result, written>>
                 ELSE result' = None /\ written' = <<>>
  /\ UNCHANGED <<at, header>>

Send ==
  /\ \/ \E include_header \in BOOLEAN : Serialize(include_header)
     \/ SerializeStep
  /\ UNCHANGED <<captureVars, status, meter, pc, op, rows>>

CsvInit ==
  /\ Init
  /\ at = Idle /\ header = FALSE /\ written = <<>> /\ result = None

CsvNext ==
  \/ Next /\ Otherwise
  \/ Send

CsvSpec == CsvInit /\ [][CsvNext]_csvVars

(* Every call returns, and the application goes on, sending a chunk again   *)
(* when that has failed.                                                    *)
CsvFairSpec == CsvSpec /\ WF_csvVars(Work /\ Otherwise) /\ WF_csvVars(Send)

-----------------------------------------------------------------------------
(* The table: a line has one text for its first cell, one per event and one *)
(* for its end; the rows follow the header, Width texts each.               *)
Width == capture.total_event_count + 2

Line(first, cell(_)) ==
  [k \in 1 .. Width |->
     IF k = 1 THEN first ELSE IF k < Width THEN cell(k - 2) ELSE <<"\n">>]

RowText(n) ==
  Line(<<"row", n>>, LAMBDA e : <<"value", Cost(n, Column(e)) % Word>>)

HeaderText ==
  << <<"# version">>,
     <<"# chunk", current_chunk_start, current_chunk_ops, capture.total_ops,
       capture.total_event_count, capture.events_per_pass>> >>
  \o Line(<<"layer_index">>, LAMBDA e : <<"name", Column(e)>>)
  \o Line(<<"event_id">>, LAMBDA e : <<"id", Column(e)>>)

RowsText ==
  [k \in 1 .. current_chunk_ops * Width |->
     RowText(current_chunk_start + (k - 1) \div Width)[((k - 1) % Width) + 1]]

Table == (IF header THEN HeaderText ELSE <<>>) \o RowsText

(* A call of nsx_pmu_capture_serialize_csv that succeeds has written the    *)
(* whole table of the chunk, one line per operator under its own number,    *)
(* one exact count per event under its name; a call that fails has written  *)
(* the beginning of the table, whatever earlier calls left half written.    *)
TableIsExact ==
  at # Idle \/ result # None =>
    /\ IsPrefix(written, Table)
    /\ result = "SUCCESS" => written = Table

(* A chunk that is ready can be sent: only the transport makes the call     *)
(* fail, since the passes that filled the chunk have looked up all columns. *)
OnlyTransportFails == result # "INVALID_CONFIG"
===============================================================================
