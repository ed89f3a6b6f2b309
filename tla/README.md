# Formal models of nsx-pmu-armv8m

TLA+ modules, TLC configurations and TLAPS proofs for the PMU library in this
repository: the driver that programs the Armv8.1-M performance counters, the accumulator, the
chunked capture and the characterisation that are built on it, and the transport
their tables are written to. Paths below are
relative to the repository root; `utils.c`, `accumulator.c`, `capture.c` and
`transport.c` stand for `src/armv8m/nsx_pmu_*.c`.

## 1. The system

The library answers one question for a program that runs a neural network on a
Cortex-M55: how often did event *e* occur in operator *n*? The hardware has
eight 16-bit event counters, so only four 32-bit counts can be taken at once,
while the event map has seventy events. Everything above the driver exists
because of that gap: the model is run again and again, each run measures
other events, and the results are put together.

    application (or TFLM profiler)
        |  frames every operator, ends every run
        v
    capture.c        accumulator.c        characterize_function (utils.c)
        |  \              |                    |
        |   \ rows        |  nsx_pmu_init, reset_counters, get_counters
        |    v            v                    v
        |  transport.c   driver: event_create, reset_config, presets, init,
        |                reset_counters, get_counters (utils.c)
        v                 |
    application's buffer  v
                      Ambiq backend and CMSIS accessors (external)
                          |
                      PMU hardware: counts beside the program

All calls are made from one thread; there are no locks, callbacks other than
the `func` of characterize_function and the transport's `write`, and no
persistent state. What runs concurrently is the PMU. What makes the code hard
is that the PMU, `nsx_pmu_config_index`, the counter mask and
`nsx_pmu_initialized` are **one** global resource that every
`nsx_pmu_config_t` silently shares.

| component | state | operations | what makes it hard | correct when |
|---|---|---|---|---|
| **driver** (utils.c) | per configuration: `events[]`, `counter[]`; global: counter mask, `nsx_pmu_config_index`, `nsx_pmu_initialized`; the PMU's registers | event_create, reset_config, apply_preset, init, reset_counters, get_counters, print_counters, get_name, `ns_delta_pmu` | events occur between any two register reads; 32-bit slots are chained pairs with a parity constraint; init fails at four places and leaves a different mess at each; a read combines the configuration passed in with globals of another one | a read of the configuration the PMU is programmed for reports, per slot, its own event's count modulo the slot's width; nobody else's report changes |
| **capture** (capture.c) | `nsx_pmu_capture_t`: shape, chunk, pass, `chunk_ready`, `complete`; the caller's buffer | init, reset, layer_begin, layer_end, model_end, advance_chunk, queries, serialize_csv | two nested loops (chunks × passes) driven from outside by calls that may come early, late, twice or after a failure, and by model runs that no pass was prepared for; a CSV write that fails half way; reused buffer; sizes with defaults; short last chunk and short last pass | every row of a ready chunk is exact; rows come once, in order; stores stay in the buffer; it finishes; the CSV table of a chunk is complete and exact, or the call has failed |
| **accumulator** (accumulator.c) | pool `g_acc[]`, tag tables, backing buffers of the callers | create, destroy, inference_begin/end, op_begin/end, resolve_tag, find_tag, get, get_layer, print_matrix, complete | statuses ignored (init, get_counters); several matrices on one PMU; operators sharing a row; full tag table; slots and buffers reused; handles that outlive their matrix; inferences given up half way | a complete matrix is exact; a bad pass spoils its own columns only; foreign buffers are left alone; the caller's loop ends |
| **characterisation** (utils.c) | none of its own | characterize_function | batches over the whole map; `func` may use the PMU | each event is printed once, with its own count |
| **transport** (transport.c) | one static line buffer that all log transports share | write, printf, flush, log_sink_init | a line longer than the buffer; two transports on one buffer; truncation that is reported as success | bytes are neither lost, doubled nor reordered |
| **backend, CMSIS** (external) | PMU registers | `nsx_ambiq_pmu_enable/init`, `ARM_PMU_*` | 16-bit wrap, carry into a chained counter | modelled from its use |
| **tools, data, build, tests** | none | text generation, compile-only tests | – | not modelled |

## 2. Modules

| module | models | notes |
|---|---|---|
| `PmuMeter` | the PMU **as its users see it** | operators only: `Program`, `Disturb`, `Forget`, `Accrue`, `Zero`, `Readings` |
| `PmuContract` | the promise of nsx_pmu_utils.h | a specification made of PmuMeter's operators; abstract |
| `PmuDriver` | utils.c (without characterize_function) and the PMU's counters | implements `PmuContract` |
| `DriverProofs` | theorems about PmuDriver, the refinement among them | TLAPS |
| `Characterize` | nsx_pmu_characterize_function, over PmuMeter | |
| `CharacterizeProofs` | theorems about Characterize | TLAPS |
| `Capture` | capture.c: every call as an action, over PmuMeter | |
| `CaptureRun` | an application that makes those calls | composes Capture, the PMU and other PMU users |
| `CaptureSpec` | what a capture is for: rows, in order, exact | abstract; `CaptureRun` implements it |
| `CaptureProofs` | theorems about CaptureRun | TLAPS |
| `DeliveryProofs` | CaptureRun implements CaptureSpec | TLAPS, on CaptureProofs |
| `CsvRun` | nsx_pmu_capture_serialize_csv, write by write | extends CaptureRun |
| `CsvProofs` | theorems about CsvRun | TLAPS, on DeliveryProofs |
| `CaptureSlips` | an application that uses a capture carelessly | extends CaptureRun |
| `SlipsProofs` | theorems about CaptureSlips | TLAPS |
| `Accumulator` | accumulator.c: every call as an action, over PmuMeter | |
| `AccumulatorRun` | clients that take turns on one PMU | |
| `AccumulatorProofs` | theorems about AccumulatorRun | TLAPS |
| `Transport` | transport.c: transports that end in the log sink | stands alone |
| `TransportProofs` | theorems about Transport | TLAPS |
| `MC*` | instances for TLC | |

The chain of abstraction is: `PmuDriver` (masks, counters, chaining, wraps,
read loop) implements `PmuContract`, whose steps are those of `PmuMeter`;
`Capture`, `Accumulator` and `Characterize` are written on `PmuMeter`; `CaptureRun` implements
`CaptureSpec`. Both implementations are checked by a run and proved. So the three users of the driver are checked against a PMU the
driver has been proved to provide, including what it provides when
initialisation fails or the PMU belongs to somebody else: *any* value
(`Foreign`).

### PmuDriver

`events` and `counter` are the two arrays of each `nsx_pmu_config_t`. `counters`
is the mask `ns_ambiq_pmu_config.counters` as a set of bits, with
the cycle counter's bit `Cycles`; `config_index` and `initialized` are the statics of
utils.c. `evtyper`, `evcntr`, `cnten` are the PMU. A configuration slot's
`mapIndex` is kept as the event it names, since nothing but the name is read
through it.

Every call is one action, except `nsx_pmu_get_counters`, whose loop is
modelled register by register (`GetBegin`, `GetSkip`, `GetCounter`,
`GetChained`, `GetEnd`) because the PMU may count between any two of them:
`Occur(e)` is enabled throughout. `nsx_pmu_init` has four outcomes: refused
(version or too many counters, nothing touched), an unlisted event (slots
before it cleared, mask emptied, no programming), backend failure (mask and
index new, hardware old), success. `owner`, `meant`, `author` and `occurred` are history variables,
used by the properties and the refinement mapping and by no guard of
the driver (`occurred` is bounded by `MaxOccur`). `meant` is the `events[]` the PMU was
programmed with, `owner` the configuration that still has them, `author` the one whose
`counter[]` still has their names: an edit ends ownership and leaves the other two, a reset of
the configuration ends both of its own, and an init that fails half way leaves nothing known.
The allocation (`FirstCounter`, `EventTypes`, ...) is a function of the requests `w`, not of the
configuration that holds them.

The backend is outside the repository. From its use: it programs the event
types, resets and enables the masked counters, or fails; a failure
is given no better guarantee than "nobody owns the PMU". A chained counter
is odd and counts the wraps of the even counter below it.

### Capture and CaptureRun

The variables carry the names of the C fields; `capture` is the record of the fields
that `nsx_pmu_capture_init` assigns, so that one assignment of it is that call's
block of assignments, which happens *before* its last two checks.
An event is its map index. `Radix` scales the
counters: a 16-bit counter holds `0..Radix-1`, a cell `0..Radix²-1`.
`CaptureRun` runs the model: `LayerBegin`, `RunLayer` (the operator's work,
`Cost(op, e)`), `LayerEnd`, `BetweenLayers` (the runtime's own work, `Overhead(e)`), and
`ModelEnd` after the last operator; in a ready chunk `TakeRows`, then `Advance`.
Beside that: `Restart` in the middle of anything, `Recover` from a failed
initialisation, `GiveUp` on a refusal, `Stray` calls (model_end twice,
advance_chunk before the chunk is ready, reset of a capture never
initialised), and `Lend`, some other code initialising the PMU while
the model is not running.

*Premise.* `Cost(op, e)` does not depend on the run. It is the premise of
measuring different events in different runs; the library cannot do without it.

### CsvRun

The application of `CaptureRun` sends each ready chunk before it takes the rows.
`at` is where the loops of serialize_csv are, and every step is one call of
nsx_pmu_transport_write or printf, which succeeds (the text is appended to
`written`) or fails (the call returns). A text is a tuple that says what was formatted:
`<<"value", n>>` for `",%u"`. After a failure the application sends the chunk
again, from the beginning, as it must: the call keeps nothing. A write that fails counts as one of the `MaxUpsets`
upsets, beside backend failures and restarts. On the transport the
retry follows what the failed call wrote, in the middle of a line.

### CaptureSlips

capture.c does not know which run of the model it prepared a pass for: layer_end
adds to the columns of whatever pass it is in, and model_end moves on from
there, also when the pass could not be prepared. `CaptureSlips` adds the
application that relies on more than that. `RunAnyway` runs the model from its
first operator when a run is unfinished or was not ended, when the chunk is
ready, or after a failed init; `Retry` answers a failure by calling model_end
again; `LendMidRun` lets somebody else initialise the PMU between two layers.
Each such slip (at most `MaxSlips`) enters the columns of the pass at hand into the history
`spoiled`, which a chunk that begins anew empties. Everything else is
CaptureRun's. The one thing the application does not do is advance past a
ready chunk while it runs the model.

### Transport

`line_buffer` holds the bytes below `used`; `data` is what the loop of
nsx_pmu_log_sink_write has still to store, a byte per step. `console` is
what nsx_printf has printed (external: `"%s"` prints up to a NUL), `owed` the
history of what callers wrote. `nsx_pmu_transport_log_sink_init` clears the
buffer of all, so `owed` loses what was waiting. `printf` owes what fits its buffer.
The program's formats are finite and the model's texts are given, so vsnprintf's
negative result does not occur.

### Characterize

One call is a loop over batches: `Prepare` (reset, create, init), `RunFunc`,
`Read`, then `PrintSlot` for every slot. `FuncUsesPmu` lets func initialise the
PMU for something else, disturb it or reset the counters before or after its work;
`alone` is the history of the batches where it did not.

### Accumulator and AccumulatorRun

`g_acc` is the pool; the address of `g_acc[id].cfg` is known by `id`, and
the PMU's owner is one of them. `tag_map[i].row` is always `i` in the code, so the table is a
sequence of tags and `next_row` its length. Tags are pointers; `Text(tag)` is the
string behind one, and does not change. `nsx_pmu_accm_op_end` reads what
`nsx_pmu_get_counters` leaves when its status is ignored (`CounterValues`): exact values for the
owner; for another matrix the owner's counts, if it asks for the same slots (`SameSlots`; all slots are
32 bits wide, and this is `ReadsProgrammedCounts` of the driver), and foreign values otherwise;
zeros before any successful init.
Clients share one thread: they take turns between inferences, and each
frames its operators by index or by tag. A client whose create was
refused still runs its model with the calls in it. Its handle then has the id 255.
Clients may lapse (`MaxLapses`): `Abandon` gives up an inference, whose pass the
next one measures again; `Destroy` may leave the client its handle, with which
it goes on framing operators, ends inferences and destroys once more, when the slot of the
pool may have become another client's. `spoiled` is the history of the columns
that such calls, or a read of somebody else's PMU, have touched; no guard
but that of `Infer`, which bounds idle runs for TLC, looks at it.

## 3. What is checked

The runs with a liveness property use the fair specification of their module
(`CsvFairSpec`, `SlipFairSpec`, `FairSpec`), the others `Spec`; deadlock
checking is on everywhere.

| run | states | properties | question |
|---|---|---|---|
| `driver_widths` | 330k | `TypeOK`, `ReportIsExact`, `DeltaIsLowerBound` | any mix of 16- and 32-bit slots, occurrences between any two steps of a read |
| `driver_failures` | 75k | `ReportIsExact`, `ReadsProgrammedCounts` | presets, too many counters, unlisted events, edits and refusals after a good init, backend failures |
| `driver_contract` | 145k | `ImplementsContract`, `ReadsProgrammedCounts` | two configurations on one PMU: refinement of `PmuContract`, and what each reads of the other's |
| `driver_unread` | – | `SuccessHasRead` **violated** | see 6 |
| `capture_rows` | 12k | `TypeOK`, `ReadyRowsExact`, `CaptureInv`, `TableIsExact`, `OnlyTransportFails`, `StorageRespected`, `DeliversRows`, `EveryCaptureEnds` | uneven chunks and passes, permuted and unlisted selections, every rejected configuration, failures, restarts, other users; each chunk sent with or without header, any write failing, sent again |
| `capture_slips` | 254k | `TrustedColumnsExact`, `StorageRespected`, `SlipsEnd` | two slips anywhere in captures of several shapes, with a failing backend |
| `accum_one` | 58k | `TypeOK`, `CompleteMatrixExact`, `TagsFindTheirRows`, `BuffersLeftAlone` | the pool as shipped (one matrix), two clients that want it |
| `accum_shared` | 249k | `OwnColumnsExact`, `BuffersLeftAlone`, `EveryLoopEnds` | two matrices on one PMU, failing backend, an inference abandoned or a handle kept |
| `accum_two` | – | `CompleteMatrixExact` **violated** | see 6 |
| `accum_refused` | – | `UsageLoopEnds` **violated** | see 6 |
| `log_sink` | 33k | `TerminatorFits`, `BytesKept`, `NoLineWaits` | two transports on one small buffer, messages below, at and above its size |
| `characterize` | 11k | `EventsOnceInOrder`, `AloneIsExact` | a short last batch, a used configuration, failures, a func that uses the PMU |

What the properties say:

* `ReportIsExact`: when a read of the configuration the PMU is programmed for
  has visited all counters, what would be printed is, for each enabled slot, its
  own event and the occurrences since the last reset modulo the slot's width.
  It needs the allocation of pairs below singles, the carry, the stop before the
  read, `nsx_pmu_config_index` and the `mapIndex` of every slot to agree.
* `ReadsProgrammedCounts`: what `ReportIsExact` leaves open, the PMU having no owner or another
  one. A read of any configuration with the widths of `meant` finds the counts of `meant` in its
  slots: slots come from `nsx_pmu_config_index`, only the widths from the argument. So a
  configuration that was edited, and perhaps refused, since its last good init prints the old counts,
  under the old names (`mapIndex`), never the new event's name on the old event's count; and another
  user that asks for as many events takes them for its own, which is what `accum_two` runs into.
* `DeltaIsLowerBound`: `ns_delta_pmu` of two successive reads of a slot. Since a read
  resets the counters, the second value already is what occurred; the
  delta is never more, and it is all of it when the first value was zero or larger. In
  the other case it is too small.
* `ImplementsContract`: the same as `ReportIsExact`, as a refinement, for several configurations, with
  the promise that a call on one leaves the report of another alone.
* `ReadyRowsExact`: each cell of a ready chunk is `Cost` of its operator and
  event modulo 2³². `DeliversRows` lifts that to the rows the application
  collects: one per operator, in order, never changed afterwards.
* `StorageRespected`: no step stores beyond the words the capture was given.
* `TrustedColumnsExact`: what a careless application spoils is the pass in which it was
  careless. All other columns of a ready chunk are listed and exact,
  because layer_end adds to the columns of its pass only and every pass begins with an
  initialisation of its own. A retried model_end does skip a pass, whose columns
  stay zero, and a repeated run counts twice: both within `spoiled`.
  `SlipsEnd`: section 4.
* `CaptureInv`: the inductive invariant of section 5, as a run.
* `CompleteMatrixExact`: each cell of a complete matrix is the sum of `Cost`
  over the operators whose row it is, where the rows come from the tags alone
  (`RowOf`: one per string, by first occurrence), not from the tag table. The sum is
  stated as a count along the model, one operator after the other (`Occurrences`): the
  count after the last operator is what a cell must hold, the counts before it are what the proof
  needs while an inference runs.
* `OwnColumnsExact`: with failures, a shared PMU, abandoned inferences and handles
  used after destroy, the columns of passes in which none of that happened
  are exact all the same. Tags entered under a stale handle are the exception:
  they take rows, and with them every column. That a stale handle writes into the matrix
  that took the slot is not excluded, since the code does it; the property says how far it goes.
* `TagsFindTheirRows`, `BuffersLeftAlone`: find_tag agrees with the rows
  filled; a buffer changes in inferences under a handle of its live and incomplete matrix only,
  not after completion and not after destroy. A stale handle to a slot in use again is
  such a handle.
* `TableIsExact`: a serialize_csv that succeeds has written the whole table, each
  row under its operator's number with exact counts under the names of their
  events; one that fails has written the beginning of it. The table is stated position by
  position (`Table`), not by the loops that write it. `OnlyTransportFails`: the
  header's second look at the columns never fails for a chunk that is ready.
* `BytesKept`: the bytes written are on the console, in the buffer and in the write in
  hand, once and in that order (on the console: up to the first NUL).
  `TerminatorFits`: emit's `'\0'` lies in the buffer. `NoLineWaits`: a line that ended is printed.
* `EventsOnceInOrder`: characterize_function prints the map from its beginning, in whole
  batches, whatever the configuration held before. `AloneIsExact`: a batch whose
  func left the PMU alone is exact, whatever func did in the batches before.
* `EveryCaptureEnds`, `EveryLoopEnds`, `UsageLoopEnds`: section 4.

Each property of a passing run has a mutant in PROJECT.json: a definition of the code
changed the way a slip would change it (counters handed out in slot order,
counters not stopped for the read, storage checked before defaults, the last
chunk not recognised, the buffer not cleared, ...), under which TLC finds the
property violated. The mutated forms stand beside the originals and are marked
*Mutant*.

### Bounds

| bound | value | why it is enough |
|---|---|---|
| `MaxCounters` | 2 or 4 instead of 8 | 4 allows two pairs, a pair and two singles, or four singles: every kind of neighbour. The last counter, beyond which a chained read would go, is reached with 2 as well |
| `Radix` | 2 instead of 2¹⁶ | a slot wraps at 2, a pair at 4: `MaxOccur = 4` passes every carry and the 32-bit wrap |
| `EditSlot` | one or two slots | any slot order relative to a preset's slots; two slots of any width pair |
| `MaxOccur` | 1, 3 or 4 | bounds one counter of the environment, in the guard of `Occur` |
| `MapSize` | 3, with 2 events per pass; 4 in `accum_two` | a full pass and a short one; a selection that permutes, and one that leaves the map. In `accum_two` two full passes, which ask for the same slots, so that what either matrix reads is known exactly |
| operators | 1 to 3 | chunks of one or two: first, middle and short last chunk |
| `StorageSize` | 6 or 9 | larger than some captures, so that a store beyond their words is visible |
| `MaxUpsets` | 1 or 3 | counts failures of the backend and the transport, and restarts: a failure during the recovery of an earlier one is included |
| `MaxSlips` | 2 | two slips in one pass, in two passes of a chunk, or in two chunks |
| `MaxLapses` | 0 or 1 | one abandoned inference, or one stale handle, which may be used any number of times |
| `MaxMatrices` | 1 (shipped) and 2 | with one, a second client is refused; with two, they share the PMU |
| `Foreign` | {0, 3}, or {3} | what a configuration reads off a PMU that is not its own: the largest value a cell of the model holds and, with 0, the one that looks like no occurrence |
| `Capacity` | 3 instead of 256 | two bytes may wait, so that messages of one to four bytes stay below, meet and pass the limit |
| `MaxOwed` | 7 | bytes written: two long messages, with what an earlier one left in the buffer |
| `Batch` | 2 of a map of 5 | two full batches and a short one |
| `MaxTally` | 3 | only for a client without a matrix, whose counts nobody resets |

## 4. Liveness and fairness

`CaptureRun!FairSpec` is weak fairness of `Work`: the application's loop keeps
going, each of its calls returns. The caller drives the passes, so without that
nothing can be promised; every call is bounded straight-line code. No fairness is assumed of failures, restarts, or other
users; restarts and failures are finitely many (`MaxUpsets`),
as they must be for anything to finish. `EveryCaptureEnds` then says that a capture of listed
events reaches *done*, and one with an unlisted event, which only the pass that
reaches it discovers, is given up. `CsvRun!CsvFairSpec`, under which the run checks it, has in
addition weak fairness of `Send`: a call of serialize_csv returns, and a chunk whose
table could not be sent is sent again; the application takes no rows it has not sent.

`CaptureSlips!SlipFairSpec` is weak fairness of `Proceed`, the same loop in the careless
application, which slips finitely often. `SlipsEnd` promises less than `EveryCaptureEnds`:
a capture with an unlisted event may come to its end when a retry has skipped that
event's pass.

`AccumulatorRun!FairSpec` has weak fairness of `Step` (an inference that has begun goes
on) and, for each client, strong fairness of `Measure(c)`: the loop
`while (!nsx_pmu_accm_complete(h))` of the usage note runs the model again. It
is strong because other clients' inferences disable it while they run: they take
turns, and a client that is ready again and again gets its turn.
Nothing makes anyone create or destroy a matrix. `EveryLoopEnds` is about clients whose handle
names their matrix; `UsageLoopEnds`, which the code violates (section 6), is the
usage note's loop as it is written, for any answer of create.

## 5. What is proved

Eight modules of theorems, checked by tlapm, each for every value of the constants that
the named assumptions of its component allow. Every safety property that a passing run
checks is a theorem, the two refinements included; only the liveness properties are not.

### CaptureProofs

For all constants that
satisfy `MeterAssumption`, `CaptureAssumption` and `RunAssumption`: any map
size, events per pass, radix, buffer size, set of configurations of the PMU, set of
capture configurations, any costs, any overhead, any `MaxUpsets`.

| theorem | statement |
|---|---|
| `TypeCorrect` | `Spec => []TypeOK` |
| `CaptureCorrect` | `Spec => []CaptureInv` |
| `RowsExact` | `Spec => []ReadyRowsExact` |
| `StorageSafe` | `Spec => StorageRespected` |

The assumptions are those of the code: 2·`MaxPerPass` slots, so that a pass of 32-bit
requests always fits; a selection with an entry for each column; an
application that does not claim more words than it owns.

The argument: `ReadyRowsExact` is not inductive: it says nothing of a chunk that is
still being filled. `CaptureInv` says what is true on the way, part by part:

* `ShapeInv`: an accepted capture has storage for a chunk. (Not every capture that
  has fields: a refused init leaves them assigned.)
* `ChunkInv`: chunk and pass lie within the model and the columns, and the
  columns up to the end of the pass are listed.
* `MeterInv`: while the model runs, the PMU is programmed for this pass.
* `LayerInv`: when a sampled layer's body begins the tally is zero, when it ends it
  is the layer's cost.
* `CellsInv`: a cell of the chunk is exact once *measured* (its column
  is of an earlier pass, or of this pass and its operator is done) and zero before.

`Measured` is the heart. Each `LayerEnd` adds to cells that are not measured
yet, hence zero; the cells it leaves alone lie elsewhere because rows do not overlap
(`RowsApart`, the uniqueness of r·E + e with e < E). When a pass ends all of its
columns are measured (`PassMeasured`), so the next one starts with base = the old
end. There is one lemma per action, each with one step per conjunct that the
action can disturb; `NextInv` collects them and `Inductive` is the PTL step.
`StorageSafe` is proved action by action from the invariant: only
`reset_chunk` and `layer_end` store, the first one inside ops·events, which
`ShapeInv` bounds by the storage, the second inside the row of its operator (`RowFits`).

### TransportProofs

| theorem | statement |
|---|---|
| `TerminatorSafe` | `Spec => []TerminatorFits` |
| `ConsoleInOrder` | `Spec => []BytesKept` |
| `LinesPrinted` | `Spec => []NoLineWaits` |

From `TransportAssumption`: any capacity above 1, any transports, messages of any length,
formatted or not. The three properties and `TypeOK` together are inductive. The work is in sequences:
`StoreByte` moves the head of `data` to the end of the buffer (`Regroup`:
concatenation is associative), printing the buffer moves it behind what was sent,
clearing it takes the same bytes from the end of `owed` (`FrontOf`: what was
sent is found again from the three lengths; `KeptIf` reduces every step to it), and `FormattedFits` shows that what printf hands over is what fits, without its NUL.

### CharacterizeProofs

| theorem | statement |
|---|---|
| `CharacterizesMap` | `Spec => []EventsOnceInOrder` |
| `AloneExact` | `Spec => []AloneIsExact` |

From `MeterAssumption` and `CharacterizeAssumption`. `BatchInv` adds what holds between the
steps: the configuration asks for the batch in hand, and as long as func
leaves the PMU alone (`Undisturbed`) it is programmed for this configuration and
counts from zero. `BatchSlots` says which slots a batch fills.

### DeliveryProofs

| theorem | statement |
|---|---|
| `RowsDelivered` | `Spec => DeliversRows` |

`CaptureRun` implements `CaptureSpec`, from the assumptions of CaptureProofs and
`JobAssumption`: `None`, which stands for no job, is not a job. `CaptureInv` tells
what a ready chunk holds, not where it belongs. `DeliveryInv` adds
that: the capture in hand is what nsx_pmu_capture_init installs for one of the
configurations (`JobInv`), the rows taken are as many as the operators before the
chunk, an accepted chunk is never empty, and `complete` says of a ready chunk whether it
is the last (`TakenInv`). Each action then maps to a step of CaptureSpec (a chunk
arrives with `TakeRows`) or to a stutter. `Received` is empty in a capture that has failed, so
that giving one up is one step, whatever had been taken.

### CsvProofs

| theorem | statement |
|---|---|
| `TableExact` | `CsvSpec => []TableIsExact` |
| `TransportOnly` | `CsvSpec => []OnlyTransportFails` |
| `RowsExactWhileSending` | `CsvSpec => []ReadyRowsExact` |
| `CaptureCorrectWhileSending` | `CsvSpec => [](TypeOK /\ CaptureInv)` |
| `StorageSafeWhileSending` | `CsvSpec => StorageRespected` |
| `RowsDeliveredWhileSending` | `CsvSpec => DeliversRows` |

From the assumptions of DeliveryProofs and `ResultAssumption`: `None`, the result of a call that has not returned, is
none of its statuses. What CaptureProofs and
DeliveryProofs show of `Spec` is carried over to the application that sends its chunks, since a step
of serialize_csv changes nothing those theorems speak of. `SentInv` says where a call in
hand is: `Reached(at, n)` is the number n of texts before the place `at` of the loops, and
what is written is `Cut(n)`, the first n texts of the table. One lemma per stage of the loops shows that
the text it writes is the table's next, which takes the arithmetic of the position (`RowOfText`) and
that the columns are listed, from `CaptureInv`: so the header's second look at them finds
every one.

### SlipsProofs

| theorem | statement |
|---|---|
| `SlipsConfined` | `SlipSpec => []TrustedColumnsExact` |
| `SlipsStorageSafe` | `SlipSpec => StorageRespected` |

From the assumptions of CaptureProofs and `SlipsAssumption` (configurations that init accepts).
`CaptureInv` is false here: a careless application runs the model on a pass that was
not prepared. `SlipInv` says what is left. The place in the loops is right whatever
happens (`PlaceInv`: chunk, pass and storage fit each other, which alone bounds the
stores). While the pass at hand has an unspoiled column, the PMU is programmed for it and the
run is the one that was prepared for it (`PassInv`). An unspoiled column is exact when its pass is over, as far
as the run has come in its pass, and zero before (`CellInv`). `spoiled` only
ever takes a pass as a whole, so a pass with one trusted column is trusted
altogether.

### DriverProofs

| theorem | statement |
|---|---|
| `TypeCorrect` | `Spec => []TypeOK` |
| `ReportExact` | `Spec => []ReportIsExact` |
| `ProgrammedCountsRead` | `Spec => []ReadsProgrammedCounts` |
| `DeltaBounded` | `Spec => DeltaIsLowerBound` |
| `ContractKept` | `Spec => ImplementsContract` |

From `DriverAssumption`: any even number of counters, any radix above 1 (so any counter width), any
set of configurations, presets and map. Three of its parts only keep sentinels apart
(`None`, the two answers of nsx_pmu_get_name that are not names, `Chain` and `Unused`), one says that the events of presets
are events.

`ReportIsExact` and `ReadsProgrammedCounts` speak of a finished read. `DriverInv` says what is true before:

* `MeantInv`: the requests the PMU is programmed with fit the counters; the event types, the mask and
  `nsx_pmu_config_index` are those they call for; the counters run, unless they are stopped for a
  read; and the counter or the pair behind each slot holds the occurrences of the slot's event
  modulo its width (`Held`). It needs no configuration, so that it survives edits.
* `AuthorInv`: the report of `author` names the events of `meant`. `OwnerInv`: the owner's
  requests are `meant`, the names in it are its own, and its disabled slots have no value.
* `WalkInv`: in a read of a configuration with the widths of `meant`, the slots whose counter lies
  below the one the loop stands on have their values; the loop never begins a step in the middle of a
  pair; `low` is the lower half of the pair it stands on.
* `DisabledInv`: a slot that is not enabled holds an event of the map. `ReadInv`: outside a read
  there is no half-read pair.

The lemmas that carry the proof are about the allocation: slots in the order pairs, then singles, by
index, get counters that are pairwise distinct, even for pairs, and below
`MaxCounters` if the total is (`Places`); and about the arithmetic of a carry: an
occurrence moves the pair's value from n mod r² to n+1 mod r², whether or not the lower half wraps.
`ContractKept` has one lemma per action; `Wanted` and `Reported` are the refinement mapping.

### AccumulatorProofs

| theorem | statement |
|---|---|
| `TypeCorrect` | `Spec => []TypeOK` |
| `OwnColumns` | `Spec => []OwnColumnsExact` |
| `MatrixExact` | `Spec => []CompleteMatrixExact`, if `MaxMatrices = 1`, `~BackendFails`, `MaxLapses = 0` |
| `TagsFound` | `Spec => []TagsFindTheirRows`, if `MaxLapses = 0` |
| `BuffersSafe` | `Spec => BuffersLeftAlone` |

From `MeterAssumption`, `AccumulatorAssumption` and `RunAssumption`: any pool below 255
matrices (255 is the id of a refused handle), map, buffer, batch size, any clients, models, tags and costs. A model has no
more operators than the `uint16_t` op_idx of accumulator.h can number; a job's buffer has the words
its shape needs, since create is not told how many there are. The hypotheses of `MatrixExact` are those of
the run `accum_one`; without the first one the statement is false (section 6). `TagsFound` needs no exact
counts and no exclusive PMU, only clients that tag the operators of their own matrix.

`AccInv` has these parts:

* `PoolInv`: a matrix in use is the one its client's handle names and has the size the
  client asked for; it is complete when `next_event` has passed its events; when a matrix
  owns the PMU, it is in use, and the PMU counts its pass unless it is complete.
* `PlaceInv`: when an operator that has a row begins, the tally is zero, when it ends it is its cost.
* `TagInv`, `RowInv`: every tag in the table is there in the row that its first
  occurrence in the model calls for; the operators that the inference has reached, and all of them after the first pass, have
  their entry or there was no room for it. So the row in hand is the right one.
* `CellsInv`: a cell of an unspoiled column holds the count along the model up to the operator that the pass
  has reached (`Measured`): the whole model for earlier passes, nothing for later ones.
* `HandleInv`, `SteadyInv`: what the absence of lapses and of failures gives.

`TableTells` is the lemma that the row of a string is its rank among first occurrences
(`RowsContiguous`: no rank is left out), hence where `Append` puts it. Cells of different rows and columns do not overlap
(`CellsApart`); op_end adds to a cell exactly the next term of the count (`CellsMeasured`, `ModAdd`:
the code wraps at every addition, the count once).

`Occurrences` is a recursive function. Nothing is proved by induction over it: that its domain and
its recursion are what they look like (`SumExists`) is shown with a smallest counterexample from the well-foundedness of < on Nat
(`Least`), since the theorems of induction over Nat take an operator as parameter.

### What stays with TLC

Liveness, which is outside this prover (fairness needs ENABLED): `EveryCaptureEnds`, `SlipsEnd`,
`EveryLoopEnds`, and the three violations of section 6, which are counterexamples. No module uses RECURSIVE operators.

The proofs say nothing about the costs of a model that depend on the run (the premise of
section 2), and nothing about the external parts beyond how they are modelled.

## 6. Disagreements found

* `driver_unread`: `nsx_pmu_init` empties the counter mask (utils.c:207) before it
  looks for unlisted events (utils.c:218). After an earlier successful init,
  `nsx_pmu_initialized` is still set, so the next `nsx_pmu_get_counters` returns
  success with an empty mask: no counter is read, and `counterValue`, "Value
  read from the PMU", is what it was.
* `accum_two`: `NSX_PMU_MAX_ACTIVE_MATRICES` is offered as a limit on
  simultaneous matrices. The PMU is programmed for a matrix by create and
  inference_end only. In the trace, a matrix of four events has measured events 0 and 1, and its
  inference_end has programmed 2 and 3; another client creates its matrix, which programs events 0 and 1
  in the same two slots. The first matrix's second inference reads those, exactly, into its columns 2
  and 3, and completes, although no call failed. (Two matrices in the same pass would do no harm.)
  With one matrix (`accum_one`) the cells are exact, and `accum_shared` shows how far the damage
  goes: only the columns read off somebody else's PMU.
* `accum_refused`: the usage note of nsx_pmu_accumulator.h (lines 13 to 25) creates a matrix
  and runs the model while `nsx_pmu_accm_complete` is false. When create is refused (the pool is full, or the
  sizes are out of range) the handle has the id 0xFF and complete answers false for ever
  (accumulator.c:198): the loop does not end, and no call in it reports anything.

## 7. Not modelled, and why

* `nsx_pmu_capture_reset` after a refused init: its configuration is installed but not
  checked against the storage, so what the call then clears and fills is no longer
  bounded by anything the model could promise. `CaptureRun` gives such a capture up. No property
  covers this hazard.
* `g_nsx_pmu_map_length`, which `nsx_pmu_init` sets to a constant and only the macro `NS_NUM_PMU_MAP_SIZE`, for
  applications, reads; builds with `NSX_DISABLE_API_VALIDATION`, which take the checks of init out.
* Write callbacks other than the log sink's, which belong to the application.
* Descriptions and the layout of printed text. Names are known by their event: they are
  distinct and shorter than the 49 characters nsx_pmu_copy_name keeps. `nsx_pmu_get_counters` of a capture
  after it was refused; null-pointer checks other than those that decide a state change.
* The tools, data files and build files: no run-time state.
* Tag strings that a caller changes after resolving them; an `event_map` that a caller rewrites
  while a capture uses it (`TableIsExact` is about a selection that stays).
* The names in a report whose slot was reset, or enabled anew, without a successful nsx_pmu_init
  since: `mapIndex` is then entry 0's or a former event's, and `ReadsProgrammedCounts` is silent.
* That a stale handle reaches another client's live matrix: a handle has no generation, so nothing
  could prevent it. `OwnColumnsExact` bounds the damage.
* Arithmetic on sizes: products of 16-bit counts fit the 32-bit words they are computed
  in, so they are integers here. Counter values do wrap and are modelled with their width.

## 8. Plan

What stands in sections 2 to 6 came first because exactness of
captured rows is what the library is for, and how far the damage of a wrong call
goes is what its callers ask next. The driver, the accumulator, the careless application, the CSV table and both
refinements, once checked on instances only, are proved now. What is left, in this order:

1. **The accumulator's damage, tighter**: `OwnColumnsExact` gives up all columns once a tag is entered under
   a stale handle. With indexed operators nothing is entered, and what was measured before stays
   exact; the theorem could say so for clients, not for the whole map.
2. **Composition**: `Transport` under `CsvRun`, so that `TableIsExact` is about the bytes on the console.
3. **`AccumulatorRun` as a refinement** of a specification of matrices like `CaptureSpec`, with the
   clients' turns hidden.

## Running

    tlc -config capture_rows.cfg MCCsvRun.tla          # and so on, PROJECT.json "runs"
    tlapm TransportProofs.tla                          # each less than a minute:
    tlapm CharacterizeProofs.tla
    tlapm CaptureProofs.tla
    tlapm DeliveryProofs.tla
    tlapm SlipsProofs.tla
    tlapm CsvProofs.tla
    tlapm DriverProofs.tla                             # two minutes
    tlapm AccumulatorProofs.tla                        # five minutes
