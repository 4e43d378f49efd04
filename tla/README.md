# TLA+ models of perfetto4ic

This directory holds TLA+ models of the parts of this repository that a model
checker can say something about, the TLC configurations that check them, and
`PROJECT.json`, which maps every model definition to the source lines it
translates. The "spec" below means `spec.md` at the repository root.

## 1. Inventory

The source tree has six files. Between them they contain five programs:

| Part | Source | State | Operations | Interacts with |
|---|---|---|---|---|
| Filter executor (spec C6) | `src/src/trace_processor/db/query_executor.cc` 121-226 | the caller's `RowMap`; in the indexed strategy, an `IndexFilterHelper` of paired `(current, global)` index lists, the `valid` list and `count_removed` | `FilterColumn`, `BoundedColumnFilter`, `IndexedColumnFilter`, and the helper's `Partition` and `KeepAtSet` | calls storage (C3), overlays (C4), row maps and bit vectors (C1, C2) |
| Legacy bridge (spec C7) | `query_executor.cc` 228-279 (`FilterLegacy`) | one storage and one null overlay per eligible column; the running row map | route each constraint to the legacy `Column::FilterInto` or to `FilterColumn` | table/column layer (not in this tree), the executor |
| Storage, null overlay, row map, bit vector (spec C1-C5) | not in this tree: modelled from spec sections 3-4 | immutable during a call | `LinearSearch`, `IndexSearch`; `MapToStorageRange`, `MapToStorageIndexVector`, `IsStorageLookupRequired`, `IndexSearch`, `MapToTableBitVector`; `Intersect`, construction | used by the executor |
| Systrace text parser | `src/src/trace_processor/importers/systrace/systrace_trace_parser.cc` | `state_` (before parse, HTML prologue, systrace, end), `partial_buf_` | `Parse(chunk)`, `ParseSingleSystraceEvent(line)` | receives chunks from the trace reader; calls the process, sched and event trackers |
| Aggregation controllers (UI) | `src/ui/src/controller/aggregation/counter_aggregation_controller.ts` (the file holds both the counter controller, lines 25-173, and the slice controller, lines 198-315) | the SQL view named `this.kind` in the trace processor | `createAggregateView` (async: `drop view`, then `create view`), `getSelectedTrackIds` | the trace-processor engine, over `await`; the caller `AggregationController` (not in this tree) |
| Traced values | `src/include/perfetto/tracing/traced_value.h` | a value, array or dictionary scope, consumed once | `Write*`, `WriteArray`, `WriteDictionary`, `AppendItem`, `AddItem`, and the compile-time dispatch `WriteIntoTracedValue` | the proto writer (not in this tree) |
| Build file and UI unit test | `src/unnamed/part_000` (GN build of bigtrace), `src/unnamed/part_001` (gridline helper test) | none | none | none |

How the parts interact:
- `FilterLegacy` builds one `SimpleColumn` for each eligible column. An eligible column has one `NumericStorage` and, if it is nullable, one `NullOverlay`.
- For each constraint in order, `FilterLegacy` calls either `FilterColumn` or the legacy filter. Each call filters the running row map.
- `FilterColumn` calls the overlays and the storage synchronously.
- The systrace parser is fed chunks and pushes events into trackers.
- The UI controllers talk to the engine asynchronously.

What is hard here:
- **Executor.** Everything runs on one thread; a call never suspends. The hard part is the data flow:
  - Rows translate between table space and storage space through a stack of overlays.
  - The bounded strategy narrows a range outermost first and lifts a bit vector innermost first.
  - The indexed strategy partitions paired index lists and must keep each pair aligned.
  - `valid` is filled overlay by overlay, so it is out of order until the final sort. The next `FilterColumn` call takes `Get(0)` and `Get(size-1)` of the row map as its bounds, so the order matters.
  - The strategy threshold divides by `range_size`, which can be 0, and `range_size` is a `uint32` difference.
- **Systrace parser.** A trace arrives cut at arbitrary byte positions. The parser must keep an unfinished line across calls. It decides the format (HTML or plain) only once, from the first byte. It must stop at `</script>` and drop everything after.
- **UI controllers.** `createAggregateView` awaits between dropping and re-creating a view. Two overlapping calls could interleave these steps.

Correctness, per part:
- **Executor.** Results must agree with the legacy filter (spec 8.1). Results must stay inside the input row map (8.2). Both strategies must give the same result (8.3). The indexed strategy must account for every row: `|R| = |valid| + count_removed` (8.5). The order of constraints must not matter (8.6). An empty input gives an empty output (8.7).
- **Parser.** The lines handed to `ParseSingleSystraceEvent` must not depend on how the input was chunked. Every event line in the documented format must reach the trackers.
- **UI controllers.** After any sequence of calls, the view must reflect the last area.

## 2. Modules

| Module | Models | Kind |
|---|---|---|
| `RowMapBitVector` | bit vectors and row maps (C1, C2) | operators; modelled from the spec |
| `NumericStorage` | `Storage::LinearSearch` / `IndexSearch` (C3) | operators; modelled from the spec |
| `NullOverlay` | the five overlay operations of the null overlay (C4) | operators; modelled from the spec |
| `QueryExecutor` | `FilterColumn`, both strategies, `IndexFilterHelper` (C5, C6) | state machine |
| `MCQueryExecutor` | constants and input sets for TLC | MC module |
| `SystraceParser` | `Parse` and `ParseSingleSystraceEvent` | state machine |
| `MCSystraceParser` | input alphabets and example traces | MC module |
| `LegacyBridge` | `FilterLegacy`: builds storages and null overlays per column, routes each constraint; composes `QueryExecutor` by `INSTANCE` | state machine |
| `MCLegacyBridge` | two-column tables of two and of six rows | MC module |
| `AggregationView` | `createAggregateView` of both UI controllers, split at its awaits | state machine |
| `MCAggregationView` | tracks of every kind and areas over them | MC module |
| `TracedValue` | `WriteIntoTracedValue`: `WriteImpl` priorities and `TraceFormatTraits` specialisations | recursive operators, checked against the documented encoding |
| `MCTracedValue` | every type of depth 2 and its values | MC module |

### QueryExecutor

One behaviour is a caller applying `NumCalls` constraints `cs[1..]` in order to one simple column `col`. The calls start from the row map `rmInit`, as the loop in `FilterLegacy` does.

Variables:
- `rm` is the caller's `RowMap`.
- `pc` is `"idle"` between calls and `"overlays"` inside `IndexedColumnFilter`.
- `toFilter`, `valid`, `countRemoved` and `ov` are the locals of `IndexedColumnFilter`; `ov` is the index of the loop over the overlays.

A row map is modelled as the sequence of its rows in iteration order. This keeps the difference between an ascending row map and an unsorted index vector. Columns are every stack of up to `MaxOverlays` null overlays over `N` rows, with storage values from `Vals`. A row that is null at any level is NULL.

Actions:

| Action | Code |
|---|---|
| `FilterColumnEmpty` | the early return on an empty row map |
| `FilterColumnBounded` | `rm->Intersect(BoundedColumnFilter(...))`; the bounded strategy is straight-line code, so it is one step |
| `FilterColumnIndexed` | `*rm = IndexedColumnFilter(...)`, starting the indexed loop |
| `IndexedFilterDirect` | the indexed strategy called on any row map, the unit-test entry of spec 8.3 |
| `IndexedOverlayAllLookup` | the loop's fast path, when every row needs storage |
| `IndexedOverlayPartition` | the loop's slow path: partition, overlay index search, `KeepAtSet`, append the globals to `valid`, rewrite `current` |
| `IndexedStorageSearch` | storage probe, `KeepAtSet`, append, sort, return |

The strategy test is `UseIndexed`. It keeps the code's constants, 1024 and 0.5. Dividing by a zero `range_size` gives +inf, which never passes the test. A negative difference wraps as a `uint32`.

### LegacyBridge

`FilterLegacy` is two loops. `BuildColumn` is one iteration of the first loop:
- An ineligible column gets an empty slot in both `storages` and `null_overlays`. Ineligible means a string, dummy or id type, or the sorted or dense flag.
- Any other column gets a `NumericStorage` over `storage_base`'s data, plus a `NullOverlay` if it is nullable.

`StartFilter` is `RowMap rm(0, row_count)`. `RowCount(table)` is the length of a column's `sel`, since every column's row map has one entry per table row. Tables of different sizes can therefore share one run, with `N` the largest. For each constraint, one of two actions runs:
- `FilterLegacyRoute` applies the legacy filter in one step. It is taken when the column has no storage, the value type differs, or the column's row map does not cover `storage_base` one to one (a row selector).
- `FilterColumnRoute` binds the `SimpleColumn`. Then `FilterColumnStep` runs `QueryExecutor`'s own steps, through `INSTANCE`, until the call returns.

A column record carries:
- its `storage_base` buffer: `S` elements, the set `nonNull` and one value per non-null element;
- `sel`, the `storage_base` index of each table row, and `iv`, whether the column's row map is an index vector;
- `dense`, whether a nullable column's `storage_base` keeps a slot for every row (`Column::FilterInto` then reads `data[row]` rather than counting the non-null rows before it).

The variable `build` is `"debug"` or `"release"`, from the constant `Builds`. The check at line 265 that a bound column's row map is not an index vector is a `PERFETTO_DCHECK`:
- in a debug build, `DcheckFails` models the abort (`phase` becomes `"aborted"`), and `FilterColumnRoute` is taken only when the check passes;
- in a release build, the check is compiled out and `FilterColumnRoute` is taken for an index-vector column too.

### AggregationView

One behaviour is a caller making up to `MaxCalls` calls of `createAggregateView` on each controller, counter and slice. The caller lets up to `MaxPending` calls of one controller be in flight at once.

Variables:
- `view[c]` is the view named after controller `c`: `NoView`, or the track ids and area span it was created from. The SQL text is abstracted to these, because they are all the query depends on.
- `calls[c]` is every call made so far, with its area and where it is: awaiting the drop, awaiting the create, or returned true, false or rejected.

Actions:

| Action | Code |
|---|---|
| `Call` | the call, up to `await engine.query("drop view if exists ...")`; the drop takes effect here |
| `AfterDrop` | the code after the first await: select the track ids (`CounterTrackIds`, the loop at lines 29-38; `SelectedTrackIds`, `getSelectedTrackIds`), return false if there are none, else issue `create view`. The create fails if the view exists, and the await then throws (`"rejected"`) |
| `AfterCreate` | the code after the second await: return true |

Two things are outside this tree, and the model assumes the following about them:
- **The engine.** It runs one query at a time in the order the queries were issued. So a query takes effect at the step that issues it, and the continuation after its `await` may run at any later point.
- **The track registry (`globals.state.tracks`).** It is constant.

### TracedValue

`WriteIntoTracedValue` is resolved at compile time, so it is modelled as operators. A type is a kind (int, unsigned, bool, char, const char, double, signed or unsigned enum, `std::string`, `char[N]`, `nullptr_t`, a class with a member writer, a lambda, a class with no conversion) or a pointer, `unique_ptr` or vector of a type. A type can also be the callable of the header's example (comment lines 67-81; `WriteImpl` at priority 2, lines 277-282, only calls it), `dictlambda`. It captures one value of a supported type, calls `WriteDictionary`, and `Add`s the value. The write is `CallDictLambda`, `WriteImpl` at priority 2 calling it. `Add` is `DictAdd`: `AddItem`, the value's own write, and the end of the item's `TracedValue`. A callable whose captured type has no conversion would not compile, so the MC module builds `dictlambda` only over supported types.
- `Priority` is the `WriteImpl` overload that overload resolution picks.
- `Traits` is the `TraceFormatTraits` specialisation chosen at priority 3. A matching full specialisation wins over the partial ones.
- `Supported` is `has_traced_value_support`.
- `WriteIntoTracedValue` and `WriteTraits` produce the tree of `Write*` calls.

The written tree is a sequence of scope calls: `WriteArray` opens an array, `AppendItem` opens an item scope, `End` closes the innermost scope, and every other `Write*` consumes the current value scope. `ScopesRespected` replays the sequence over a stack of live scopes and requires each write to land in an open value scope and the outer value to end written.

The operators are mutually `RECURSIVE`, because pointers, `unique_ptr`s and containers write their contents through the same dispatch. Whether `char` is signed depends on the platform, so both builds are explored.

The reference, `DocumentedEncoding` and `DocumentedSupport`, is written per kind from the header's comments, with no priorities or specialisation matching.

### SystraceParser

The byte stream is abstracted to tokens:
- `LT`: a `<` that opens no marker, as in `<idle>`.
- `START`: the trace-data `<script>` marker.
- `END`: `</script>`.
- `HASH`: `#`.
- `NL`: a newline.
- Event bodies: names whose fields `EventInfo` gives. The fields record what the code's `find` calls locate: a tgid group, a `[`, a `(` after the `[`, whether cpu, ts and args convert, and the event name.

Chunks are cut between tokens. Lines are examined only after their newline has arrived, so a cut inside a marker reaches the same states as a cut beside it. The one exception is the first byte, and every marker starts with `<`, so the first byte is still seen correctly.

Each `Parse()` call is one action:
- `ParseChunk`: append the chunk, decide the format on the first call (`FormatOf`), run the line loop (`ScanLines`), and trim or clear the buffer (`BufferAfterScan`).
  - Chunk sizes range over `MinChunk..MaxChunk`. With `MinChunk = 0` a first call may be empty. The code then reads `partial_buf_[0]` of an empty vector (line 74), which is undefined; `FirstByteFormats` lets that read select either format.
- `ParseAfterEnd`: the early return once `</script>` has been seen.

`FairSpec` adds weak fairness on `Next`. The trace reader hands every chunk of the file to `Parse()` until the file ends, so a parser that can still take a step eventually does.

`ParseSingleSystraceEvent` is an operator. It returns the tracker calls that a line causes. Its pid extraction is modelled by what it does: `PidEnd` is the delimiter where the code stops the pid substring, and `StringToUInt32` accepts the substring only if it holds the pid alone.

## 3. Runs

| Run | Config | Bounds | Checks |
|---|---|---|---|
| `exec_stack` | `MCQueryExecutor_stack.cfg` | 4 rows, stacks of 0-2 null overlays, values {0,1}, all 8 ops against 1, every row map, one call | `TypeOK`, `FilterMatchesLegacy`, `IndexedBookkeeping` |
| `exec_chain` | `MCQueryExecutor_chain.cfg` | 6 rows, 0-1 overlay, all 8 ops against 1, two calls starting from the whole table | same |
| `bridge` | `MCLegacyBridge.cfg` | debug build; 2 columns; two-row tables whose columns are each plain, nullable, dense nullable, row-selected (skipping storage_base element 1 of 3), reversed index vector, or string over every buffer; six-row tables whose first column keeps rows {0, 5} and whose second is of any of those kinds over end-and-middle buffers; 2 constraints on either column | `TypeOK`, `BridgeMatchesLegacy` |
| `bridge_release` (violation) | `MCLegacyBridge_release.cfg` | same, release build | `BridgeMatchesLegacy` |
| `traced_dispatch` | `MCTracedValue.cfg` | every type of depth at most 2 that holds no `unique_ptr<const char>`, over 14 leaf kinds and pointer, `unique_ptr`, vector and dictionary-callable wrappers; pointers null or not; vectors of 0-2 elements; both char signednesses | `WritesDocumentedEncoding`, `WritesRespectScopes` |
| `traced_uptr` (violation) | `MCTracedValue_uptr.cfg` | same | `UniquePtrWritesPointee` |
| `systrace_chunks` | `MCSystraceParser_chunks.cfg` | every stream of 1-5 tokens over {LT, START, END, HASH, NL, one event}; chunked every way | `TypeOK`, `ChunkingPreservesLines` |
| `systrace_empty` (violation) | `MCSystraceParser_empty.cfg` | as `systrace_chunks`, chunks of 0-5 tokens | `ChunkingPreservesLines` |
| `systrace_tail` (violation) | `MCSystraceParser_tail.cfg` | the example traces plus one whose last line has no newline; `FairSpec` | `EveryLineEventuallyParsed` |
| `systrace_pid` (violation) | `MCSystraceParser_pid.cfg` | the two example lines of the code's comment, each after a `# tracer` header | `EventThreadsCreated` |
| `agg_serial` | `MCAggregationView.cfg` | both controllers; 5 tracks (counter, slice, async slice, group, counter without ids); 8 areas (4 track sets by 2 spans); 3 calls each; one call in flight | `TypeOK`, `ViewMatchesLastArea` |
| `agg_overlap` (violation) | `MCAggregationView_overlap.cfg` | the counter controller, 2 calls, both may be in flight | `ViewMatchesLastArea` |

### What each property says

- **`FilterMatchesLegacy`.** Between calls, `rm` is exactly the ascending list of initial rows that satisfy every constraint applied so far, under the legacy semantics. This covers spec properties 8.1, 8.2, 8.3 (every strategy is checked against the same reference), 8.6 (the reference does not depend on order), 8.7, and the sortedness the next call relies on. Breaking it takes a wrong range end, a wrong lifting order, a lost sort or a wrong overlay rewrite. Some of these show only with two overlays, or on a second call.
- **`IndexedBookkeeping`.** At every pass of the overlay loop:
  - every row of `rm` is in exactly one of `valid`, the helper, or the removed count. This is the `PERFETTO_CHECK` at line 222, generalised to every step;
  - every row in `valid` matches the constraint;
  - each `(current, global)` pair links a row to the element it reaches through the overlays passed so far. This is the pairing that spec section 9 calls load-bearing.
- **`BridgeMatchesLegacy`.** Between constraints, `FilterLegacy`'s row map is exactly the ascending list of rows that satisfy every constraint so far under `Column::FilterInto`. This holds whichever route each constraint took. It fails if the bridge hands `FilterColumn` a column whose storage or overlay does not match the column, for example a row-selected column or a nullable column without its overlay.
- **`TypeOK` (bridge).** Slot `i` of `storages` and `null_overlays` belongs to column `i`: it holds a storage exactly when column `i` is eligible, and a null overlay exactly when that column is also nullable. The vectors are indexed by `col_idx`, so a column that gets no slot shifts every later column.
- **`WritesDocumentedEncoding`.** Every type is written as the header documents. A `std::string` or `char[N]`, which is also iterable, is written as a string. Pointers and `unique_ptr`s are written as null or their pointee, as the comment on the `unique_ptr` specialisation (lines 541-542) says, containers as arrays, and `const char*` as a string. The fallback string is written exactly for the types without a conversion. A `std::vector<bool>` is one of them: its elements, `*std::begin`, are `std::vector<bool>::reference` proxies, which have no `TraceFormatTraits`, so the iterable overload is not viable. The run leaves out the types holding a `unique_ptr<const char>`, whose disagreement with that comment is the question of `traced_uptr`.
- **`UniquePtrWritesPointee`.** A non-null `unique_ptr<T>` is written as the object it points to, as the comment on its specialisation says.
- **`ChunkingPreservesLines`.** After any sequence of chunks, the lines handed to `ParseSingleSystraceEvent` are exactly the event lines of the complete lines delivered so far: after the HTML prologue, before `</script>`, and not starting with `#`. The reference is written directly on lines, independent of the line loop. An unfinished line also stays whole in `partial_buf_`.
- **`EveryLineEventuallyParsed`.** Once the whole trace has been delivered, every event line of it, the last one included even without a trailing newline, is eventually handed to `ParseSingleSystraceEvent` and stays so.
- **`WritesRespectScopes`.** Every write lands in an open value scope, every array item is opened with `AppendItem` and every dictionary item with `AddItem`, only on an active array or dictionary, and each is closed with `End`, and the outer `TracedValue` is consumed exactly once.
- **`ViewMatchesLastArea`.** Once no call of a controller is in flight, its view is the one the last area gives. There is no view if the area has no tracks of the controller's kinds, because the drop comes before the early return. Otherwise the view is made from that area's track ids and span. Breaking it takes a skipped drop, a lost early return or create, or two calls whose steps interleave.
- **`TypeOK` (aggregation).** An existing view was made from at least one track id. The early return for an empty selection is what keeps an empty view from being created.
- **`EventThreadsCreated`.** Every handed-over event line in the documented format gets its thread created.

### Bounds, and why they are enough

- **`exec_stack`.**
  - Two overlays are the smallest stack in which the lifting order and the cross-overlay order of `valid` matter.
  - Four rows allow null and non-null rows at both levels on both sides of a range.
  - Values {0,1} compared with 1 under all eight ops select none, all, only 0 or only 1.
  - The indexed strategy runs on every row map through `IndexedFilterDirect`.
- **`exec_chain`.** Six rows is the smallest table in which `FilterColumn` itself picks the indexed strategy (row map {0, 5}). This run reaches that case from the whole table, as `FilterLegacy` does.
- **`systrace_chunks`.**
  - Five tokens allow a prologue line, a marker line and an event line, or an event line split in any place.
- **`agg_serial`.**
  - The areas select tracks of the counter controller only, the slice controller only, both, or neither. The neither case is a track group plus a counter track without ids.
  - Two spans make a repeated track set a different view.
  - Three calls allow a view, then an empty selection, then a view again.

- **`bridge`.**
  - A row-selected column of two rows over three `storage_base` elements, and a nullable column, are the two shapes the bridge must route or bind correctly.
  - Two constraints on two columns mix the routes in both orders.
  - With two rows, `FilterColumn` always takes the bounded strategy. The six-row tables are the smallest on which it takes `IndexedColumnFilter`: two rows of a row map {0, 5} make `size / range_size` 2/5, under 0.5. Smaller ones never qualify: {0, 4} gives exactly 0.5, and one row gives +inf.
  - A first constraint on either column can leave {0, 5}. The second can then go through the indexed strategy, with or without the `NullOverlay`, after either route. That includes a legacy `FilterInto` on a row-selected column followed by an indexed `FilterColumn` on a nullable one.
  - Buffers of six-row columns hold one value at both ends and one in between. The indexed strategy is reached only on rows {0, 5}, and the bounded one treats the four middle rows alike. A buffer whose middle values differ would therefore exercise no further branch.
- **`bridge` reversed column.** An index vector over three `storage_base` elements in descending order is the smallest row map that is neither a range nor ascending, and so the one `FilterColumn` misreads.
- **`traced_dispatch`.** Depth 2 reaches every pairing of a specialisation with a pointer, `unique_ptr` or container around it, for example `vector<const char*>`, `vector<bool>`, `unique_ptr<int*>` and `int**`; `traced_uptr` checks `unique_ptr<const char>` on its own.

### Fairness

`AggregationView`'s `Spec` has weak fairness on `Next`: an issued query is eventually answered and its `await` resumes. No run depends on it.

`QueryExecutor`'s and `LegacyBridge`'s `Spec` have weak fairness on `Next`. `FilterColumn` and `FilterLegacy` are plain function calls that never suspend (spec section 5). No run of theirs checks a liveness property: a call is a finite loop, so that it returns would hold by the shape of the model.

`SystraceParser`'s `FairSpec` has weak fairness on `Next`: the reader keeps calling `Parse()` until the file is read. `EveryLineEventuallyParsed` uses it.

### Deadlock

Every state machine stops once its input is used up: all calls made and returned, or all chunks delivered. Their configs therefore say `CHECK_DEADLOCK FALSE`. The `TracedValue` runs make one call per behaviour.

## 4. Findings

`systrace_pid`: `ParseSingleSystraceEvent` sets `pid_end = has_tgid ? cpu_idx : tgid_idx`, at line 137.
- With a tgid group, the pid substring runs up to the `[` and includes `(-----)`.
- Without one, it runs to a later `(` or to the end of the line, and includes `[000] ...`.

In both cases `StringToUInt32` rejects the substring. So both line shapes documented in the comment at lines 113-117 are rejected with "Could not convert pid". No systrace text event reaches a tracker.

A second fault sits behind this one. `cpu_idle` tests `event_cpu.has_value()` twice (lines 228 and 231) and never tests `new_state`. An unconvertible `state=` therefore reaches `new_state.value()` on an empty optional. The model records this as the call `PushCounterOfEmptyState`. It cannot be reached until the pid fault is fixed.

A second finding comes from `traced_uptr`. `TraceFormatTraits<std::unique_ptr<T>>` writes `value.get()`, at line 547. So a `std::unique_ptr<const char>` reaches the `const char*` specialisation and is written with `WriteString`, as a NUL-terminated string. The comment at lines 541-542 says a `unique_ptr` writes "either nullptr or the object it points to", which for one `char` is its integer value. Reading a lone `char` as a C string also reads past the object.

`bridge_release`: `FilterLegacy` checks that a bound column's row map is not an index vector with `PERFETTO_DCHECK` (line 265), which a release build compiles out. A release build therefore hands `FilterColumn` a column whose row map is an index vector. `FilterColumn` bounds it by `Get(0)` and `Get(size-1)` as if it were an ascending range, and filters a descending index vector to the wrong rows. The debug run `bridge` passes; the release run shows the different result.

`systrace_empty`: an empty first chunk makes line 74 read `partial_buf_[0]` of an empty vector. If that read yields `<`, a plain trace is read as HTML, and every line before a `<script>` marker that never comes is dropped.

`systrace_tail`: `Parse()` hands over a line only after its newline, and the class has no end-of-file hook that flushes `partial_buf_`. A trace whose last line has no newline loses that event. `NotifyEndOfFile` is not in this tree, so this is recorded as a gap rather than a bug.

`agg_overlap`: `createAggregateView` drops the view, awaits, and creates it after a second await. Nothing in the function stops a second call from running in between. If the caller starts a call while an earlier one is in flight, the following can happen:
1. Both drops run.
2. The earlier call creates its view.
3. The later call's `create view` fails on it, and the call throws.
4. The view keeps showing the earlier area.

Whether calls can overlap is decided by `AggregationController`, which is not in this tree. This is recorded as a gap: `agg_serial` shows the function is correct when the caller serialises it.

## 5. Not modelled, and why

- **Storage, overlays, row maps, bit vectors.** Their code is not in this tree. They are modelled from the spec, and `PROJECT.json` marks them `spec_modelled`.
- **`NumericStorage` size for nullable columns.** `FilterLegacy` passes `storage_base().size()` (line 244), and whether that counts null rows is decided outside this tree. The model follows the spec: a storage holds one element per non-null row.
- **The `cpu_idle` double check.** Lines 228 and 231 are reachable only past the pid rule of line 137, which rejects every documented line. The model keeps the code's order and records the read as the call `PushCounterOfEmptyState`. No property is checked on it: with the pid rule as it stands no line gets there, so one would hold only because of that earlier bug, which `systrace_pid` reports.
- **SQL text, column definitions, tab names and default sortings of the UI controllers.** These are formatting. The view is abstracted to the track ids and span it is made from.
- **The track registry during an await.** `globals.state.tracks` is read after the drop's await, so a track added or removed during the await changes the view. The registry is changed by UI code outside this tree, and nothing says which registry the view should use. It is held constant.
- **The run-time half of `TracedValue`.** `TracedValue`, `TracedArray` and `TracedDictionary` check consume-once use through `internal::CheckedScope`, and the `Write*` bodies live in `traced_value.cc`. Neither is in this tree. The order of scope calls the dispatch makes is modelled (`WritesRespectScopes`). No specialisation in this header writes a dictionary, so dictionaries enter only through the example callable. Other user callables and member writers are opaque (`Node("Custom")`), because their bodies are the user's. The example writes `dict->Add` and, in `Foo`, `dict->Set`. `TracedDictionary` has no `operator->` and no `Set`, so the model follows the class, not the comment's spelling.
- **A null `const char*`.** The `const char*` specialisation passes it to `WriteString` without the null check of the raw-pointer specialisation. The header does not say what a null C string should be written as, and `WriteString`'s body is in `traced_value.cc`. So there is no statement to check it against; the model records that the string path is taken.
- **`AggregationController`, the caller of the UI controllers.** It is not in this tree. How many calls it lets overlap is a constant (`MaxPending`), and both settings are checked.
- **The build file and the UI unit test.** They contain no behaviour.

## 6. Plan

The order below follows the importance of each behaviour to the system.

1. **Done.** `QueryExecutor` with storage, null overlay and row-map operators: agreement with the legacy filter, and the indexed bookkeeping.
2. **Done.** `SystraceParser`: chunking invariance, and the pid finding.
3. **Done.** `LegacyBridge`, composing `QueryExecutor`.
4. **Dropped.** An `AbstractFilter` refinement. Every step of the indexed loop leaves `rm` alone, so its safety half is `FilterMatchesLegacy` again, and its liveness half holds for any finite loop.
5. **Done.** `TracedValue` dispatch, and the `unique_ptr<const char>` finding.
6. **Done.** The refinement over two calls (in `exec_chain`), where `FilterColumn` itself picks the indexed strategy.
7. **Done.** `AggregationView`: both controllers with a serialising caller (`agg_serial`), and with overlapping calls (`agg_overlap`).
8. **Done.** `SystraceParser`: the empty first chunk, the last line without a newline, and the `cpu_idle` double check. The double check is masked by the pid rule, so it is modelled but carries no property.
9. **Partly done.** The scope-call order of the dispatch, including dictionaries written through `TracedDictionary::Add` by the header's example callable. The run-time consume-once check is enforced by `CheckedScope`, which is not in this tree.
10. **Done.** The release-build route of `FilterLegacy` (`bridge_release`).
11. **Done.** `FilterLegacy` into the indexed strategy. Six-row tables in `bridge` make `FilterColumn` take `IndexedColumnFilter`, after either route.
