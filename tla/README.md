# TLA+ models of trRouting's Calculator reset and batch OD engine

trRouting is a transit router built on the Connection Scan Algorithm (CSA).
This directory holds TLA+ models of the parts of it whose sources are in
`src/`, the TLC configurations that check them, and `PROJECT.json`. That file
lists every component, run, mutant, source mapping, finding and hazard.

## The system and its parts

| Part | Source | Role | Status |
|---|---|---|---|
| `Calculator::reset` | `src/connection_scan_algorithm/src/resets.cpp` | Prepares one Calculator for a query. It clears per-query scratch arrays, sets the departure/arrival anchors, resolves the access and egress footpaths (from the OD trip, else the parameter lists, else the OSRM walk oracle), writes the access/egress labels and min/max walk times, and, when filters are reset, recomputes the trip mask and zeroes connection demand. | modelled (`Reset`) |
| `Calculator::odTripsRouting` | `src/connection_scan_algorithm/src/od_trips_routing.cpp` | The batch OD engine. It shuffles the OD population (when 0 < ratio < 1), takes a sample of ceil(N·ratio), keeps the indices of its own shard (`i % batchesCount == batchNumber - 1`), filters by person/trip attributes and periods, routes each OD trip (`calculate`, which calls `reset`), and accumulates line profiles, per-path per-segment hourly and total profiles, connection demand, segment maxima and total travel time. | partly modelled (`OdTripsRouting`) |
| Result visitors | same file, lines 18-142 | Turn a routing result into JSON and hand back its legs and total travel time. | partly modelled (`ResultToOdTripJson` in `OdTripsRouting`); the step visitor is formatting |
| `CacheFetcher` | `src/src/cache_fetcher.cpp`, `src/include/cache_fetcher.hpp` | Loads stops, routes, trips, connections, footpaths and OD trips from cache files. It builds id-to-index maps. | modelled (`CacheFetcher`) |
| `Toolbox::convertSecondsToFormattedTime` | `src/include/toolbox.hpp` | Formats seconds as HH:MM. | modelled (`Toolbox`) |
| CSA kernel, journey reconstruction, `calculate` | not in `src/` (spec.md 4.D-4.E) | Forward/reverse scan and reconstruction. | not modelled |

How they interact: a batch worker owns one Calculator. For each OD trip of
its shard it calls `calculate(odTripParameters, true, resetFilters)`. That
call runs `reset` on the Calculator's scratch and then the kernel. The
worker passes `resetFilters = true` until the first OD trip is routed
successfully. After that the trip mask and the accumulated connection demand
survive from one OD trip to the next. A worker can only add demand correctly
if `reset` never zeroes the demand after that point. Several workers
(`batchNumber` 1..`batchesCount`) run the same loop over the same shuffle
(same seed), each on its own Calculator.

## Modules

### `Reset.tla`

- **State:** `calc[w]` is one record per worker, holding the Calculator's
  fields that `reset` writes: params, odTrip, access/egress footpaths, the
  four node arrays, forward/reverse journeys, the anchors, the four min/max
  values, `tripsEnabled` and `tripConnectionDemands`.
- **Journeys:** a journey is kept as its walk field only, because `reset`
  writes -1 into every other field.
- **Abstracted scratch:** arrays that `reset` only fills with a sentinel and
  no modelled step reads (tripsUsable, enter/exit connections) are left out.

The whole of `reset` is the pure operator `ResetCalc`:

1. `ClearScratch`: lines 15-67.
2. `ResolveAccessFootpaths` and `ResolveEgressFootpaths`: lines 71-103 and
   131-158. The `i` that is never advanced is modelled by `PairedFootpaths`.
3. `ApplyAccessFootpaths` and `ApplyEgressFootpaths`: lines 108-126 and
   163-181, a fold over the list in order.
4. When `resetFilters` is set:
   - `FilteredTrips` and `CodeTripEnabled`: lines 30-33 and 210-292;
   - `ZeroDemands`: lines 200-207.

The action `ResetQuery(w, ...)` applies it to worker `w`. Its inputs are:

- a query from `ParamsChoices`;
- an OD trip, or none;
- an oracle answer from `OsrmFootpaths`;
- the two flags.

Its guards encode the contract that callers of `reset` keep:

- a Calculator's first reset resets both footpaths and filters;
- footpaths are reused only for the same OD trip and footpath inputs;
- filters are reused only for the same scenario lists.

Walking speed is the rational `<<num, den>>`. `WalkSeconds` is the exact
ceiling of `w·den/num`, which is what `ceil(w / factor)` gives for the values
used.

### `OdTripsRouting.tla` (EXTENDS `Reset`)

- **State:** the shuffle `odTripIndexes`, shared by all workers. Each worker
  `w` has its own loop index `i[w]`, phase, `resetFilters` and aggregates,
  the output list `odTripsJson[w]` and `status[w]`.
- **Init (`BatchInit`):**
  - any permutation when 0 < ratio < 1 (the seeded `std::shuffle` is a fixed
    but unknown permutation), else the identity;
  - a worker whose OD population is empty is already `returned` (line 195).
- **Actions** (one loop iteration each):
  - `SkipOtherShard`: lines 221-228. `odTrip` is set, then the loop continues
    without reaching the break test.
  - `SkipUnselected`: lines 235-264 fail.
  - `RouteFound`: lines 286-348. It runs `reset` (`CalculateReset`),
    `Accumulate` (lines 309-348, a fold of `AddLeg` and `AddConnection`),
    sets `resetFilters := FALSE` and appends to the output.
  - `RouteNotFound`: lines 350-366. The reset has happened, then
    `NoRoutingFoundException` is thrown.
  - `Finish`: lines 376-415.
  - The break of lines 370-373 is `NextIteration`, shared by the three
    actions that reach it.
- **Kernel:** the kernel's answer for each OD trip is the constant
  `RouteResult[o]`, either `NoRouting` or `[legs, totalTravelTime]`. A leg
  is `<<trip, line, path, first connection, last connection>>`.
- **Result visitor:** `CalculateResult(o)` is what `calculate` returns for
  a routable OD trip: a single result with its legs and travel time.
  `calculate` is not in these sources. The batch passes
  `isWithAlternatives()` on to it (line 296), but nothing here says what it
  returns then, so the model does not ask for alternatives. `ResultToOdTripJson` is
  `ResultToOdTripJsonVisitor`: a single result gives a success record, its
  legs and its travel time; any other result gives an empty record and no
  legs. `RouteFound` takes the record status, the legs and the travel time
  from it, as the code does through `getLegs` and `getTotalTravelTime`.
- **Demand values:** expansion factor / ratio and every sum built from it
  are exact rationals, kept as integers in units of
  `1/DemandUnit = 1/(EfScale·RatioNum)`. Float rounding of demands is not
  modelled; the int truncation of `totalTravelTimeSeconds` is.

### `BatchSample.tla`: what the batch promises

The abstract specification of the batch (spec 4.F). Its state is the
`sample`, the set of OD trips `reported[w]` by each worker, and
`finished[w]`. `Report(w, o)` reports an OD trip of the sample that no
worker has reported yet, and `Finish(w)` ends a worker. Weak fairness on
`Finish(w)` says every worker ends. Because `Finish(w)` stays enabled until
`w` finishes, that fairness equals `Termination`, `<>finished[w]` for every
`w`.

`OdTripsRouting` instantiates it with this refinement mapping:

- `sample` is `SelectedSample`;
- `reported[w]` is the set of OD trips in `odTripsJson[w]`;
- `finished[w]` holds when `phase[w]` is `done` or `returned`.

The property `BatchImplementsSample` is `Sample!SafeSpec /\ Sample!Termination`.
Shard skips and filtered OD trips are stuttering steps of the abstract
specification. A routed or unroutable OD trip is a `Report`.

### `CacheFetcher.tla`

- **State:** `file` holds the cache files as found when loading starts. A
  file is `Missing` (absent or empty) or a sequence of records. `stage` is
  the next loader. `net` holds the vectors and id maps returned so far.
  `messages` records the entity name each "missing ... cache file!" line
  prints.
- **Actions:** one per loader, in the order the callers use: `GetStops`,
  `GetRoutes`, `GetTrips` (all through `LoadIndexed`), `GetConnections`,
  `GetFootpaths` and `GetOdTrips`. `IndexById` is the loop of lines 16-33:
  it pushes each record, then sets `map[id] = size - 1`. `GetOdTrips` reads
  the OD trips and their id map from two files, each checked on its own.
- **Records:** a record keeps only what the loaders and properties tell
  apart, an id and a tag for copies of one id. Connections and footpaths
  keep their stop and trip indices.

### `Toolbox.tla`

`ConvertSecondsToFormattedTime(t)` is line 18-19 with exact integers:
`hour = t \div 3600` and `minute = ceil(t/60 - 60·hour)`. For the values
used, the float arithmetic is exact, so integers give the same results. A
counter `seconds` walks 0..`MaxSeconds`, and `formatted` holds the result
for each value, so every input is checked.

## Runs

| Run | cfg | Expect | What it shows |
|---|---|---|---|
| reset_scratch | `MCReset.cfg` | pass | Two Calculators take any sequence of resets, with forward and reverse queries, OD or parameter or oracle footpaths, footpath and filter reuse, and a duplicated node in one oracle answer. Afterwards every node label, tentative time, journey walk and min/max bound describes the current query only (`ScratchMatchesFootpaths`). |
| reset_access_times | `MCResetAccessTimes.cfg` | violation | An OD trip with origins 0 (4 s) and 1 (9 s) gets access time 4 at node 1: the loop index is never advanced (resets.cpp:85). |
| reset_node_filter | `MCResetTripMask.cfg` | violation | `onlyNodesIdx = {2}` disables both trips, though both serve node 2, because the node lists are compared with `modeIdx` (resets.cpp:238, 270). |
| batch_aggregates | `MCOdTripsRouting.cfg` | pass | Also checks that the batch refines `BatchSample` (`BatchImplementsSample`): no OD trip is reported twice or from outside the sample, and every worker finishes. The per-path hourly cells sum to the path totals (`PathTotalEqualsHourlySum`). Covers all 720 shuffles of 6 OD trips at ratio 5/6 (sample 5), split between 2 workers. In every order, `ShardsPartitionSample` holds: the shards are disjoint, lie inside the selected sample and cover it when all are done. Also, per worker: connection demand equals the weighted legs of its routed OD trips (`DemandMatchesRoutedLegs`); line profiles sum to the weighted leg counts (`LineProfilesSum`); and the segment maxima are the maxima of the hourly and total profiles (`MaxSegmentDemandIsMaximum`). |
| batch_sample_size | `MCOdTripsSampleSize.cfg` | violation | With `odTripsSampleSize = 2`, worker 1 handles the third shuffled OD trip (an unroutable one, which gets a no-routing record): the break tests the global index, and only on the worker's own indices (od_trips_routing.cpp:370). |
| batch_travel_time | `MCOdTripsTravelTime.cfg` | violation | Worker 1 routes OD trips weighing 603 s × 1.2 = 723.6 s and 901 s × 0.6 = 540.6 s. It records 723 + 540 = 1263 where the weighted sum rounds down to 1264: the int accumulator drops the fraction of every product (line 311). |
| batch_late_hour | `MCOdTripsLateHour.cfg` | violation | A connection departing at 29:00 (104400 s) has hour 29, past the 29-entry vector. The write is undefined behaviour, modelled as lost to the hourly profile. The path total then exceeds the sum of its hourly cells (line 336; spec 9.1 asks for such hours to be rejected). |
| cache_index_maps | `MCCacheFetcher.cfg` | pass | Covers every combination of present and missing files, and a stops file that repeats an id. Each id-map entry names the 0-based position of a record with that id (`IndexMapsPointToTheirRecord`). |
| cache_missing_file | `MCCacheMissingFile.cfg` | violation | With the stops, trips or OD trips file missing, the other loaders still run. Connections, footpaths and the OD trip id map then index empty vectors (line 37, line 214). |
| toolbox_rounding | `MCToolbox.cfg` | pass | Over 0..7300 s, HH:MM is the time rounded up to the minute and the minute never exceeds 60 (`FormattedTimeRoundsUp`, `ToolboxTypeOK`). |
| toolbox_clock_time | `MCToolboxClockTime.cfg` | violation | 3541 s formats as 00:60: `ceil` rounds 59.0166 up without carrying into the hour (toolbox.hpp:19). |

Every property of a passing run has a mutant in `PROJECT.json`. A mutant is
a plausible bug in the mapped code that TLC must catch:

- a trip disabled with 0 instead of -1;
- tentative times not cleared;
- the loop bound written `<=`;
- the shard test without `- 1`;
- `resetFilters` left true after a success;
- the line profile bumped per connection;
- the total maximum compared with the hourly cell;
- the hour taken as minutes;
- every worker taking every index (no shard test);
- the id map taken before `push_back`, or as `size()` after it;
- the minute computed from the whole time, or with `floor`.

## Bounds and why they are enough

- **MCReset:**
  - 3 nodes and 2 trips, on different lines and modes, with path node sets
    that differ;
  - one OD trip with two origins with different walks, which is what
    exposes the index bug;
  - three oracle answers: empty, one node, and a node repeated;
  - two queries, forward and reverse, with different walking speeds; the
    reverse query excludes a line, so the mask must be refilled when the
    forward query follows;
  - 2 workers;
  - depth 4 already reaches every pair of consecutive queries on a
    Calculator in every reuse mode.
- **MCOdTripsRouting:**
  - 6 OD trips. One is unroutable (exercising the no-reset path). One is
    filtered by period, departing exactly at the exclusive period end.
    Four are routed, with fractional expansion factors; one of them has two
    legs on two lines and paths.
  - Trips 0 and 1 share path 0's segment 1 at hours 10 and 12, so a
    segment's total differs from its hourly cells.
  - Ratio 5/6 gives shuffling and a sample (5) smaller than the population.
  - 2 workers give shard skips on both sides and uneven shards: worker 1
    takes sample indices 0, 2 and 4, and worker 2 takes 1 and 3.
  - Three indices on one worker give a shard where a no-route falls
    before, between or after successes, so demand must survive the reset
    inside every later `calculate`.
  - All 720 shuffles are explored, so every order of routed, unrouted and
    filtered OD trips within a shard occurs.
- **MCCacheFetcher:** a stops file that is missing, holds two stops, or
  holds two stops and a second copy of the first id. Each other file is
  missing or present. Connections and footpaths use indices 0..1, so they
  are in range exactly when the stops and trips are loaded.
- **Toolbox:** 0..7300 s covers two hour boundaries and every minute
  boundary inside them, including 3541..3599 and 7141..7199.

## Fairness

`BatchSpec` puts weak fairness on each worker's loop step, `WorkerStep(w)`.
The loop is sequential code with no blocking call other than the kernel,
which returns or throws (spec 5). The fairness is written out as
`[]<>~CanStep(w) \/ []<><<WorkerStep(w)>>_vars`. `CanStep(w)` (phase `loop`
or `exit`) is the state predicate that `ENABLED WorkerStep(w)` equals: in the
loop, the shard, selection and route guards cover every case. Writing it
this way keeps TLC from evaluating `reset` inside `ENABLED`. The liveness
part of `BatchImplementsSample` is checked under this fairness.

`Reset`'s `Spec` has no fairness: queries arrive when a caller asks. The
loaders and the toolbox counter check safety only.

Deadlock checking is off in the batch, loader and toolbox runs. Each of
them really ends: the batch when every worker is `done`, the loaders after
the last one, and the counter at `MaxSeconds`. The reset run checks
deadlock, since a query can always come.

## Not modelled, and why

- **The CSA kernel, reconstruction and `calculate`:** not in `src/`. Their
  outcome per OD trip is an input.
- **JSON formatting of results:** pure formatting. This covers `StepToOdTripJsonVisitor`, which copies the names and uuids of boarding and unboarding steps, and every record field but `status`.
- **Batches with alternatives:** what `calculate` returns when
  `isWithAlternatives()` is set is decided outside `src/`. The visitor's
  alternatives branch (line 120) is kept in `ResultToOdTripJson`, but no
  run reaches it.
- **Overflow of `totalTravelTimeSeconds`:** it needs sums beyond TLC's own 32-bit integers.
- **Float rounding:** of demand sums and of the sample-size ceiling (listed
  as a hazard). The toolbox's float arithmetic is exact for the inputs
  checked.
- **The stale `odTrip` member (od_trips_routing.cpp:222):** after a batch,
  the Calculator still points at the last OD trip of the sample. Nothing in
  `src/` clears it or issues a single query afterwards, so the composition
  of a batch and a later query cannot be modelled from the code. It is
  listed as a hazard.
- **`saveToCacheFile`:** it has no caller in these sources.
- **Torn or truncated cache files:** `saveToCacheFile` truncates the
  file and writes it in place, and `cacheFileExists` only tests for a
  non-empty file. A save that crashes can leave a file that makes boost's
  archive throw on load. There is no caller of the save in `src/`, and the
  throw is boost's, so the loaders take a file as missing or whole. This is
  listed as a hazard.
- **The float sample size:** it depends on the type of
  `odTripsSampleRatio`, declared outside `src/`. With a float, 25 OD trips
  at 0.6 give a sample of 16 rather than 15. This is listed as a hazard.
- **Logging, benchmarking and timing.**

## Further work

- **The CSA kernel, from the spec:** the forward scan as a module, with a
  RECURSIVE reference definition of earliest arrival over a small
  timetable. The kernel is not in `src/`, so it would be entirely
  spec-modelled.
