---------------------------- MODULE OdTripsRouting ----------------------------
(***************************************************************************)
(* Calculator::odTripsRouting (connection_scan_algorithm/src/               *)
(* od_trips_routing.cpp): the batch OD engine, run by BatchesCount workers  *)
(* (worker w has batchNumber w), each with its own Calculator (calc[w] of   *)
(* module Reset).  All workers shuffle the OD indices with the same seed.  *)
(*                                                                          *)
(* One step is one iteration of the loop of lines 218-374.  The routing of *)
(* an OD trip, calculate(odTripParameters, true, resetFilters), is the      *)
(* Calculator::reset of module Reset followed by the CSA kernel, whose      *)
(* outcome for each OD trip is the input RouteResult (the kernel is not     *)
(* part of these sources).                                                  *)
(*                                                                          *)
(* Demand values (expansion factors and everything summed from them) are    *)
(* exact rationals kept as integers in units of 1/DemandUnit; float         *)
(* rounding is not modelled.                                                *)
(***************************************************************************)
EXTENDS Reset, FiniteSets

CONSTANTS
  Lines,                        \* line indices (lineProfiles keys)
  Paths,                        \* path indices (pathProfiles keys)
  PathSegments,                 \* [Paths -> Nat]: legPath.nodesRef.size() - 1
  TripConnectionDepartureTimes, \* [t \in Trips -> [0..TripConnections[t]-1 -> Nat]]
  RouteResult,                  \* [OdTripIdx -> NoRouting \cup [legs, totalTravelTime]]:
                                \* the kernel's route for the OD trip
  BatchParams,                  \* the Calculator::params of the batch
  EfScale,                      \* expansion factors are given in units of 1/EfScale
  NoRouting,                    \* model value: calculate throws NoRoutingFoundException
  NoDataSource                  \* model value: params.onlyDataSource is empty

ASSUME BatchParams \in ParamsChoices

OdTripsCount == Cardinality(OdTripIdx)
RatioNum == BatchParams.odTripsSampleRatio[1]
RatioDen == BatchParams.odTripsSampleRatio[2]
Hours == 0..28   \* demandByHourOfDay has 29 entries (lines 182-185)

(* Line 216: (int)ceil((float)odTripsCount * params.odTripsSampleRatio). *)
SampleSize == (OdTripsCount * RatioNum + RatioDen - 1) \div RatioDen

DemandUnit == EfScale * RatioNum

(* Line 299: odTrip->expansionFactor / params.odTripsSampleRatio, in      *)
(* units of 1/DemandUnit.                                                  *)
CorrectedExpansionFactor(o) == OdTripData[o].expansionFactor * RatioDen

VARIABLES
  odTripIndexes,              \* the (shuffled) OD indices, the same for every worker
  i,                          \* [Workers -> Nat], the loop index
  phase,                      \* [Workers -> {"loop", "exit", "done", "returned"}]
  resetFilters,               \* [Workers -> BOOLEAN]
  lineProfiles,               \* [Workers -> [Lines -> Nat]]
  pathProfiles,               \* [Workers -> path -> segment -> hour -> demand]
  pathTotalProfiles,          \* [Workers -> path -> segment -> demand]
  maximumSegmentHourlyDemand, \* [Workers -> Nat]
  maximumSegmentTotalDemand,  \* [Workers -> Nat]
  totalTravelTimeSeconds,     \* [Workers -> Nat]
  countOdTripsCalculated,     \* [Workers -> Nat]
  odTripsJson,                \* [Workers -> Seq of per-OD records]
  status                      \* [Workers -> {"none", "success"}]

batchVars == <<odTripIndexes, i, phase, resetFilters, lineProfiles, pathProfiles,
               pathTotalProfiles, maximumSegmentHourlyDemand, maximumSegmentTotalDemand,
               totalTravelTimeSeconds, countOdTripsCalculated, odTripsJson, status>>
vars == <<calc, batchVars>>

-----------------------------------------------------------------------------
(* Lines 197-211: the indices are shuffled (by a seeded mt19937, any      *)
(* permutation) only when 0 < ratio < 1; no sort precedes the shuffle.     *)
Shuffles ==
  IF 0 < RatioNum /\ RatioNum < RatioDen
  THEN {f \in [0..OdTripsCount - 1 -> OdTripIdx] : Range(f) = OdTripIdx}
  ELSE {[k \in 0..OdTripsCount - 1 |-> k]}

(* Lines 235-262: the OD trip matches every non-empty attribute list and  *)
(* the data source, and departs in one of the periods (or none is given).  *)
(* Age group, gender and occupation are those of the trip's person         *)
(* (persons[odTrip->personIdx]), folded into the OD record.               *)
AttributesMatch(o) ==
  LET od == OdTripData[o]
      p  == BatchParams IN
  /\ OnlyAllows(p.odTripsAgeGroups, od.ageGroup)
  /\ OnlyAllows(p.odTripsGenders, od.gender)
  /\ OnlyAllows(p.odTripsOccupations, od.occupation)
  /\ OnlyAllows(p.odTripsActivities, od.destinationActivity)
  /\ OnlyAllows(p.odTripsModes, od.mode)
  /\ p.onlyDataSource = NoDataSource \/ od.dataSource = p.onlyDataSource

InSomePeriod(o) ==
  \E k \in DOMAIN BatchParams.odTripsPeriods :
    /\ OdTripData[o].departureTimeSeconds >= BatchParams.odTripsPeriods[k][1]
    /\ OdTripData[o].departureTimeSeconds < BatchParams.odTripsPeriods[k][2]

Selected(o) == AttributesMatch(o) /\ (InSomePeriod(o) \/ BatchParams.odTripsPeriods = <<>>)

BatchInit ==
  /\ calc = [w \in Workers |-> InitialCalc]
  /\ odTripIndexes \in Shuffles
  /\ i = [w \in Workers |-> 0]
  /\ phase = [w \in Workers |-> IF OdTripsCount = 0 THEN "returned" ELSE "loop"]
  /\ resetFilters = [w \in Workers |-> TRUE]
  /\ lineProfiles = [w \in Workers |-> [l \in Lines |-> 0]]
  /\ pathProfiles = [w \in Workers |-> <<>>]
  /\ pathTotalProfiles = [w \in Workers |-> <<>>]
  /\ maximumSegmentHourlyDemand = [w \in Workers |-> 0]
  /\ maximumSegmentTotalDemand = [w \in Workers |-> 0]
  /\ totalTravelTimeSeconds = [w \in Workers |-> 0]
  /\ countOdTripsCalculated = [w \in Workers |-> 0]
  /\ odTripsJson = [w \in Workers |-> <<>>]
  /\ status = [w \in Workers |-> "none"]

-----------------------------------------------------------------------------
(* The hour taken in minutes (depTime / 60). *)
ConnectionHourMinutes(t, k) == TripConnectionDepartureTimes[t][k] \div 60

(* Line 331: connectionDepartureTimeSeconds / 3600. *)
ConnectionHour(t, k) == TripConnectionDepartureTimes[t][k] \div 3600

(* The total-demand maximum compared with the hourly cell instead of the  *)
(* segment's total.                                                         *)
AddConnectionTotalFromHourly(acc, t, pa, k, cef) ==
  LET h  == ConnectionHour(t, k)
      a1 == [acc EXCEPT !.demands[t][k] = @ + cef, !.pathTotalProfiles[pa][k] = @ + cef]
      a2 == IF h \in Hours THEN [a1 EXCEPT !.pathProfiles[pa][k][h] = @ + cef] ELSE a1
      cell == IF h \in Hours THEN a2.pathProfiles[pa][k][h] ELSE 0
  IN [a2 EXCEPT !.maxHourly = IF @ < cell THEN cell ELSE @,
                !.maxTotal  = IF @ < cell THEN cell ELSE @]

(* Lines 325-346 for one connection of a leg: the connection's demand,    *)
(* its path segment's hourly and total profile, and the running maxima.   *)
(* An hour past the 29 buckets indexes the vector out of bounds, which is  *)
(* undefined; the outcome modelled is the write lost to the profile (the  *)
(* cell and the hourly maximum untouched).                                 *)
AddConnection(acc, t, pa, k, cef) ==
  LET h  == ConnectionHour(t, k)
      a1 == [acc EXCEPT !.demands[t][k] = @ + cef, !.pathTotalProfiles[pa][k] = @ + cef]
      a2 == IF h \in Hours THEN [a1 EXCEPT !.pathProfiles[pa][k][h] = @ + cef] ELSE a1
      cell == IF h \in Hours THEN a2.pathProfiles[pa][k][h] ELSE 0
  IN [a2 EXCEPT !.maxHourly = IF @ < cell THEN cell ELSE @,
                !.maxTotal  = IF @ < a2.pathTotalProfiles[pa][k] THEN a2.pathTotalProfiles[pa][k] ELSE @]

(* The line profile bumped once per connection of the leg. *)
AddLegPerConnection(acc, leg, cef) ==
  LET t  == leg[1]
      pa == leg[3]
      created ==
        IF pa \in DOMAIN acc.pathProfiles THEN acc
        ELSE [acc EXCEPT
                !.pathProfiles = @ @@ (pa :> [k \in 0..PathSegments[pa] - 1 |-> [h \in Hours |-> 0]]),
                !.pathTotalProfiles = @ @@ (pa :> [k \in 0..PathSegments[pa] - 1 |-> 0])]
      step(a, k) == [AddConnection(a, t, pa, k, cef) EXCEPT !.lineProfiles[leg[2]] = @ + cef]
  IN FoldLeft(step, created, [n \in 1..leg[5] - leg[4] + 1 |-> leg[4] + n - 1])

(* Lines 312-347 for one leg <<trip, line, path, first, last>>: the line  *)
(* profile, the path profiles created on first use, then every connection *)
(* of the leg in order.                                                    *)
AddLeg(acc, leg, cef) ==
  LET t  == leg[1]
      pa == leg[3]
      withLine == [acc EXCEPT !.lineProfiles[leg[2]] = @ + cef]
      created ==
        IF pa \in DOMAIN withLine.pathProfiles THEN withLine
        ELSE [withLine EXCEPT
                !.pathProfiles = @ @@ (pa :> [k \in 0..PathSegments[pa] - 1 |-> [h \in Hours |-> 0]]),
                !.pathTotalProfiles = @ @@ (pa :> [k \in 0..PathSegments[pa] - 1 |-> 0])]
      step(a, k) == AddConnection(a, t, pa, k, cef)
  IN FoldLeft(step, created, [n \in 1..leg[5] - leg[4] + 1 |-> leg[4] + n - 1])

(* The result calculate returns for a routable OD trip: a single route   *)
(* with its legs and travel time.  calculate itself is not part of this   *)
(* repository's sources; an unroutable OD trip is the exception handled  *)
(* by RouteNotFound.                                                       *)
CalculateResult(o) ==
  [type |-> "single", legs |-> RouteResult[o].legs, totalTravelTime |-> RouteResult[o].totalTravelTime]

(* ResultToOdTripJsonVisitor, lines 61-126: a single result gives a       *)
(* success record, its legs and its travel time; the alternatives and     *)
(* all-nodes visits leave an empty record ("should not be visited here"),  *)
(* the legs vector empty and totalTravelTime uninitialised.  That value is *)
(* read only when there are legs (line 307), so any value stands for it.  *)
(* The record's other fields are formatting and are left out.             *)
ResultToOdTripJson(r) ==
  IF r.type = "single"
  THEN [status |-> "success", legs |-> r.legs, totalTravelTime |-> r.totalTravelTime]
  ELSE [status |-> "absent", legs |-> <<>>, totalTravelTime |-> 0]

(* The visitor's view of OD trip o's result. *)
Visited(o) == ResultToOdTripJson(CalculateResult(o))

(* Lines 309-348: the accumulation of one routed OD trip by worker w. *)
Accumulate(w, c, o) ==
  LET cef  == CorrectedExpansionFactor(o)
      legs == Visited(o).legs
      base == [lineProfiles |-> lineProfiles[w], pathProfiles |-> pathProfiles[w],
               pathTotalProfiles |-> pathTotalProfiles[w], demands |-> c.tripConnectionDemands,
               maxHourly |-> maximumSegmentHourlyDemand[w], maxTotal |-> maximumSegmentTotalDemand[w]]
      step(a, leg) == AddLeg(a, leg, cef)
      out  == FoldLeft(step, base, legs)
  IN /\ lineProfiles'               = [lineProfiles EXCEPT ![w] = out.lineProfiles]
     /\ pathProfiles'               = [pathProfiles EXCEPT ![w] = out.pathProfiles]
     /\ pathTotalProfiles'          = [pathTotalProfiles EXCEPT ![w] = out.pathTotalProfiles]
     /\ maximumSegmentHourlyDemand' = [maximumSegmentHourlyDemand EXCEPT ![w] = out.maxHourly]
     /\ maximumSegmentTotalDemand'  = [maximumSegmentTotalDemand EXCEPT ![w] = out.maxTotal]
     /\ totalTravelTimeSeconds'     = [totalTravelTimeSeconds EXCEPT ![w] =
          @ + (IF legs = <<>> THEN 0
               ELSE (cef * Visited(o).totalTravelTime) \div DemandUnit)]
     /\ calc' = [calc EXCEPT ![w] = [c EXCEPT !.tripConnectionDemands = out.demands]]

(* Lines 369-373: the loop moves on, or breaks once i + 1 reaches        *)
(* odTripsSampleSize.  Only reached for indices of the worker's shard.    *)
NextIteration(w) ==
  IF BatchParams.odTripsSampleSize > 0 /\ i[w] + 1 >= BatchParams.odTripsSampleSize
  THEN /\ phase' = [phase EXCEPT ![w] = "exit"]
       /\ UNCHANGED i
  ELSE /\ i' = [i EXCEPT ![w] = @ + 1]
       /\ UNCHANGED phase

CurrentOdTrip(w) == odTripIndexes[i[w]]

(* The loop bound of line 218 written with <=. *)
InLoopInclusive(w) == phase[w] = "loop" /\ i[w] <= SampleSize

(* Line 218: the loop runs while i < sampleSize. *)
InLoop(w) == phase[w] = "loop" /\ i[w] < SampleSize

(* The shard test of line 224 without its - 1. *)
InShardNoOffset(k, w) == k % BatchParams.batchesCount = w

(* The shard test of line 224 dropped: every worker takes every index. *)
InShardAll(k, w) == k = k

(* Line 224: index k belongs to worker (batchNumber) w. *)
InShard(k, w) == k % BatchParams.batchesCount = w - 1

(* Lines 221-228: odTrip is set, then an index of another shard is        *)
(* skipped with continue (the break check is not reached).                *)
SkipOtherShard(w) ==
  /\ InLoop(w)
  /\ ~InShard(i[w], w)
  /\ calc' = [calc EXCEPT ![w].odTrip = CurrentOdTrip(w)]
  /\ i' = [i EXCEPT ![w] = @ + 1]
  /\ UNCHANGED <<odTripIndexes, phase, resetFilters, lineProfiles, pathProfiles,
                 pathTotalProfiles, maximumSegmentHourlyDemand, maximumSegmentTotalDemand,
                 totalTravelTimeSeconds, countOdTripsCalculated, odTripsJson, status>>

OwnOdTrip(w) == InLoop(w) /\ InShard(i[w], w)

(* Lines 235-264 failing: the OD trip is left out of the results. *)
SkipUnselected(w) ==
  /\ OwnOdTrip(w)
  /\ ~Selected(CurrentOdTrip(w))
  /\ calc' = [calc EXCEPT ![w].odTrip = CurrentOdTrip(w)]
  /\ NextIteration(w)
  /\ UNCHANGED <<odTripIndexes, resetFilters, lineProfiles, pathProfiles, pathTotalProfiles,
                 maximumSegmentHourlyDemand, maximumSegmentTotalDemand,
                 totalTravelTimeSeconds, countOdTripsCalculated, odTripsJson, status>>

(* calculate(odTripParameters, true, resetFilters): the reset of worker   *)
(* w's Calculator for OD trip o.                                           *)
CalculateReset(w, o) ==
  ResetCalc([calc[w] EXCEPT !.odTrip = o], BatchParams, o, <<>>, <<>>, TRUE, resetFilters[w])

(* Lines 350-366: the record pushed for OD trip o, its status being the   *)
(* visitor's or, from noRoutingFoundResultToJson (lines 128-136),          *)
(* no_routing; the fields added at lines 355-365 are formatting.           *)
OdTripJson(o, st) == [odTrip |-> o, status |-> st, expansionFactor |-> CorrectedExpansionFactor(o)]

(* RouteFound leaving resetFilters set after a success. *)
RouteFoundKeepsFilters(w) ==
  LET o == CurrentOdTrip(w) IN
  /\ OwnOdTrip(w)
  /\ Selected(o)
  /\ RouteResult[o] # NoRouting
  /\ Accumulate(w, CalculateReset(w, o), o)
  /\ countOdTripsCalculated' = [countOdTripsCalculated EXCEPT ![w] = @ + 1]
  /\ odTripsJson' = [odTripsJson EXCEPT ![w] = Append(@, OdTripJson(o, Visited(o).status))]
  /\ NextIteration(w)
  /\ UNCHANGED <<odTripIndexes, resetFilters, status>>

(* Lines 286-348 and 354-366: a route is found; filters are not reset     *)
(* again, the result is added to the aggregates and to the output.        *)
RouteFound(w) ==
  LET o == CurrentOdTrip(w) IN
  /\ OwnOdTrip(w)
  /\ Selected(o)
  /\ RouteResult[o] # NoRouting
  /\ Accumulate(w, CalculateReset(w, o), o)
  /\ resetFilters' = [resetFilters EXCEPT ![w] = FALSE]
  /\ countOdTripsCalculated' = [countOdTripsCalculated EXCEPT ![w] = @ + 1]
  /\ odTripsJson' = [odTripsJson EXCEPT ![w] = Append(@, OdTripJson(o, Visited(o).status))]
  /\ NextIteration(w)
  /\ UNCHANGED <<odTripIndexes, status>>

(* Lines 286-302 and 350-366: calculate throws NoRoutingFoundException    *)
(* after its reset; resetFilters stays as it was.                          *)
RouteNotFound(w) ==
  LET o == CurrentOdTrip(w) IN
  /\ OwnOdTrip(w)
  /\ Selected(o)
  /\ RouteResult[o] = NoRouting
  /\ calc' = [calc EXCEPT ![w] = CalculateReset(w, o)]
  /\ odTripsJson' = [odTripsJson EXCEPT ![w] = Append(@, OdTripJson(o, "no_routing"))]
  /\ NextIteration(w)
  /\ UNCHANGED <<odTripIndexes, resetFilters, lineProfiles, pathProfiles, pathTotalProfiles,
                 maximumSegmentHourlyDemand, maximumSegmentTotalDemand,
                 totalTravelTimeSeconds, countOdTripsCalculated, status>>

(* Lines 376-415: after the loop the report is completed with status      *)
(* success.                                                                *)
Finish(w) ==
  /\ \/ phase[w] = "loop" /\ i[w] >= SampleSize
     \/ phase[w] = "exit"
  /\ phase' = [phase EXCEPT ![w] = "done"]
  /\ status' = [status EXCEPT ![w] = "success"]
  /\ UNCHANGED <<calc, odTripIndexes, i, resetFilters, lineProfiles, pathProfiles,
                 pathTotalProfiles, maximumSegmentHourlyDemand, maximumSegmentTotalDemand,
                 totalTravelTimeSeconds, countOdTripsCalculated, odTripsJson>>

BatchNext ==
  \E w \in Workers :
    \/ SkipOtherShard(w)
    \/ SkipUnselected(w)
    \/ RouteFound(w)
    \/ RouteNotFound(w)
    \/ Finish(w)

WorkerStep(w) ==
  SkipOtherShard(w) \/ SkipUnselected(w) \/ RouteFound(w) \/ RouteNotFound(w) \/ Finish(w)

(* A worker can step exactly while it is in its loop or past its break:   *)
(* in the loop the shard, selection and route guards split every case,    *)
(* and past the loop bound or the break Finish is enabled.  This is        *)
(* ENABLED WorkerStep(w), written as the state predicate it equals.        *)
CanStep(w) == phase[w] \in {"loop", "exit"}

(* Every worker runs its own loop to the end: weak fairness of            *)
(* WorkerStep(w), []<>~ENABLED \/ []<><<WorkerStep(w)>>_vars.             *)
BatchSpec == BatchInit /\ [][BatchNext]_vars /\
             \A w \in Workers : []<>~CanStep(w) \/ []<><<WorkerStep(w)>>_vars

-----------------------------------------------------------------------------
OutputOdTrips(w) == {odTripsJson[w][j].odTrip : j \in DOMAIN odTripsJson[w]}
RoutedEntries(w) == {j \in DOMAIN odTripsJson[w] : odTripsJson[w][j].status = "success"}
Legs(w, j)       == Visited(odTripsJson[w][j].odTrip).legs
Cef(w, j)        == odTripsJson[w][j].expansionFactor
MaxOrZero(S)     == Max(S \cup {0})

BatchTypeOK ==
  /\ TypeOK
  /\ odTripIndexes \in [0..OdTripsCount - 1 -> OdTripIdx]
  /\ i \in [Workers -> 0..SampleSize]
  /\ phase \in [Workers -> {"loop", "exit", "done", "returned"}]
  /\ resetFilters \in [Workers -> BOOLEAN]
  /\ lineProfiles \in [Workers -> [Lines -> Nat]]
  /\ \A w \in Workers : DOMAIN pathProfiles[w] = DOMAIN pathTotalProfiles[w]
                        /\ DOMAIN pathProfiles[w] \subseteq Paths
  /\ maximumSegmentHourlyDemand \in [Workers -> Nat]
  /\ maximumSegmentTotalDemand \in [Workers -> Nat]
  /\ totalTravelTimeSeconds \in [Workers -> Nat]
  /\ countOdTripsCalculated \in [Workers -> Nat]
  /\ status \in [Workers -> {"none", "success"}]

(* Spec 8.7 and 9.3: the shards partition the sample.  The sample is the  *)
(* first min(sampleSize, odTripsSampleSize) shuffled indices (all          *)
(* sampleSize when odTripsSampleSize is 0); every OD trip a worker reports *)
(* is a selected member of the sample, no two workers (and no worker       *)
(* twice) report the same one, and once every worker is done each selected *)
(* member has been reported.  The break of lines 370-373 is the code under *)
(* question: it tests the global index, and only on the worker's own       *)
(* indices.                                                                *)
SampleBound ==
  IF BatchParams.odTripsSampleSize > 0 /\ BatchParams.odTripsSampleSize < SampleSize
  THEN BatchParams.odTripsSampleSize ELSE SampleSize

SelectedSample == {odTripIndexes[k] : k \in {n \in 0..SampleBound - 1 : Selected(odTripIndexes[n])}}

ShardsPartitionSample ==
  /\ \A w \in Workers : OutputOdTrips(w) \subseteq SelectedSample
  /\ \A w \in Workers : Len(odTripsJson[w]) = Cardinality(OutputOdTrips(w))
  /\ \A w, v \in Workers : w # v => OutputOdTrips(w) \cap OutputOdTrips(v) = {}
  /\ (\A w \in Workers : phase[w] = "done")
       => UNION {OutputOdTrips(w) : w \in Workers} = SelectedSample

(* The batch implements BatchSample: what a worker has put in its output  *)
(* is what it reported, and it has finished once the report is complete   *)
(* (or returned at once).  Routing an OD trip two workers share, or one    *)
(* outside the sample, or a worker that never completes its report,        *)
(* breaks it.                                                               *)
Sample == INSTANCE BatchSample WITH
  OdTrips  <- OdTripIdx,
  sample   <- SelectedSample,
  reported <- [w \in Workers |-> OutputOdTrips(w)],
  finished <- [w \in Workers |-> phase[w] \in {"done", "returned"}]

BatchImplementsSample == Sample!SafeSpec /\ Sample!Termination

(* The demand on every connection held by a worker's Calculator is the    *)
(* sum, over the OD trips that worker has routed, of their corrected      *)
(* expansion factor times the legs riding that connection.  reset zeroes   *)
(* the demand when it resets the filters (resets.cpp 200-207), so this     *)
(* holds only if filters are never reset after a route has been added      *)
(* (od_trips_routing.cpp 302-303), whatever the order of routed and         *)
(* unrouted OD trips.                                                      *)
LegsRiding(legs, t, k) ==
  Cardinality({m \in DOMAIN legs : legs[m][1] = t /\ legs[m][4] <= k /\ k <= legs[m][5]})

DemandMatchesRoutedLegs ==
  \A w \in Workers, t \in Trips :
    \A k \in 0..TripConnections[t] - 1 :
      calc[w].tripConnectionDemands[t][k]
        = MapThenSumSet(LAMBDA j : Cef(w, j) * LegsRiding(Legs(w, j), t, k), RoutedEntries(w))

(* Spec 8.6: the line profiles of a worker sum to the corrected expansion *)
(* factor of each routed OD trip times its number of legs.                 *)
LineProfilesSum ==
  \A w \in Workers :
    SumFunction(lineProfiles[w])
      = MapThenSumSet(LAMBDA j : Cef(w, j) * Len(Legs(w, j)), RoutedEntries(w))

(* The running maxima of lines 338-345 are the largest hourly and the     *)
(* largest total demand over every segment of every profiled path, though  *)
(* a segment's total grows across hours and across OD trips.               *)
HourlyDemands(w) ==
  UNION {{pathProfiles[w][pa][k][h] : k \in DOMAIN pathProfiles[w][pa], h \in Hours} :
           pa \in DOMAIN pathProfiles[w]}

TotalDemands(w) ==
  UNION {{pathTotalProfiles[w][pa][k] : k \in DOMAIN pathTotalProfiles[w][pa]} :
           pa \in DOMAIN pathTotalProfiles[w]}

MaxSegmentDemandIsMaximum ==
  \A w \in Workers :
    /\ maximumSegmentHourlyDemand[w] = MaxOrZero(HourlyDemands(w))
    /\ maximumSegmentTotalDemand[w] = MaxOrZero(TotalDemands(w))

(* Spec 4.F step 4 and 9.1: every unit of demand added to a path segment  *)
(* lands in one of its hour buckets, so a segment's total profile is the   *)
(* sum of its hourly profile, for connections departing past midnight too. *)
PathTotalEqualsHourlySum ==
  \A w \in Workers : \A pa \in DOMAIN pathProfiles[w] :
    \A k \in DOMAIN pathProfiles[w][pa] :
      pathTotalProfiles[w][pa][k] = SumFunction(pathProfiles[w][pa][k])

(* Spec 4.F step 4: totalTravelTimeSeconds accumulates corrected           *)
(* expansion factor times travel time over the routed OD trips.  The code  *)
(* adds each product to an int, dropping its fraction every time.          *)
TotalTravelTimeExact ==
  \A w \in Workers :
    totalTravelTimeSeconds[w]
      = MapThenSumSet(LAMBDA j : IF Legs(w, j) = <<>> THEN 0
                                 ELSE Cef(w, j) * Visited(odTripsJson[w][j].odTrip).totalTravelTime,
                      RoutedEntries(w)) \div DemandUnit

=============================================================================
