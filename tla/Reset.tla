-------------------------------- MODULE Reset --------------------------------
(***************************************************************************)
(* Calculator::reset (connection_scan_algorithm/src/resets.cpp).           *)
(*                                                                         *)
(* Each worker owns one Calculator.  reset(resetAccessPaths, resetFilters) *)
(* clears the per-query scratch, anchors the departure and arrival times,  *)
(* resolves the access and egress footpaths (from the OD trip, from the    *)
(* parameters, or from the walk oracle), writes the access/egress labels   *)
(* and, when asked, recomputes the trip mask and zeroes connection demand. *)
(* The whole call is one step: it never suspends except in the walk        *)
(* oracle, whose answer is an input chosen from OsrmFootpaths.             *)
(*                                                                         *)
(* Journeys are the tuples (enter, exit, prevNode, prevWalk, walk, kind);  *)
(* reset writes -1 into every field but walk, so a journey is modelled by  *)
(* its walk field.  Scratch that reset only fills with a sentinel and no   *)
(* modelled step reads (tripsUsable, tripsEnter/ExitConnection...) is left *)
(* out.                                                                    *)
(***************************************************************************)
EXTENDS Integers, Sequences, SequencesExt

CONSTANTS
  Nodes,           \* node indices (integers: the code compares them with mode indices)
  Trips,           \* trip indices
  TripServiceIdx,  \* [Trips -> Int]
  TripLineIdx,     \* [Trips -> Int]
  TripModeIdx,     \* [Trips -> Int]
  TripAgencyIdx,   \* [Trips -> Int]
  TripPathNodes,   \* [Trips -> SUBSET Nodes], the nodes of the trip's path
  TripConnections, \* [Trips -> Nat], connections per trip (tripConnectionDemands[t] size)
  OdTripData,      \* [od index -> OD trip record]
  OsrmFootpaths,   \* answers the walk oracle may give: sequences of <<node, seconds>>
  ParamsChoices,   \* the Calculator::params values a query may carry
  Workers,         \* one Calculator per worker
  NoOdTrip,        \* model value: odTrip == nullptr
  NoParams,        \* model value: no query has been reset yet
  MAX_INT

OdTripIdx == DOMAIN OdTripData

VARIABLE calc   \* [Workers -> Calculator state]

-----------------------------------------------------------------------------
(* (int)ceil((float)seconds / params.walkingSpeedFactor), the factor being *)
(* the ratio num/den given as <<num, den>>.                                *)
WalkSeconds(p, w) ==
  (w * p.walkingSpeedFactor[2] + p.walkingSpeedFactor[1] - 1) \div p.walkingSpeedFactor[1]

(* The footpath loops pair every node with times[i], but i is set to 0 at *)
(* line 61 and never incremented, so every node gets the first time.       *)
PairedFootpaths(nodes, times) == [k \in DOMAIN nodes |-> <<nodes[k], times[1]>>]

(* Lines 40-54: the departure and arrival anchors. *)
DepartureAnchor(p, od) ==
  IF od # NoOdTrip /\ p.forwardCalculation THEN OdTripData[od].departureTimeSeconds
  ELSE IF p.departureTimeSeconds >= 0 THEN p.departureTimeSeconds
  ELSE -1

ArrivalAnchor(p) == IF p.arrivalTimeSeconds >= 0 THEN p.arrivalTimeSeconds ELSE -1

(* Lines 71-103: access footpaths from the OD trip, else from the         *)
(* parameters when both lists are non-empty and of equal length, else from *)
(* the walk oracle; kept from the previous call when not resetting.        *)
ResolveAccessFootpaths(c, p, od, osrm, resetAccessPaths) ==
  IF ~resetAccessPaths THEN c.accessFootpaths
  ELSE IF od # NoOdTrip
    THEN PairedFootpaths(OdTripData[od].originNodesIdx, OdTripData[od].originNodesTravelTimesSeconds)
  ELSE IF Len(p.accessNodesIdx) > 0 /\ Len(p.accessNodeTravelTimesSeconds) = Len(p.accessNodesIdx)
    THEN PairedFootpaths(p.accessNodesIdx, p.accessNodeTravelTimesSeconds)
  ELSE osrm

(* Lines 131-158, the egress mirror of ResolveAccessFootpaths. *)
ResolveEgressFootpaths(c, p, od, osrm, resetAccessPaths) ==
  IF ~resetAccessPaths THEN c.egressFootpaths
  ELSE IF od # NoOdTrip
    THEN PairedFootpaths(OdTripData[od].destinationNodesIdx, OdTripData[od].destinationNodesTravelTimesSeconds)
  ELSE IF Len(p.egressNodesIdx) > 0 /\ Len(p.egressNodeTravelTimesSeconds) = Len(p.egressNodesIdx)
    THEN PairedFootpaths(p.egressNodesIdx, p.egressNodeTravelTimesSeconds)
  ELSE osrm

(* Lines 108-126: each access footpath, in order, sets the node's access  *)
(* time, its forward journey and its tentative time, and updates the      *)
(* min/max access travel time.                                            *)
ApplyAccessFootpaths(c, p) ==
  LET step(acc, fp) ==
        LET ft == WalkSeconds(p, fp[2]) IN
        [acc EXCEPT !.nodesAccessTravelTime[fp[1]] = ft,
                    !.forwardJourneys[fp[1]]       = ft,
                    !.nodesTentativeTime[fp[1]]    = acc.departureTimeSeconds + ft + p.minWaitingTimeSeconds,
                    !.minAccessTravelTime          = IF ft < @ THEN ft ELSE @,
                    !.maxAccessTravelTime          = IF ft > @ THEN ft ELSE @]
  IN FoldLeft(step, c, c.accessFootpaths)

(* Lines 163-181, the egress mirror, feeding the reverse labels. *)
ApplyEgressFootpaths(c, p) ==
  LET step(acc, fp) ==
        LET ft == WalkSeconds(p, fp[2]) IN
        [acc EXCEPT !.nodesEgressTravelTime[fp[1]]     = ft,
                    !.reverseJourneys[fp[1]]           = ft,
                    !.nodesReverseTentativeTime[fp[1]] = acc.arrivalTimeSeconds - ft,
                    !.maxEgressTravelTime              = IF ft > @ THEN ft ELSE @,
                    !.minEgressTravelTime              = IF ft < @ THEN ft ELSE @]
  IN FoldLeft(step, c, c.egressFootpaths)

OnlyAllows(ids, v)   == ids = {} \/ v \in ids
ExceptAllows(ids, v) == ids = {} \/ v \notin ids

(* Lines 210-292: a trip stays enabled when it passes every include and   *)
(* exclude list.  The node lists are compared with the trip's modeIdx      *)
(* (lines 238 and 270), not with the nodes of its path.                    *)
CodeTripEnabled(p, t) ==
  IF /\ OnlyAllows(p.onlyServicesIdx, TripServiceIdx[t])
     /\ OnlyAllows(p.onlyLinesIdx, TripLineIdx[t])
     /\ OnlyAllows(p.onlyModesIdx, TripModeIdx[t])
     /\ OnlyAllows(p.onlyNodesIdx, TripModeIdx[t])
     /\ OnlyAllows(p.onlyAgenciesIdx, TripAgencyIdx[t])
     /\ ExceptAllows(p.exceptServicesIdx, TripServiceIdx[t])
     /\ ExceptAllows(p.exceptLinesIdx, TripLineIdx[t])
     /\ ExceptAllows(p.exceptNodesIdx, TripModeIdx[t])
     /\ ExceptAllows(p.exceptModesIdx, TripModeIdx[t])
     /\ ExceptAllows(p.exceptAgenciesIdx, TripAgencyIdx[t])
  THEN 1 ELSE -1

(* A sentinel slip: a trip disabled with 0 instead of -1. *)
FilteredTripsZero(c, p) == [t \in Trips |-> IF CodeTripEnabled(p, t) = 1 THEN 1 ELSE 0]

(* Lines 30-33 and 210-292: every trip re-enabled, then the scenario's    *)
(* lists applied.                                                          *)
FilteredTrips(c, p) == [t \in Trips |-> CodeTripEnabled(p, t)]

ZeroDemands == [t \in Trips |-> [k \in 0..TripConnections[t] - 1 |-> 0]]

(* ClearScratch without the fill of line 15: tentative times of an        *)
(* earlier query survive.                                                 *)
ClearScratchKeepsTentative(c, p, od) ==
  [c EXCEPT !.params                    = p,
            !.odTrip                    = od,
            !.nodesReverseTentativeTime = [n \in Nodes |-> -1],
            !.nodesAccessTravelTime     = [n \in Nodes |-> -1],
            !.nodesEgressTravelTime     = [n \in Nodes |-> -1],
            !.forwardJourneys           = [n \in Nodes |-> -1],
            !.reverseJourneys           = [n \in Nodes |-> -1],
            !.departureTimeSeconds      = DepartureAnchor(p, od),
            !.arrivalTimeSeconds        = ArrivalAnchor(p),
            !.minAccessTravelTime       = MAX_INT,
            !.maxEgressTravelTime       = -1,
            !.minEgressTravelTime       = MAX_INT,
            !.maxAccessTravelTime       = -1]

(* Lines 15-67: the scratch filled with sentinels, the anchors and the   *)
(* min/max access and egress times reinitialised.                         *)

ClearScratch(c, p, od) ==
  [c EXCEPT !.params                    = p,
            !.odTrip                    = od,
            !.nodesTentativeTime        = [n \in Nodes |-> MAX_INT],
            !.nodesReverseTentativeTime = [n \in Nodes |-> -1],
            !.nodesAccessTravelTime     = [n \in Nodes |-> -1],
            !.nodesEgressTravelTime     = [n \in Nodes |-> -1],
            !.forwardJourneys           = [n \in Nodes |-> -1],
            !.reverseJourneys           = [n \in Nodes |-> -1],
            !.departureTimeSeconds      = DepartureAnchor(p, od),
            !.arrivalTimeSeconds        = ArrivalAnchor(p),
            !.minAccessTravelTime       = MAX_INT,
            !.maxEgressTravelTime       = -1,
            !.minEgressTravelTime       = MAX_INT,
            !.maxAccessTravelTime       = -1]

(* Calculator::reset as a whole, on one worker's Calculator c. *)
ResetCalc(c, p, od, osrmAccess, osrmEgress, resetAccessPaths, resetFilters) ==
  LET dep == DepartureAnchor(p, od)
      arr == ArrivalAnchor(p)
      cleared == ClearScratch(c, p, od)
      withAccess ==
        IF ~p.returnAllNodesResult \/ dep >= -1
        THEN ApplyAccessFootpaths(
               [cleared EXCEPT !.accessFootpaths =
                  ResolveAccessFootpaths(c, p, od, osrmAccess, resetAccessPaths)], p)
        ELSE [cleared EXCEPT !.accessFootpaths =
                IF resetAccessPaths THEN <<>> ELSE @]
      withEgress ==
        IF ~p.returnAllNodesResult \/ arr >= -1
        THEN ApplyEgressFootpaths(
               [withAccess EXCEPT !.egressFootpaths =
                  ResolveEgressFootpaths(c, p, od, osrmEgress, resetAccessPaths)], p)
        ELSE [withAccess EXCEPT !.egressFootpaths =
                IF resetAccessPaths THEN <<>> ELSE @]
  IN IF resetFilters
     THEN [withEgress EXCEPT
             !.tripsEnabled = FilteredTrips(withEgress, p),
             !.tripConnectionDemands = IF p.calculateAllOdTrips THEN ZeroDemands ELSE @]
     ELSE withEgress

-----------------------------------------------------------------------------
(* A Calculator before its first query: scratch allocated with sentinels, *)
(* connection demand zero.                                                 *)
InitialCalc ==
  [params |-> NoParams, odTrip |-> NoOdTrip,
   accessFootpaths |-> <<>>, egressFootpaths |-> <<>>,
   nodesTentativeTime |-> [n \in Nodes |-> MAX_INT],
   nodesReverseTentativeTime |-> [n \in Nodes |-> -1],
   nodesAccessTravelTime |-> [n \in Nodes |-> -1],
   nodesEgressTravelTime |-> [n \in Nodes |-> -1],
   forwardJourneys |-> [n \in Nodes |-> -1],
   reverseJourneys |-> [n \in Nodes |-> -1],
   departureTimeSeconds |-> -1, arrivalTimeSeconds |-> -1,
   minAccessTravelTime |-> MAX_INT, maxAccessTravelTime |-> -1,
   minEgressTravelTime |-> MAX_INT, maxEgressTravelTime |-> -1,
   tripsEnabled |-> [t \in Trips |-> 1],
   tripConnectionDemands |-> ZeroDemands]

Init == calc = [w \in Workers |-> InitialCalc]

FootpathInputs(p) ==
  <<p.accessNodesIdx, p.accessNodeTravelTimesSeconds, p.egressNodesIdx, p.egressNodeTravelTimesSeconds>>

FilterInputs(p) ==
  <<p.onlyServicesIdx, p.onlyLinesIdx, p.onlyModesIdx, p.onlyNodesIdx, p.onlyAgenciesIdx,
    p.exceptServicesIdx, p.exceptLinesIdx, p.exceptNodesIdx, p.exceptModesIdx, p.exceptAgenciesIdx,
    p.calculateAllOdTrips>>

(* A reset on worker w.  The callers' contract (spec 4.C): the first call *)
(* resolves footpaths and filters; footpaths are reused only for the same *)
(* query, the mask only under the same filter lists.                      *)
ResetQuery(w, p, od, osrmAccess, osrmEgress, resetAccessPaths, resetFilters) ==
  LET c == calc[w] IN
  /\ c.params = NoParams => resetAccessPaths /\ resetFilters
  /\ ~resetAccessPaths => od = c.odTrip /\ FootpathInputs(p) = FootpathInputs(c.params)
  /\ ~resetFilters => FilterInputs(p) = FilterInputs(c.params)
  /\ calc' = [calc EXCEPT ![w] = ResetCalc(c, p, od, osrmAccess, osrmEgress,
                                           resetAccessPaths, resetFilters)]

Next ==
  \E w \in Workers, p \in ParamsChoices, od \in OdTripIdx \cup {NoOdTrip},
     oa, oe \in OsrmFootpaths, ra, rf \in BOOLEAN :
    ResetQuery(w, p, od, oa, oe, ra, rf)

Spec == Init /\ [][Next]_calc

-----------------------------------------------------------------------------
FootpathNodes(fps) == {fps[k][1] : k \in DOMAIN fps}

(* The walk the labels of node n come from: its last footpath entry. *)
LastWalk(c, fps, n) ==
  WalkSeconds(c.params, fps[Max({k \in DOMAIN fps : fps[k][1] = n})][2])

Walks(c, fps) == {WalkSeconds(c.params, fps[k][2]) : k \in DOMAIN fps}

TypeOK ==
  \A w \in Workers :
    LET c == calc[w] IN
    /\ c.params \in ParamsChoices \cup {NoParams}
    /\ c.odTrip \in OdTripIdx \cup {NoOdTrip}
    /\ \A k \in DOMAIN c.accessFootpaths : c.accessFootpaths[k][1] \in Nodes
    /\ \A k \in DOMAIN c.egressFootpaths : c.egressFootpaths[k][1] \in Nodes
    /\ c.nodesTentativeTime \in [Nodes -> Int]
    /\ c.nodesReverseTentativeTime \in [Nodes -> Int]
    /\ c.nodesAccessTravelTime \in [Nodes -> Int]
    /\ c.nodesEgressTravelTime \in [Nodes -> Int]
    /\ c.tripsEnabled \in [Trips -> {-1, 1}]
    /\ c.departureTimeSeconds \in Int /\ c.arrivalTimeSeconds \in Int

(* After any sequence of resets, with footpaths reused or re-resolved and *)
(* anchors and walking speed changing between queries, every node's       *)
(* access/egress time, journey walk and tentative time come from the       *)
(* current footpath lists and anchors (nothing survives from an earlier    *)
(* query), and the min/max access and egress times bound exactly the       *)
(* current lists, as the CSA kernel's pruning assumes.                     *)
ScratchMatchesFootpaths ==
  \A w \in Workers :
    LET c == calc[w] IN
    c.params # NoParams =>
    /\ \A n \in Nodes :
         IF n \in FootpathNodes(c.accessFootpaths)
         THEN LET ft == LastWalk(c, c.accessFootpaths, n) IN
              /\ c.nodesAccessTravelTime[n] = ft
              /\ c.forwardJourneys[n] = ft
              /\ c.nodesTentativeTime[n] = c.departureTimeSeconds + ft + c.params.minWaitingTimeSeconds
         ELSE /\ c.nodesAccessTravelTime[n] = -1
              /\ c.forwardJourneys[n] = -1
              /\ c.nodesTentativeTime[n] = MAX_INT
    /\ \A n \in Nodes :
         IF n \in FootpathNodes(c.egressFootpaths)
         THEN LET ft == LastWalk(c, c.egressFootpaths, n) IN
              /\ c.nodesEgressTravelTime[n] = ft
              /\ c.reverseJourneys[n] = ft
              /\ c.nodesReverseTentativeTime[n] = c.arrivalTimeSeconds - ft
         ELSE /\ c.nodesEgressTravelTime[n] = -1
              /\ c.reverseJourneys[n] = -1
              /\ c.nodesReverseTentativeTime[n] = -1
    /\ c.minAccessTravelTime = IF c.accessFootpaths = <<>> THEN MAX_INT ELSE Min(Walks(c, c.accessFootpaths))
    /\ c.maxAccessTravelTime = IF c.accessFootpaths = <<>> THEN -1 ELSE Max(Walks(c, c.accessFootpaths))
    /\ c.minEgressTravelTime = IF c.egressFootpaths = <<>> THEN MAX_INT ELSE Min(Walks(c, c.egressFootpaths))
    /\ c.maxEgressTravelTime = IF c.egressFootpaths = <<>> THEN -1 ELSE Max(Walks(c, c.egressFootpaths))

(* Spec 4.C step 4: for each access node n with walk w of the OD trip,    *)
(* nodesAccessTravelTime[n] is w scaled by the walking speed (and the same *)
(* for egress).  reset pairs every node with the first node's time.        *)
AccessTimesFromOdTrip ==
  \A w \in Workers :
    LET c == calc[w] IN
    c.params # NoParams /\ c.odTrip # NoOdTrip =>
      LET od == OdTripData[c.odTrip] IN
      \A k \in DOMAIN od.originNodesIdx :
        (\A j \in DOMAIN od.originNodesIdx : j # k => od.originNodesIdx[j] # od.originNodesIdx[k])
          => c.nodesAccessTravelTime[od.originNodesIdx[k]]
               = WalkSeconds(c.params, od.originNodesTravelTimesSeconds[k])

(* Spec 4.C step 6 and 9.2: a trip is enabled exactly when it passes the  *)
(* include and exclude lists, the node lists being matched against the     *)
(* nodes of the trip's path.  reset matches them against the mode index.   *)
ScenarioAllows(p, t) ==
  /\ OnlyAllows(p.onlyServicesIdx, TripServiceIdx[t])
  /\ OnlyAllows(p.onlyLinesIdx, TripLineIdx[t])
  /\ OnlyAllows(p.onlyModesIdx, TripModeIdx[t])
  /\ p.onlyNodesIdx = {} \/ p.onlyNodesIdx \cap TripPathNodes[t] # {}
  /\ OnlyAllows(p.onlyAgenciesIdx, TripAgencyIdx[t])
  /\ ExceptAllows(p.exceptServicesIdx, TripServiceIdx[t])
  /\ ExceptAllows(p.exceptLinesIdx, TripLineIdx[t])
  /\ p.exceptNodesIdx \cap TripPathNodes[t] = {}
  /\ ExceptAllows(p.exceptModesIdx, TripModeIdx[t])
  /\ ExceptAllows(p.exceptAgenciesIdx, TripAgencyIdx[t])

TripMaskMatchesScenario ==
  \A w \in Workers :
    calc[w].params # NoParams =>
      \A t \in Trips : (calc[w].tripsEnabled[t] = 1) <=> ScenarioAllows(calc[w].params, t)
=============================================================================
