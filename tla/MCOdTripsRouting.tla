--------------------------- MODULE MCOdTripsRouting ---------------------------
(* Six OD trips over three trips of two lines, sampled at 5/6 and split   *)
(* between two workers: worker 1 takes indices 0, 2 and 4, worker 2 takes  *)
(* 1 and 3.                                                                *)
EXTENDS OdTripsRouting

MCNodes == 0..2
MCTrips == 0..2
MCLines == 0..1
MCPaths == 0..1
MCTripServiceIdx == [t \in MCTrips |-> 0]
MCTripLineIdx    == (0 :> 0) @@ (1 :> 0) @@ (2 :> 1)
MCTripModeIdx    == [t \in MCTrips |-> 0]
MCTripAgencyIdx  == [t \in MCTrips |-> 0]
MCTripPathNodes  == (0 :> {0, 1, 2}) @@ (1 :> {0, 1, 2}) @@ (2 :> {1, 2})
MCTripConnections == [t \in MCTrips |-> 2]
MCPathSegments == [pa \in MCPaths |-> 2]

(* Trips 0 and 1 run path 0 at 10:00 and at 11:00-12:00; trip 2 runs path 1. *)
MCTripConnectionDepartureTimes ==
  (0 :> (0 :> 36000 @@ 1 :> 36300)) @@
  (1 :> (0 :> 39600 @@ 1 :> 43200)) @@
  (2 :> (0 :> 36000 @@ 1 :> 36600))

(* Trip 1 running late: its second connection departs at 29:00, past the *)
(* last hour bucket.                                                       *)
MCLateDepartureTimes ==
  [MCTripConnectionDepartureTimes EXCEPT ![1][1] = 104400]

OdTrip(dep, ef) ==
  [originNodesIdx |-> <<0, 1>>, originNodesTravelTimesSeconds |-> <<120, 300>>,
   destinationNodesIdx |-> <<2>>, destinationNodesTravelTimesSeconds |-> <<60>>,
   departureTimeSeconds |-> dep, expansionFactor |-> ef,
   ageGroup |-> "adult", gender |-> "f", occupation |-> "worker",
   destinationActivity |-> "work", mode |-> "transit", dataSource |-> "survey"]

(* Expansion factors in halves: 1, 1.5, 1, 0.5, 0.5 and 1. *)
MCOdTripData ==
  (0 :> OdTrip(35000, 2)) @@ (1 :> OdTrip(35500, 3)) @@ (2 :> OdTrip(36000, 2)) @@
  (3 :> OdTrip(40000, 1)) @@ (4 :> OdTrip(39000, 1)) @@ (5 :> OdTrip(37000, 2))

(* Leg: <<trip, line, path, first connection, last connection>>. *)
MCRouteResult ==
  (0 :> [legs |-> << <<0, 0, 0, 0, 1>> >>, totalTravelTime |-> 603]) @@
  (1 :> [legs |-> << <<1, 0, 0, 1, 1>>, <<2, 1, 1, 0, 0>> >>, totalTravelTime |-> 1501]) @@
  (2 :> NoRouting) @@
  (3 :> [legs |-> << <<0, 0, 0, 1, 1>> >>, totalTravelTime |-> 301]) @@
  (4 :> [legs |-> << <<1, 0, 0, 0, 1>> >>, totalTravelTime |-> 901]) @@
  (5 :> [legs |-> << <<2, 1, 1, 0, 1>> >>, totalTravelTime |-> 1200])

NoFilters ==
  [onlyServicesIdx |-> {}, onlyLinesIdx |-> {}, onlyModesIdx |-> {}, onlyNodesIdx |-> {},
   onlyAgenciesIdx |-> {}, exceptServicesIdx |-> {}, exceptLinesIdx |-> {},
   exceptNodesIdx |-> {}, exceptModesIdx |-> {}, exceptAgenciesIdx |-> {}]

(* Morning trips (the period ends at 40000, exclusive) of transit users. *)
MCBatchParams ==
  [forwardCalculation |-> TRUE, departureTimeSeconds |-> 36000, arrivalTimeSeconds |-> -1,
   accessNodesIdx |-> <<>>, accessNodeTravelTimesSeconds |-> <<>>,
   egressNodesIdx |-> <<>>, egressNodeTravelTimesSeconds |-> <<>>,
   walkingSpeedFactor |-> <<1, 1>>, minWaitingTimeSeconds |-> 180,
   returnAllNodesResult |-> FALSE, calculateAllOdTrips |-> TRUE,
   odTripsSampleRatio |-> <<5, 6>>, odTripsSampleSize |-> 0, batchesCount |-> 2,
   odTripsAgeGroups |-> {}, odTripsGenders |-> {}, odTripsOccupations |-> {},
   odTripsActivities |-> {}, odTripsModes |-> {"transit"}, onlyDataSource |-> NoDataSource,
   odTripsPeriods |-> << <<0, 40000>> >>] @@ NoFilters

(* The same batch asked to stop after two OD trips. *)
MCBatchParamsSampleSize == [MCBatchParams EXCEPT !.odTripsSampleSize = 2]

MCParamsChoices == {MCBatchParams}
MCParamsChoicesSampleSize == {MCBatchParamsSampleSize}
MCOsrmFootpaths == {<<>>}
MCWorkers == 1..2

=============================================================================
