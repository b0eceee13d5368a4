------------------------------- MODULE MCReset -------------------------------
(* A three-node, two-trip network and two queries for Calculator::reset. *)
EXTENDS Reset

MCNodes == 0..2
MCTrips == 0..1
MCTripServiceIdx == [t \in MCTrips |-> 0]
MCTripLineIdx    == [t \in MCTrips |-> t]
MCTripModeIdx    == [t \in MCTrips |-> t]
MCTripAgencyIdx  == [t \in MCTrips |-> 0]
MCTripPathNodes  == (0 :> {0, 1, 2}) @@ (1 :> {1, 2})
MCTripConnections == [t \in MCTrips |-> 2]

(* One OD trip reaching two origin nodes with different walks. *)
MCOdTripData ==
  0 :> [originNodesIdx |-> <<0, 1>>, originNodesTravelTimesSeconds |-> <<4, 9>>,
        destinationNodesIdx |-> <<2>>, destinationNodesTravelTimesSeconds |-> <<3>>,
        departureTimeSeconds |-> 50]

(* Walk-oracle answers; the last one lists node 1 twice. *)
MCOsrmFootpaths == { <<>>, << <<0, 4>> >>, << <<1, 5>>, <<2, 2>>, <<1, 3>> >> }

NoFilters ==
  [onlyServicesIdx |-> {}, onlyLinesIdx |-> {}, onlyModesIdx |-> {}, onlyNodesIdx |-> {},
   onlyAgenciesIdx |-> {}, exceptServicesIdx |-> {}, exceptLinesIdx |-> {},
   exceptNodesIdx |-> {}, exceptModesIdx |-> {}, exceptAgenciesIdx |-> {}]

(* A forward query (walk oracle for access and egress) and a reverse      *)
(* query (explicit access list, walking twice as fast, line 1 excluded). *)
ForwardQuery ==
  [forwardCalculation |-> TRUE, departureTimeSeconds |-> 100, arrivalTimeSeconds |-> -1,
   accessNodesIdx |-> <<>>, accessNodeTravelTimesSeconds |-> <<>>,
   egressNodesIdx |-> <<>>, egressNodeTravelTimesSeconds |-> <<>>,
   walkingSpeedFactor |-> <<1, 1>>, minWaitingTimeSeconds |-> 3,
   returnAllNodesResult |-> FALSE, calculateAllOdTrips |-> FALSE] @@ NoFilters

ReverseQuery ==
  [forwardCalculation |-> FALSE, departureTimeSeconds |-> -1, arrivalTimeSeconds |-> 200,
   accessNodesIdx |-> <<2>>, accessNodeTravelTimesSeconds |-> <<7>>,
   egressNodesIdx |-> <<>>, egressNodeTravelTimesSeconds |-> <<>>,
   walkingSpeedFactor |-> <<2, 1>>, minWaitingTimeSeconds |-> 3,
   returnAllNodesResult |-> FALSE, calculateAllOdTrips |-> FALSE]
  @@ [NoFilters EXCEPT !.exceptLinesIdx = {1}]

MCQueries == {ForwardQuery, ReverseQuery}

(* A scenario restricted to node 2 and excluding node 0. *)
MCNodeFilterQueries ==
  { [ForwardQuery EXCEPT !.onlyNodesIdx = {2}],
    [ForwardQuery EXCEPT !.exceptNodesIdx = {0}] }

MCWorkers == {"w1", "w2"}
=============================================================================
