---------------------------- MODULE MCCacheFetcher ----------------------------
(* Every combination of present, missing and duplicated cache files over  *)
(* two stops, one route, two trips and one OD trip.                         *)
EXTENDS CacheFetcher

Rec(id, tag) == [id |-> id, tag |-> tag]

(* A stops file with both stops, one repeating stop 10, or none. *)
MCStopsFiles == {Missing, <<Rec(10, 1), Rec(11, 1)>>, <<Rec(10, 1), Rec(11, 1), Rec(10, 2)>>}
MCRoutesFiles == {Missing, <<Rec(20, 1)>>}
MCTripsFiles == {Missing, <<Rec(30, 1), Rec(31, 1)>>}

(* Two connections of trips 0 and 1 between stops 0 and 1. *)
MCConnectionsFiles ==
  {Missing, [forward |-> << <<0, 1, 0>>, <<1, 0, 1>> >>, reverse |-> << <<1, 0, 1>>, <<0, 1, 0>> >>]}
MCFootpathsFiles ==
  {Missing, [footpaths |-> << <<0, 1>>, <<1, 0>> >>, ranges |-> << <<0, 0>>, <<1, 1>> >>]}
MCOdTripsFiles == {Missing, <<Rec(40, 1)>>}
MCOdTripIndexesFiles == {Missing, 40 :> 0}
=============================================================================
