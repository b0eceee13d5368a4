----------------------------- MODULE CacheFetcher -----------------------------
(***************************************************************************)
(* CacheFetcher (src/src/cache_fetcher.cpp, src/include/cache_fetcher.hpp): *)
(* the loaders that read the network and the OD population from cache      *)
(* files.  Each loader is one step; they run in the order of the spec's    *)
(* dataflow (stops, routes, trips, connections, footpaths, OD trips).      *)
(*                                                                          *)
(* A cache file is either Missing (protobufCacheFileExists false, or, for  *)
(* the boost files, cacheFileExists false: absent or of size 0) or holds a *)
(* sequence of records.  Records keep only what the loaders and the        *)
(* properties tell apart: an id and a tag telling copies of one id apart   *)
(* for stops, routes, trips and OD trips; the stop and trip indices of a   *)
(* connection; the stop indices of a footpath.  Messages to std::cerr are  *)
(* kept as the entity name each one prints.                                 *)
(***************************************************************************)
EXTENDS Integers, Sequences, SequencesExt

CONSTANTS
  StopsFiles, RoutesFiles, TripsFiles,  \* Missing or Seq([id, tag])
  ConnectionsFiles,                     \* Missing or [forward, reverse: Seq(<<dep stop, arr stop, trip>>)]
  FootpathsFiles,                       \* Missing or [footpaths: Seq(<<stop, stop>>), ranges: Seq(<<first, last>>)]
  OdTripsFiles,                         \* Missing or Seq([id, tag])
  OdTripIndexesFiles,                   \* Missing or [od trip id -> index]
  Missing                               \* model value: no usable cache file

Stages == <<"stops", "routes", "trips", "connections", "footpaths", "od_trips", "loaded">>

VARIABLES
  file,      \* the cache files, as found when loading starts
  stage,     \* the next loader to run
  net,       \* the vectors and id maps the loaders return
  messages   \* entity names printed by "missing ... cache file!"

vars == <<file, stage, net, messages>>

(* The loader that runs after loader s. *)
Successor(s) == Stages[(CHOOSE k \in 1..Len(Stages) - 1 : Stages[k] = s) + 1]

EmptyNet ==
  [stops |-> <<>>, stopIndexesById |-> <<>>, routes |-> <<>>, routeIndexesById |-> <<>>,
   trips |-> <<>>, tripIndexesById |-> <<>>, forwardConnections |-> <<>>,
   reverseConnections |-> <<>>, footpaths |-> <<>>, footpathsRanges |-> <<>>,
   odTrips |-> <<>>, odTripIndexesById |-> <<>>]

Init ==
  /\ file \in [stops: StopsFiles, routes: RoutesFiles, trips: TripsFiles,
               connections: ConnectionsFiles, footpaths: FootpathsFiles,
               od_trips: OdTripsFiles, od_trip_indexes: OdTripIndexesFiles]
  /\ stage = "stops"
  /\ net = EmptyNet
  /\ messages = <<>>

-----------------------------------------------------------------------------
(* The id map taken before push_back: stops.size() - 1 is one too small. *)
IndexByIdBeforePush(records) ==
  FoldLeft(LAMBDA acc, r : [vec |-> Append(acc.vec, r),
                            ids |-> (r.id :> Len(acc.vec) - 1) @@ acc.ids],
           [vec |-> <<>>, ids |-> <<>>], records)

(* The id map taken after push_back but with stops.size(). *)
IndexByIdSize(records) ==
  FoldLeft(LAMBDA acc, r : [vec |-> Append(acc.vec, r),
                            ids |-> (r.id :> Len(acc.vec) + 1) @@ acc.ids],
           [vec |-> <<>>, ids |-> <<>>], records)

(* Lines 16-33 (and 52-68, 86-100): push_back each record, then           *)
(* xIndexesById[id] = size() - 1, the 0-based index of the record just     *)
(* pushed; a later record with the same id overwrites the entry.           *)
IndexById(records) ==
  FoldLeft(LAMBDA acc, r : [vec |-> Append(acc.vec, r),
                            ids |-> (r.id :> Len(acc.vec)) @@ acc.ids],
           [vec |-> <<>>, ids |-> <<>>], records)

(* A loader of an indexed entity: the vector and its id map when the file  *)
(* is there, else empty ones and a message.                                 *)
LoadIndexed(kind, vecField, idsField) ==
  /\ stage = kind
  /\ IF file[kind] = Missing
     THEN /\ messages' = Append(messages, kind)
          /\ UNCHANGED net
     ELSE LET loaded == IndexById(file[kind]) IN
          /\ net' = [net EXCEPT ![vecField] = loaded.vec, ![idsField] = loaded.ids]
          /\ UNCHANGED messages
  /\ stage' = Successor(kind)
  /\ UNCHANGED file

(* CacheFetcher::getStops, lines 6-40. *)
GetStops == LoadIndexed("stops", "stops", "stopIndexesById")

(* CacheFetcher::getRoutes, lines 42-75. *)
GetRoutes == LoadIndexed("routes", "routes", "routeIndexesById")

(* CacheFetcher::getTrips, lines 77-107. *)
GetTrips == LoadIndexed("trips", "trips", "tripIndexesById")

(* CacheFetcher::getConnections, lines 109-157: both streams copied in    *)
(* file order; the stop and trip id maps it is given are not used.        *)
GetConnections ==
  /\ stage = "connections"
  /\ IF file.connections = Missing
     THEN /\ messages' = Append(messages, "connections")
          /\ UNCHANGED net
     ELSE /\ net' = [net EXCEPT !.forwardConnections = file.connections.forward,
                                !.reverseConnections = file.connections.reverse]
          /\ UNCHANGED messages
  /\ stage' = "footpaths"
  /\ UNCHANGED file

(* CacheFetcher::getFootpaths, lines 159-198; its missing-file message    *)
(* (line 194) says "trips".                                                *)
GetFootpaths ==
  /\ stage = "footpaths"
  /\ IF file.footpaths = Missing
     THEN /\ messages' = Append(messages, "trips")
          /\ UNCHANGED net
     ELSE /\ net' = [net EXCEPT !.footpaths = file.footpaths.footpaths,
                                !.footpathsRanges = file.footpaths.ranges]
          /\ UNCHANGED messages
  /\ stage' = "od_trips"
  /\ UNCHANGED file

(* CacheFetcher::getOdTrips, lines 200-224: the OD trips and their id map *)
(* come from two files, each loaded (or reported missing) on its own.      *)
GetOdTrips ==
  /\ stage = "od_trips"
  /\ LET trips   == IF file.od_trips = Missing THEN <<>> ELSE file.od_trips
         indexes == IF file.od_trip_indexes = Missing THEN <<>> ELSE file.od_trip_indexes
     IN net' = [net EXCEPT !.odTrips = trips, !.odTripIndexesById = indexes]
  /\ messages' = messages \o SelectSeq(<<"od_trips", "od_trip_indexes">>,
                                       LAMBDA k : file[k] = Missing)
  /\ stage' = "loaded"
  /\ UNCHANGED file

Next == GetStops \/ GetRoutes \/ GetTrips \/ GetConnections \/ GetFootpaths \/ GetOdTrips

Spec == Init /\ [][Next]_vars

-----------------------------------------------------------------------------
Loaded == stage = "loaded"

IdMaps == {<<"stops", "stopIndexesById">>, <<"routes", "routeIndexesById">>,
           <<"trips", "tripIndexesById">>}

CacheTypeOK ==
  /\ stage \in ToSet(Stages)
  /\ \A m \in IdMaps : \A id \in DOMAIN net[m[2]] : net[m[2]][id] \in Nat
  /\ messages \in Seq({"stops", "routes", "trips", "connections", "od_trips", "od_trip_indexes"})

(* By-id lookup of stops, routes and trips (spec 4.A): every id in a map  *)
(* names a position inside its vector holding a record with that id, as   *)
(* each record is pushed and indexed, whether files are missing or ids     *)
(* repeat.                                                                  *)
IndexMapsPointToTheirRecord ==
  \A m \in IdMaps :
    \A id \in DOMAIN net[m[2]] :
      /\ net[m[2]][id] + 1 \in DOMAIN net[m[1]]
      /\ net[m[1]][net[m[2]][id] + 1].id = id

(* Spec 4.A and the loader contract: indices in connections and footpaths *)
(* are dense indices of the loaded stops and trips, and the OD trip id map  *)
(* points into the loaded OD trips.  A missing file only prints a message,  *)
(* and what is loaded from the other files indexes vectors that are empty.  *)
LoadedIndicesInRange ==
  Loaded =>
    /\ \A id \in DOMAIN net.odTripIndexesById : net.odTripIndexesById[id] \in 0..Len(net.odTrips) - 1
    /\ \A c \in ToSet(net.forwardConnections) \cup ToSet(net.reverseConnections) :
         /\ c[1] \in 0..Len(net.stops) - 1
         /\ c[2] \in 0..Len(net.stops) - 1
         /\ c[3] \in 0..Len(net.trips) - 1
    /\ \A f \in ToSet(net.footpaths) : f[1] \in 0..Len(net.stops) - 1 /\ f[2] \in 0..Len(net.stops) - 1
=============================================================================
