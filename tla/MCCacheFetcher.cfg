CONSTANTS
  StopsFiles <- MCStopsFiles
  RoutesFiles <- MCRoutesFiles
  TripsFiles <- MCTripsFiles
  ConnectionsFiles <- MCConnectionsFiles
  FootpathsFiles <- MCFootpathsFiles
  OdTripsFiles <- MCOdTripsFiles
  OdTripIndexesFiles <- MCOdTripIndexesFiles
  Missing = Missing
SPECIFICATION Spec
INVARIANT CacheTypeOK
INVARIANT IndexMapsPointToTheirRecord
CHECK_DEADLOCK FALSE
