CONSTANTS
  StopsFiles <- MCStopsFiles
  RoutesFiles <- MCRoutesFiles
  TripsFiles <- MCTripsFiles
  ConnectionsFiles <- MCConnectionsFiles
  FootpathsFiles <- MCFootpathsFiles
  OdTripsFiles <- MCOdTripsFiles
  OdTripIndexesFiles <- MCOdTripIndexesFiles
  Missing = Missing
SPECIFICATION Spec
CHECK_DEADLOCK FALSE
INVARIANT LoadedIndicesInRange
