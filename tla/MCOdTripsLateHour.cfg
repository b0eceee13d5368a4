CONSTANTS
  Nodes <- MCNodes
  Trips <- MCTrips
  TripServiceIdx <- MCTripServiceIdx
  TripLineIdx <- MCTripLineIdx
  TripModeIdx <- MCTripModeIdx
  TripAgencyIdx <- MCTripAgencyIdx
  TripPathNodes <- MCTripPathNodes
  TripConnections <- MCTripConnections
  OdTripData <- MCOdTripData
  OsrmFootpaths <- MCOsrmFootpaths
  ParamsChoices <- MCParamsChoices
  Workers <- MCWorkers
  Lines <- MCLines
  Paths <- MCPaths
  PathSegments <- MCPathSegments
  TripConnectionDepartureTimes <- MCLateDepartureTimes
  RouteResult <- MCRouteResult
  BatchParams <- MCBatchParams
  EfScale = 2
  NoOdTrip = NoOdTrip
  NoParams = NoParams
  NoRouting = NoRouting
  NoDataSource = NoDataSource
  MAX_INT = 2147483647
SPECIFICATION BatchSpec
CHECK_DEADLOCK FALSE
INVARIANT PathTotalEqualsHourlySum
