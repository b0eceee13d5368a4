CONSTANTS
  Nodes <- MCNodes
  Trips <- MCTrips
  TripServiceIdx <- MCTripServiceIdx
  TripLineIdx <- MCTripLineIdx
  TripModeIdx <- MCTripModeIdx
  TripAgencyIdx <- MCTripAgencyIdx
  TripPathNodes <- MCTripPathNodes
  TripConnections <- MCTripConnections
  OdTripData <- MCOdTripData
  OsrmFootpaths <- MCOsrmFootpaths
  ParamsChoices <- MCQueries
  Workers <- MCWorkers
  NoOdTrip = NoOdTrip
  NoParams = NoParams
  MAX_INT = 2147483647
SPECIFICATION Spec
INVARIANT AccessTimesFromOdTrip
