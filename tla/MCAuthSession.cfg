SPECIFICATION Spec
CONSTANTS
  AuthServers <- Servers
  Scenarios <- DistinctScenarios
  Advertisements <- OneAdvertisement
  Faults = TRUE
  MaxDisturbances = 2
  MaxRefreshes = 2
INVARIANTS
  IInv
  RedeemedWhereIssued
  RegisteredThere
  ProofsMatchToken
  FollowsTheResource
