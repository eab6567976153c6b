SPECIFICATION Spec
CONSTANTS
  AuthServers <- Servers
  Scenarios = {"authorization-server-migration", "wif-jwt-bearer", "other"}
  Advertisements <- MixedAdvertisements
  Faults = FALSE
  MaxDisturbances = 2
  MaxRefreshes = 6
PROPERTIES
  SessionEnds
  MigrationPasses
