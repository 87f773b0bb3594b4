SPECIFICATION FairSpec
CONSTANTS
  Sources <- MCSources
  Channels = 2
  connect_timeout = 2
  command_timeout = 1
  DriverWait = 2
CHECK_DEADLOCK FALSE
INVARIANTS TypeOK DialledAsConfigured RefusedOffline AllOrNothing EndsInTime
PROPERTIES Returns
