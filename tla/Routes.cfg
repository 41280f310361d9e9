SPECIFICATION Spec
CONSTANTS
  Translators = {wialon, echo}
  Dispatchers = {redis, logger}
  Ports = {5000, 5001}
  NoUid = NoUid
  MaxMappings = 3
  MaxInstances = 2
  MaxSources = 3
INVARIANTS RoutesAsConfigured MappedAsConfigured SessionRouted
CHECK_DEADLOCK FALSE
