SPECIFICATION MCSpec
CONSTANTS
    Settings <- NoSettings
    PathSettings <- NoSettings
    EndpointSettings <- NoSettings
    RequestSettings <- OnlyReloads
INVARIANTS
    RequestsKeepGeneration
CHECK_DEADLOCK FALSE
