SPECIFICATION MCSpec
CONSTANTS
    Settings <- AllHandshakes
    PathSettings <- AllPaths
    EndpointSettings <- AllEndpoints
    RequestSettings <- AllRequests
INVARIANTS
    HandshakeGoesOn
    PathHolds
    EndpointTrue
    RequestsServed
CHECK_DEADLOCK FALSE
