SPECIFICATION MCSpec
CONSTANTS
    get = get
    hook = hook
    post = post
    put = put
    Exchanges = {get, hook, post, put}
    MaskBits = 32
    Resendable = {get}
    WithBody = {post, put}
    FromClient = {post}
    Streamed = {put}
    Priority = {hook}
    MaxConnections = 1
    Reserved = 0
    QueueDepth = 1
    MaxIdle = 1
    IdleTimeout = 1
    MaxFails = 2
    Settings <- AllExchanges
INVARIANTS
    OnceEach
    
    BodiesExact
PROPERTIES
    PoolsImplemented
    EventuallyEnded
    EveryoneAnswered
CHECK_DEADLOCK FALSE
