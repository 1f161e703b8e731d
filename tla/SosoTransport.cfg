SPECIFICATION FairSpec
CONSTANTS
    Paths = {"snapshot", "klines"}
    NumFlights = 2
    MIN_GAP = 2
    BUCKET_CAPACITY = 2
    MAX_QUEUE_WAIT = 3
    Ttl <- MCTtl
    AUTH_BACKOFF = 1
    QUOTA_BACKOFF = 1
    RATE_LIMIT_BACKOFF = 1
    TRANSIENT_BACKOFF = 2
    TRANSPORT_BACKOFF = 1
    NOT_FOUND_TTL = 1
    FETCH_TIMEOUT = 1
    RETRY_DELAY = 1
    Window = 2
INVARIANTS
    OneReadPerPath
    SnapshotCurrent
    QueueIsSpaced
    RateBound
PROPERTIES
    BackoffNeverShortened
    EveryReadEnds
    BackoffsEnd
