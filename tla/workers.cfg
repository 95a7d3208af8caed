\* Three requests to two processes whose clocks may differ by a second; two accepted bids
\* and two stopping workers; two bot jobs, an event delivered twice, one stop.
SPECIFICATION MCSpec
CONSTANTS
    Apis = {a1, a2}
    Skew = 1
    Burst = 2
    WindowMax = 2
    MaxClock = 1
    MaxRequests = 3
    MaxTroubles = 1
    Users = {"u1", "u2"}
    Keys = {"", "a:b", "a_b"}
    Attempts = 2
    MaxAccepted = 2
    MaxStops = 1
    MaxWorkerStops = 2
    Slots = {i1, i2}
    Target = 1
    MaxBots = 2
    MaxDeliveries = 2
    MaxByHand = 2
INVARIANTS
    BucketBound
    PoolAsConfigured
    OneBidPerDelivery
PROPERTIES
    AcceptedIsTried
\* Requests, stops and deliveries reach their bounds.
CHECK_DEADLOCK FALSE
