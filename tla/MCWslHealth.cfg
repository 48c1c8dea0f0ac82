\* Two callers, the boot and the background task; two timeouts open the breaker.
SPECIFICATION FairSpec
CONSTANTS
    c1 = c1
    c2 = c2
    Callers = {c1, c2}
    After = 2
    Retry = 1
    Cooldown = 2
    Deadline = 2
INVARIANTS
    TypeOK
    OneLadder
PROPERTIES
    WedgeIsCleared
    BreakerCloses
