\* Two swaps on a node of two slots, with one claim.
SPECIFICATION Spec
CONSTANTS
    s1 = s1
    h1 = h1
    h2 = h2
    t1 = t1
    t2 = t2
    a = a
    w = w
    Whole = Whole
    None = None
    NoTask = NoTask
    Units = {s1}
    Node = s1
    Holders = {h1, h2}
    Names = {a, w}
    Canon <- CanonMC
    MaxLeases = 1
    MaxPriority = 1
    Ports = {1, 2}
    Mem <- MemMC
    Default = 16
    Total = 20
    Slack = 1
    Pool = 19
    Lone = {w}
    Wide = {a}
    Barred = {a}
    Tasks = {t1, t2}
    Requests <- RequestsMC
    Offers <- OffersMC
    PreemptActive = TRUE
    PreemptLeasedIdle = FALSE
    ProbesFail = TRUE
    StopsFail = TRUE
SYMMETRY TaskSymmetry
CHECK_DEADLOCK FALSE
INVARIANTS
    TypeOK
    LoneIsAlone
PROPERTIES
    OvercommitIsBlind
    NoHotVictim
    EvictedIsUnclaimed
    SuccessIsOwnLaunch
