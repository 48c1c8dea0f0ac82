\* Two requests beside loads and unloads of others, on a Spark and a GPU lane.
SPECIFICATION Spec
CONSTANTS
    s = s
    l = l
    r1 = r1
    r2 = r2
    a = a
    b = b
    None = None
    Units = {s, l}
    Sparks = {s}
    Order <- OrderMC
    Ports <- PortsMC
    Models = {a, b}
    Mem <- MemMC
    Requests = {r1, r2}
    Asked <- AskedMC
    Start <- StartMC
    Loads <- LoadsMC
    Unloads <- UnloadsMC
    MaxJobs = 2
    MaxOthers = 1
    MaxMoves = 1
    MaxHistory = 1
    ProbesFail = FALSE
    Shaky = {s}
    Headroom = 3
    Window = 0
    MaxAge = 1
    Unmeasured = 9
    Priority <- PriorityMC
    EvictGroups = TRUE
    EvictLeasedIdle = TRUE
    EvictActive = TRUE
    RequireProven = TRUE
SYMMETRY RequestSymmetry
INVARIANTS
    TypeOK
    FreshAfterCommit
    OneLoadAtATime
PROPERTIES
    RoutedToItsModel
CHECK_DEADLOCK FALSE
