\* A Spark with up to three rows beside a busy lane, or one row beside any lane.
SPECIFICATION FleetSpec
CONSTANTS
    Headroom = 3
    Window = 0
    MaxAge = 2
    Unmeasured = 9
    Priority <- PriorityMC
    EvictGroups = TRUE
    EvictLeasedIdle = TRUE
    EvictActive = TRUE
    RequireProven = TRUE
    Slots = 3
    Nodes <- NodesMC
    Lanes <- LanesMC
    Rows <- RowsMC
    Limit <- LimitMC
INVARIANTS
    RoomIsMade
    ProtectedAreSpared
CHECK_DEADLOCK FALSE
