\* Two requests and the reaper on an unclaimed lane: nothing hangs on the swap lock.
SPECIFICATION FairSpec
CONSTANTS
    u1 = u1
    h1 = h1
    h2 = h2
    t1 = t1
    t2 = t2
    o1 = o1
    v1 = v1
    Whole = Whole
    None = None
    Unnamed = Unnamed
    NoTask = NoTask
    Reaper = Reaper
    Units = {u1}
    Lane1 = u1
    Holders = {h1, h2}
    Names = {o1, v1}
    OModels = {o1}
    VModels = {v1}
    Launchable = {v1}
    Barred = {v1}
    Canon <- CanonMC
    MaxLeases = 1
    MaxPriority = 1
    Tasks = {t1, t2}
    Requests <- RequestsLive
    Offers = {}
    PreemptActive = TRUE
    PreemptLeasedIdle = FALSE
PROPERTIES
    SwapsEnd
CHECK_DEADLOCK FALSE
