\* The lock is handed over from one swap to the next while the reaper decides.
SPECIFICATION Spec
CONSTANTS
    u1 = u1
    h1 = h1
    h2 = h2
    t1 = t1
    t2 = t2
    o1 = o1
    v1 = v1
    Whole = Whole
    None = None
    Unnamed = Unnamed
    NoTask = NoTask
    Reaper = Reaper
    Units = {u1}
    Lane1 = u1
    Holders = {h1, h2}
    Names = {o1, v1}
    OModels = {o1}
    VModels = {v1}
    Launchable = {v1}
    Barred = {}
    Canon <- CanonMC
    MaxLeases = 1
    MaxPriority = 1
    Tasks = {t1, t2}
    Requests <- RequestsMC
    Offers <- OffersMC
    PreemptActive = TRUE
    PreemptLeasedIdle = FALSE
SYMMETRY TaskSymmetry
PROPERTIES
    ReapsUnclaimedIdle
CHECK_DEADLOCK FALSE
