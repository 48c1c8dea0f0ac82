\* Two claims by two holders, one of them on a model that is reported under its
\* served name, and swaps by other tasks at any time.
SPECIFICATION FairSpec
CONSTANTS
    u1 = u1
    h1 = h1
    h2 = h2
    m1 = m1
    m2 = m2
    served1 = served1
    Whole = Whole
    Units = {u1}
    Holders = {h1, h2}
    Names = {m1, m2, served1}
    Canon <- CanonMC
    MaxLeases = 2
    MaxPriority = 0
    Lanes = {}
    Served = {served1}
    Offers <- OffersMC
    FreeHolders = {h1}
INVARIANTS
    TypeOK
PROPERTIES
    FreeSparesOthers
    ReapedHeldNothing
    GhostsGo
    QueuedFreesEnd
