\* Three claims by two holders on a unit with two models: conflicts behind conflicts,
\* renewals in grace next to a later claim, and frees that are queued for the unit.
SPECIFICATION Spec
CONSTANTS
    u1 = u1
    h1 = h1
    h2 = h2
    m1 = m1
    m2 = m2
    Whole = Whole
    Operator = Operator
    Placement = Placement
    Nobody = Nobody
    Units = {u1}
    Holders = {h1, h2}
    Names = {m1, m2}
    Canon <- CanonPlain
    MaxLeases = 3
    MaxHistory = 2
    MinTtl = 1
    MaxTtl = 1
    Ttls = {0}
    Priorities = {7}
    MaxPriority = 1
    Grace = 1
    FreeFor = {Whole}
SYMMETRY Symmetry
VIEW Distinct
INVARIANTS
    TypeOK
    NonPreemptibleKept
    GateSeesNonPreemptible
    OverlapOnlyByRevival
PROPERTIES
    EndIsFinal
    ImplementsBoard
CHECK_DEADLOCK FALSE
