\* Two swaps on two groups that share their head and a worker, and on the nodes.
SPECIFICATION Spec
CONSTANTS
    n1 = n1
    n2 = n2
    n3 = n3
    A = A
    B = B
    t1 = t1
    t2 = t2
    m1 = m1
    None = None
    Unnamed = Unnamed
    Nodes = {n1, n2, n3}
    Groups = {A, B}
    Members <- MembersMC
    Models = {m1}
    Tasks = {t1, t2}
    Requests <- RequestsMC
    Running <- RunningMC
    Solos = {n2}
    BootOrder <- BootMC
    MaxRestarts = 1
    ProbesFail = TRUE
SYMMETRY TaskSymmetry
INVARIANTS
    TypeOK
    NoCircularWait
PROPERTIES
    ClaimedRanksAreSpared
    SuccessIsOwnLaunch
CHECK_DEADLOCK FALSE
