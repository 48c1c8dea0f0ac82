SPECIFICATION CookbookSpec
CONSTANTS
    u1 = u1  u2 = u2  g12 = g12  n1 = n1  m1 = m1  lone = lone  span = span
    Units = {u1, u2}
    Groups = {g12}
    Names = {n1}
    Applies = {a1, a2}
    Members <- MembersMC
    Models = {m1, lone}
    Wide = {span}
    Catalog <- CatalogMC
    Lone = {lone}
    Mem <- MemMC
    Holds <- HoldsMC
    Edits <- EditsMC
    Books <- BooksMC
    None = None
    MaxChanges = 1
SYMMETRY Interchangeable
INVARIANT CookbookTypeOK
PROPERTIES AppliedMatches LoneGoesFirst
