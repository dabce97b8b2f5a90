CONSTANTS
    s1 = s1
    s2 = s2
    i1 = i1
    o1 = o1
    o2 = o2
    c1 = c1
    c2 = c2
    SubIds <- MCSubIds
    IsaIds <- MCIsaIds
    Owners <- MCOwners
    Cells <- MCCells
    MaxClock = 3
    NotifMax = 1
    TiesPossible = FALSE
    NoRow = NoRow
    NoVersion = NoVersion

SPECIFICATION Spec

INVARIANT TypeOK
INVARIANT CellIndexExact
INVARIANT VersionNeverReused
PROPERTY NotificationCounterDiscipline
PROPERTY ImplementsAbstract
SYMMETRY Symmetry
