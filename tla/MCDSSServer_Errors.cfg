CONSTANTS
    s1 = s1
    i1 = i1
    o1 = o1
    o2 = o2
    o3 = o3
    c1 = c1
    c2 = c2
    SubIds <- MCSubIds
    IsaIds <- MCIsaIds
    Owners <- MCOwners
    Cells <- MCCells
    ScopesOf <- MCScopesOf
    MaxClock = 3
    NotifMax = 1
    TiesPossible = FALSE
    NoRow = NoRow
    NoVersion = NoVersion
    NoOwner = NoOwner
    BadShape = BadShape
    BadNumber = BadNumber
    NoParams = NoParams

SPECIFICATION Spec


INVARIANT RepliesUseSpecErrors
