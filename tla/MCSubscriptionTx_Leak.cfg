CONSTANTS
    a1 = a1
    a2 = a2
    s1 = s1
    s2 = s2
    Clients <- MCClients
    SubIds <- MCSubIds
    Vers <- MCVers
    PushMayFail = TRUE
    Absent = Absent
    Stale = Stale
    NoVersion = NoVersion
    Free = Free
    Leaked = Leaked
    NoCall = NoCall
SPECIFICATION Spec
PROPERTY CallsReturn
CHECK_DEADLOCK FALSE
