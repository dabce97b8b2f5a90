CONSTANTS
    MaxDigits = 2
    Stamps = {1, 31, 32, 330}
    Other = Other

SPECIFICATION Spec

INVARIANT VersionChecksSound

CHECK_DEADLOCK FALSE
