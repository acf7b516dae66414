SPECIFICATION Spec
CONSTANTS
    Digits = {1, 2}
    Separator = 10
    MaxPosition = 11
    MaxNumber = 121
    Revert = Revert
    Null = Null
    Throws = Throws
    TWO256 = 16
    MaxDigits = 3
    MaxLength <- MCMaxLength
    Elements <- MCElements
INVARIANTS
    PortraitFieldsAreRead
    TiersFollowTables
    AmountsAreDrawnToScale
    PercentsAreDrawnToScale
    RandomsAreInRange
    NotKeepsTheRest
    PagesAreTheNewest
    ConsistentMeansEqual
    SnapshotIsLatestOwner
CHECK_DEADLOCK FALSE
