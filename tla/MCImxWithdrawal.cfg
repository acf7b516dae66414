SPECIFICATION FairSpec
CONSTANTS
    Runs = {r1, r2, r3, r4}
    Patience = 1
INVARIANTS
    ReceiptsExist
    ClaimsAreNotEarly
PROPERTIES
    ScriptsEnd
CHECK_DEADLOCK FALSE
