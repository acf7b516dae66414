SPECIFICATION Spec
CONSTANTS
    Senders = {s1, s2}
    This = This
    ZeroAddress = ZeroAddress
    ROLE_ACCESS_MANAGER = "access"
    ROLE_UPGRADE_MANAGER = "price"
    ROLE_PRICE_ORACLE_MANAGER = "price"
    Permissions = {"access", "price"}
    Implementations = {v1, v2}
    Thresholds = {1, 167, 191}
    Answers <- SomeAnswers
    Unit = 4
    EthAmounts = {0, 1, 2}
    StartTime = 200
    Elapses = {24, 144}
    MaxTime = 368
    MaxRound = 2
SYMMETRY Alike
INVARIANTS
    NoStalePrice
    TimelyFeedIsUsable
    SplittingSavesLittle
PROPERTIES
    ChangesAreAuthorized
    LostPermissionsStayLost
CHECK_DEADLOCK FALSE
