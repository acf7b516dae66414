SPECIFICATION FairSpec
CONSTANTS
    Minter = Minter
    NoAddress = NoAddress
    Virtual = "Virtual"
    PaidBoxes = {"Bronze"}
    Users = {u1}
    Treasuries = {t1}
    Owners = {o1}
    Carts <- MixedCarts
    PortraitInfos <- NoInfos
    AccessoryInfos <- NoInfos
    WindowBounds = {0, 1}
    FreeLimits = {2}
    MsgValues = {0}
    IlvRates = {1}
    UserFunds = 0
    MaxFree = 2
    MaxTime = 1
    MaxNonce = 2
    MaxLink = 2
    VrfFee = 1
    RandomWords = {7}
    MockCoordinator = FALSE
INVARIANTS
    TypeOK
    TokenIdsExclusive
    CallbacksAreAccepted
PROPERTIES
    ImplementsService
    PaidRequestsAreSettled
CHECK_DEADLOCK FALSE
