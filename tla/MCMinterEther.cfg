SPECIFICATION Spec
CONSTANTS
    Minter = Minter
    NoAddress = NoAddress
    Virtual = "Virtual"
    PaidBoxes = {"Bronze"}
    Users = {u1}
    Treasuries = {t1}
    Owners = {o1}
    Carts <- PricedCarts
    PortraitInfos <- SomePortraitInfo
    AccessoryInfos <- SomeAccessoryInfo
    WindowBounds = {0, 1}
    FreeLimits = {2}
    MsgValues = {0, 1}
    IlvRates = {0, 2}
    UserFunds = 3
    MaxFree = 0
    MaxTime = 0
    MaxNonce = 2
    MaxLink = 2
    VrfFee = 1
    RandomWords = {7}
    MockCoordinator = FALSE
INVARIANTS
    EtherSentIsThePrice
CHECK_DEADLOCK FALSE
