SPECIFICATION Spec
CONSTANTS
    Minter = Minter
    NoAddress = NoAddress
    Virtual = "Virtual"
    PaidBoxes = {"Bronze", "Diamond"}
    Users = {u1}
    Treasuries = {t1}
    Owners = {o1}
    Carts <- ResultCarts
    PortraitInfos <- DeployedPortraits
    AccessoryInfos <- DeployedAccessories
    WindowBounds = {0, 1}
    FreeLimits = {4}
    MsgValues = {0}
    IlvRates = {1}
    UserFunds = 0
    MaxFree = 2
    MaxTime = 0
    MaxNonce = 2
    MaxLink = 0
    VrfFee = 0
    RandomWords = {7}
    MockCoordinator = FALSE
    Randoms <- EdgeRandoms
INVARIANTS
    ResultsFillReservations
    ResultsAreWhatWasOrdered
    TraitsExist
CHECK_DEADLOCK FALSE
