SPECIFICATION Spec
CONSTANTS
    Layer = "AccessoryLayer"
    Accounts = {a1, a2}
    ImxMinter = ImxMinter
    NoAddress = NoAddress
    TokenIds = {1, 2}
    Blueprints <- AccessoryBlueprints
    Quantities = {1, 2}
    Digits = {1, 2, 3, 5}
    Separator = 10
    MaxPosition = 255
    MaxNumber = 999
    Revert = Revert
PROPERTIES
    AccessoriesAreMinted
