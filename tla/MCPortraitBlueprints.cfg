SPECIFICATION Spec
CONSTANTS
    Layer = "PortraitLayer"
    Accounts = {a1, a2}
    ImxMinter = ImxMinter
    NoAddress = NoAddress
    TokenIds = {1, 2}
    Blueprints <- SixFieldBlueprints
    Quantities = {1, 2}
    Digits = {0, 1, 2, 3, 4, 5, 6, 8}
    Separator = 10
    MaxPosition = 255
    MaxNumber = 999
    Revert = Revert
PROPERTIES
    PortraitsAreMinted
