SPECIFICATION FairSpec
CONSTANTS
    Undefined = Undefined
    Settings <- MCSettings
INVARIANTS
    MinterIsWired
    TablesReachMinter
    DearerBoxesAreBetter
    CollectionsCanBeWithdrawn
PROPERTIES
    ScriptsDoWhatTheyReturnFor
    RerunsKeepMinter
    RunsEnd
CHECK_DEADLOCK FALSE
