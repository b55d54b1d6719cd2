SPECIFICATION Spec
CONSTANTS
    Configs <- AllConfigs
    NoConfig = NoConfig
    Malformed = {"Bad"}
    MaxDuration = 7
INVARIANTS
    TypeOK
    NoPanic
    EachRunsItsOwn
    SelectorsDistinct
    BudgetsFit
