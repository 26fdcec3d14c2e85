\* The configurations after the unit tests, and all those of three modules and a Looper.
CONSTANTS
    Configs <- AllConfigs
    Default = "default"
SPECIFICATION FairSpec
INVARIANTS
    TypeOK
    KeptIsClosed
    UnresolvedWasNeverDeclared
    RunsAfterItsInputs
    KeptModulesAreExecuted
    DimensionsAreContiguous
    LooperOutputsStayInside
PROPERTY
    BuildEnds
