\* A module with two edges from cuba is re-indexed twice.
CONSTANTS
    Configs <- DimConfigs
    Default = "default"
SPECIFICATION Spec
INVARIANT DimensionsAreContiguous
