\* A module reads a Looper it is not executed in.
CONSTANTS
    Configs <- LeakConfigs
    Default = "default"
SPECIFICATION Spec
INVARIANT LooperOutputsStayInside
