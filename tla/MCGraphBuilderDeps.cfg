\* What the path of a nested Looper reads may run after the outer Looper.
CONSTANTS
    Configs <- DepConfigs
    Default = "default"
SPECIFICATION Spec
INVARIANT RunsAfterItsInputs
