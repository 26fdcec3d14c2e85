\* A cycle upstream of a Looper's path.
CONSTANTS
    Configs <- SoundConfigs
    Default = "default"
SPECIFICATION Spec
INVARIANT CyclesAreReported
