CONSTANTS
    Inputs = {"lepton", "jet"}
    Unknown = "unknown"
    NoEvent = NoEvent
    MaxCalls = 3
    MaxPoints = 2
    Forked = {FALSE}
SPECIFICATION Spec
INVARIANT EveryIntegrationIsEnded
