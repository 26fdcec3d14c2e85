CONSTANTS
    Inputs = {"lepton", "jet"}
    Unknown = "unknown"
    NoEvent = NoEvent
    MaxCalls = 3
    MaxPoints = 2
    Forked = {TRUE, FALSE}
SPECIFICATION Spec
INVARIANTS
    EventIsWhole
    HistogramIsOfThisIntegration
    AbortedIsReported
    IInv
