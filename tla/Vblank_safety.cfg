SPECIFICATION Spec

CONSTANTS
    t1 = t1
    t2 = t2
    e1 = e1
    None = None
    Threads = {t1, t2}
    Events = {e1}
    MaxHw = 7
    HwReset = 1
    CountMod = 16
    Window = 4
    RbSize = 2
    TimeMod = 4
    Wraps = FALSE
    InitCount = 14
    Requests <- Around
    Devices <- AllKinds
    TimesOut = TRUE
    MaxModesets = 1

SYMMETRY Symmetry

INVARIANTS
    ReferencesServed
    NoStrandedEvent
    CountCurrent

PROPERTIES
    CountFollowsTime
    

CHECK_DEADLOCK FALSE
