SPECIFICATION FairSpec

CONSTANTS
    t1 = t1
    t2 = t2
    e1 = e1
    None = None
    Threads = {t1}
    Events = {e1}
    MaxHw = 1
    HwReset = 1
    CountMod = 4
    Window = 1
    RbSize = 2
    TimeMod = 2
    Wraps = TRUE
    InitCount = 0
    Requests = {2}
    Devices <- ImpreciseOnly
    TimesOut = FALSE
    MaxModesets = 1

PROPERTIES
    EventsLeaveQueue

CHECK_DEADLOCK FALSE
