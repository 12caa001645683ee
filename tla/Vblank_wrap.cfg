SPECIFICATION Spec

CONSTANTS
    t1 = t1
    t2 = t2
    e1 = e1
    None = None
    Threads = {t1}
    Events = {e1}
    MaxHw = 2
    HwReset = 1
    CountMod = 16
    Window = 4
    RbSize = 2
    TimeMod = 7
    Wraps = FALSE
    InitCount = 14
    Requests <- Around
    Devices <- UsualOnly
    TimesOut = TRUE
    MaxModesets = 2

SYMMETRY Symmetry

PROPERTIES
    CountFollowsTime
