\* Reset on, dump off: crashes, hangs, a load after which the CP never boots, an SP message; every way the daemon starts.
SPECIFICATION Spec
CONSTANTS
    IsReset = TRUE
    IsDump = FALSE
    Devices <- MC_AssertOnly
    BootCases <- MC_BootAll
    MaxFaults = 2
    MaxBlocks = 0
    MaxBootFail = 1
    MaxSelfFail = 0
    MaxDiagFail = 0
    MaxOther = 0
    MaxSpMsgs = 1
    AliveInTime = TRUE
PROPERTY RecoversFromFault
\* The daemon's threads block on reads once the CP runs and no event is due.
CHECK_DEADLOCK FALSE
