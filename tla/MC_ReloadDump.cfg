\* Reset and dump on: one rild block report starts two recoveries, and the read thread's dump state is never reset.
SPECIFICATION Spec
CONSTANTS
    IsReset = TRUE
    IsDump = TRUE
    Devices <- MC_AssertOnly
    BootCases <- MC_BootShutdown
    MaxFaults = 1
    MaxBlocks = 1
    MaxBootFail = 0
    MaxSelfFail = 0
    MaxDiagFail = 0
    MaxOther = 1
    MaxSpMsgs = 0
    AliveInTime = TRUE
PROPERTY ReloadOnlyFailed
\* The daemon's threads block on reads once the CP runs and no event is due.
CHECK_DEADLOCK FALSE
