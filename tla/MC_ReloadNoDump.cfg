\* Reset on, dump off: listen_clients reloads only a CP that has not come back, failed diag opens included.
SPECIFICATION Spec
CONSTANTS
    IsReset = TRUE
    IsDump = FALSE
    Devices <- MC_AssertOnly
    BootCases <- MC_BootAll
    MaxFaults = 2
    MaxBlocks = 1
    MaxBootFail = 1
    MaxSelfFail = 1
    MaxDiagFail = 1
    MaxOther = 1
    MaxSpMsgs = 1
    AliveInTime = TRUE
PROPERTY ReloadOnlyFailed
\* The daemon's threads block on reads once the CP runs and no event is due.
CHECK_DEADLOCK FALSE
