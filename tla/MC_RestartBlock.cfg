\* The daemon restarts while the CP runs; then rild reports the CP blocked.
SPECIFICATION Spec
CONSTANTS
    IsReset = FALSE
    IsDump = FALSE
    Devices <- MC_AssertOnly
    BootCases <- MC_BootRestart
    MaxFaults = 0
    MaxBlocks = 1
    MaxBootFail = 0
    MaxSelfFail = 0
    MaxDiagFail = 0
    MaxOther = 0
    MaxSpMsgs = 0
    AliveInTime = TRUE
PROPERTY FailureReported
\* The daemon's threads block on reads once the CP runs and no event is due.
CHECK_DEADLOCK FALSE
