\* Separate alive and watchdog devices: a CP that asserts right after reporting alive.
SPECIFICATION Spec
CONSTANTS
    IsReset = TRUE
    IsDump = FALSE
    Devices <- MC_AllDevices
    BootCases <- MC_BootShutdown
    MaxFaults = 2
    MaxBlocks = 0
    MaxBootFail = 1
    MaxSelfFail = 0
    MaxDiagFail = 0
    MaxOther = 0
    MaxSpMsgs = 0
    AliveInTime = TRUE
PROPERTY RecoversFromFault
\* The daemon's threads block on reads once the CP runs and no event is due.
CHECK_DEADLOCK FALSE
