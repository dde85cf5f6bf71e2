\* Separate alive and watchdog devices: every message the driver delivers is read.
SPECIFICATION Spec
CONSTANTS
    IsReset = FALSE
    IsDump = FALSE
    Devices <- MC_AllDevices
    BootCases <- MC_BootShutdown
    MaxFaults = 1
    MaxBlocks = 0
    MaxBootFail = 0
    MaxSelfFail = 0
    MaxDiagFail = 0
    MaxOther = 0
    MaxSpMsgs = 0
    AliveInTime = TRUE
PROPERTY DeviceEventsConsumed
\* The daemon's threads block on reads once the CP runs and no event is due.
CHECK_DEADLOCK FALSE
