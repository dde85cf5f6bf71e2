\* The wake lock once every thread waits again, with SP messages and skipped requests.
SPECIFICATION Spec
CONSTANTS
    IsReset = TRUE
    IsDump = TRUE
    Devices <- MC_AssertOnly
    BootCases <- MC_BootShutdown
    MaxFaults = 1
    MaxBlocks = 1
    MaxBootFail = 0
    MaxSelfFail = 0
    MaxDiagFail = 0
    MaxOther = 1
    MaxSpMsgs = 1
    AliveInTime = TRUE
INVARIANT WakeLockReleasedWhenIdle
\* The daemon's threads block on reads once the CP runs and no event is due.
CHECK_DEADLOCK FALSE
