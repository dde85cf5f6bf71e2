\* The wake lock during a reload while listen_modem handles a message.
SPECIFICATION Spec
CONSTANTS
    IsReset = TRUE
    IsDump = FALSE
    Devices <- MC_AssertOnly
    BootCases <- MC_BootShutdown
    MaxFaults = 1
    MaxBlocks = 1
    MaxBootFail = 0
    MaxSelfFail = 0
    MaxDiagFail = 0
    MaxOther = 0
    MaxSpMsgs = 0
    AliveInTime = TRUE
INVARIANT WakeLockHeldWhileLoading
\* The daemon's threads block on reads once the CP runs and no event is due.
CHECK_DEADLOCK FALSE
