\* A CP that reports alive at the end of the 60 s alive timer.
SPECIFICATION Spec
CONSTANTS
    IsReset = TRUE
    IsDump = FALSE
    Devices <- MC_AssertOnly
    BootCases <- MC_BootShutdown
    MaxFaults = 0
    MaxBlocks = 0
    MaxBootFail = 0
    MaxSelfFail = 0
    MaxDiagFail = 0
    MaxOther = 0
    MaxSpMsgs = 0
    AliveInTime = FALSE
PROPERTY NotAliveOnlyForDeadModem
\* The daemon's threads block on reads once the CP runs and no event is due.
CHECK_DEADLOCK FALSE
