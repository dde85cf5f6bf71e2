\* prepare_reset_modem cannot open the diag channel once.
SPECIFICATION Spec
CONSTANTS
    IsReset = TRUE
    IsDump = FALSE
    Devices <- MC_AssertOnly
    BootCases <- MC_BootShutdown
    MaxFaults = 1
    MaxBlocks = 0
    MaxBootFail = 0
    MaxSelfFail = 0
    MaxDiagFail = 1
    MaxOther = 0
    MaxSpMsgs = 0
    AliveInTime = TRUE
PROPERTY RecoversFromFault
\* The daemon's threads block on reads once the CP runs and no event is due.
CHECK_DEADLOCK FALSE
