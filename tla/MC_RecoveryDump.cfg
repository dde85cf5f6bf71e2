\* Reset and dump on: a crash or an rild block report, the dump waiter, slogmodem's DUMP COMPLETE and a failed boot.
SPECIFICATION Spec
CONSTANTS
    IsReset = TRUE
    IsDump = TRUE
    Devices <- MC_AssertOnly
    BootCases <- MC_BootShutdown
    MaxFaults = 1
    MaxBlocks = 1
    MaxBootFail = 1
    MaxSelfFail = 0
    MaxDiagFail = 0
    MaxOther = 1
    MaxSpMsgs = 0
    AliveInTime = TRUE
INVARIANT TypeOK
PROPERTY RecoversFromFault
\* The daemon's threads block on reads once the CP runs and no event is due.
CHECK_DEADLOCK FALSE
