\* Reset off, dump on: every failure of the CP is reported to the clients, P-ARM asserts from the SP included.
SPECIFICATION Spec
CONSTANTS
    IsReset = FALSE
    IsDump = TRUE
    Devices <- MC_AssertOnly
    BootCases <- MC_BootFresh
    MaxFaults = 2
    MaxBlocks = 1
    MaxBootFail = 1
    MaxSelfFail = 0
    MaxDiagFail = 0
    MaxOther = 1
    MaxSpMsgs = 1
    AliveInTime = TRUE
PROPERTY FailureReported
\* The daemon's threads block on reads once the CP runs and no event is due.
CHECK_DEADLOCK FALSE
