\* Reset on, dump off, and one 'z' self-reset after which the CP never boots: after a
\* successful 5 s poll listen_clients re-arms no alive timer, so nothing notices.
SPECIFICATION Spec
CONSTANTS
    IsReset = TRUE
    IsDump = FALSE
    Devices <- MC_AssertOnly
    BootCases <- MC_BootAll
    MaxFaults = 1
    MaxBlocks = 0
    MaxBootFail = 0
    MaxSelfFail = 1
    MaxDiagFail = 0
    MaxOther = 0
    MaxSpMsgs = 0
    AliveInTime = TRUE
PROPERTY RecoversFromFault
\* The daemon's threads block on reads once the CP runs and no event is due.
CHECK_DEADLOCK FALSE
