\* Two warm-reset threads and one modem-only reload; one SPL image copy
\* of a warm reset fails.
CONSTANTS
  h1 = h1
  h2 = h2
  Handlers <- MC_Handlers2
  Requests <- MC_RequestsModem
  InitRun = "started"
  MaxLoads = 1
  MaxSplFail = 1
  MaxDdrLate = 0
SPECIFICATION Spec
PROPERTY WarmResetServed
CHECK_DEADLOCK FALSE
