\* Two warm-reset threads and two loads of any kind, racing for the CP's
\* write lock; no image copy fails and the remote is never late.
CONSTANTS
  h1 = h1
  h2 = h2
  Handlers <- MC_Handlers2
  Requests <- MC_RequestsAll
  InitRun = "started"
  MaxLoads = 2
  MaxSplFail = 0
  MaxDdrLate = 0
SPECIFICATION Spec
PROPERTY LoadRefinesModemLoad
PROPERTY WarmResetServed
CHECK_DEADLOCK FALSE
