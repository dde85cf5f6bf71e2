\* One external-modem reload whose SPL image copy fails, with one
\* warm-reset thread: the load ends with the CP stopped and its lock held.
CONSTANTS
  h1 = h1
  h2 = h2
  Handlers <- MC_Handlers1
  Requests <- MC_RequestsExternal
  InitRun = "started"
  MaxLoads = 1
  MaxSplFail = 1
  MaxDdrLate = 0
SPECIFICATION Spec
PROPERTY LoadRefinesModemLoad
CHECK_DEADLOCK FALSE
