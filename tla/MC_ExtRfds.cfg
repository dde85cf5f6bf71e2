\* The external build with Modem Alive on its own device: listen_modem
\* sets its select set once, so after it has read the alive device only
\* that device is watched and a later assert is never read.
CONSTANTS
  h1 = h1
  Handlers <- MC_Handlers
  Requests = {"all", "external", "modem"}
  InitRun = "stopped"
  MaxLoads = 4
  MaxSplFail = 0
  MaxDdrLate = 0
  IsReset = TRUE
  DumpOrca = TRUE
  ModemOnlyModes = {FALSE, TRUE}
  AliveSeparate = TRUE
  MaxCrashes = 1
  MaxPanics = 1
  MaxDead = 1
SPECIFICATION Spec
PROPERTY ExtRecovers
CHECK_DEADLOCK FALSE
