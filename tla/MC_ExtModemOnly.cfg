\* The external build with the reboot-modem-only property set: after a
\* mini-AP panic listen_clients handles "Prepare Reset" by sending a
\* modem reset, not by loading the external images its comment promises.
CONSTANTS
  h1 = h1
  Handlers <- MC_Handlers
  Requests = {"all", "external", "modem"}
  InitRun = "stopped"
  MaxLoads = 4
  MaxSplFail = 0
  MaxDdrLate = 0
  IsReset = TRUE
  DumpOrca = TRUE
  ModemOnlyModes = {TRUE}
  AliveSeparate = FALSE
  MaxCrashes = 1
  MaxPanics = 1
  MaxDead = 1
SPECIFICATION Spec
PROPERTY PanicLoadsAllExternal
CHECK_DEADLOCK FALSE
