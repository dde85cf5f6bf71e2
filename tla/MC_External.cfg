\* The external build with reset on and the orca dump on (so a modem that
\* never boots is reloaded, not the system rebooted), the alive report on
\* the assert device, one crash, one mini-AP panic, one dead boot, one
\* warm-reset thread, loads enough for the boot and each of them, and the
\* reboot-modem-only property either unset or set.
CONSTANTS
  h1 = h1
  Handlers <- MC_Handlers
  Requests = {"all", "external", "modem"}
  InitRun = "stopped"
  MaxLoads = 4
  MaxSplFail = 0
  MaxDdrLate = 0
  IsReset = TRUE
  DumpOrca = TRUE
  ModemOnlyModes = {FALSE, TRUE}
  AliveSeparate = FALSE
  MaxCrashes = 1
  MaxPanics = 1
  MaxDead = 1
SPECIFICATION Spec
PROPERTY ExtRecovers
CHECK_DEADLOCK FALSE
