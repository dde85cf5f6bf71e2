-------------------------- MODULE MC_ModemControl --------------------------
(* Instantiation of ModemControl for TLC.  The cfg files pick the policy  *)
(* properties and the bounds; the device sets and boot cases are named    *)
(* here.                                                                  *)
EXTENDS ModemControl

\* Only ro.vendor.modem.assert is monitored (the alive device is the
\* assert device and the watchdog node is absent).
MC_AssertOnly == {"assert_dev"}
\* Assert, watchdog and a separate alive device are all monitored.
MC_AllDevices == {"assert_dev", "watchdog_dev", "alive_dev"}

\* modem_ctrl_boot_modem with cmdline "modem=shutdown": the daemon loads
\* the CP itself.
MC_BootShutdown == {"shutdown"}
\* A restart of the daemon while the CP runs (modem_has_been_boot).
MC_BootRestart == {"alive"}
\* Every start the daemon loads the CP or waits for it.
MC_BootFresh == {"shutdown", "noload"}
\* A restart of the daemon with the CP already running included.
MC_BootAll == {"alive", "shutdown", "noload"}
=============================================================================
