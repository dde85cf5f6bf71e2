--------------------------- MODULE ExternalControl ---------------------------
(***************************************************************************)
(* The external-modem build (FEATURE_EXTERNAL_MODEM) of the daemon's       *)
(* control threads, composed with its loader LoadOrchestrator.             *)
(*                                                                         *)
(* Threads:                                                                *)
(*   "main" modem_ctrl_boot_modem, then the SIGALRM handler                *)
(*          modem_ctrl_alive_timeout;                                      *)
(*   "lm"   modem_ctrl_listen_modem of external_modem_control.c;           *)
(*   "lc"   modem_ctrl_listen_clients, which runs load_modem_img itself;   *)
(*   the uevent thread, running modem_event_panic_process on MDM_CP_CRASH; *)
(*   the loader's steps and the warm-reset threads of LoadOrchestrator.    *)
(* The environment is the external modem: cp is "off", "booting" (images   *)
(* loaded and started), "alive" (it has written Modem Alive), "crashed"    *)
(* (it has written Modem Assert), "panic" (its mini AP has panicked),      *)
(* "reset" (it has reset itself on the 'z' command) or "dead" (it will     *)
(* never report alive).                                                    *)
(*                                                                         *)
(* modem_write_data_to_clients is modem_ctrl_process_message, whose        *)
(* effects on the control pipe matter here; the fan-out to the clients is  *)
(* ClientBus's.  persist.vendor.modem.savedump is off: the dump waiter is  *)
(* ModemControl's.  The warm-reset threads share the CP's write lock with  *)
(* the loader, as in LoadOrchestrator.                                     *)
(***************************************************************************)
EXTENDS Naturals, Sequences

CONSTANTS
    Handlers, Requests, InitRun, MaxLoads, MaxSplFail, MaxDdrLate,
    IsReset,       \* persist.vendor.modem.reset
    DumpOrca,      \* the sysdump property is "on"
    ModemOnlyModes, \* values the reboot-modem-only property may have
    AliveSeparate, \* the alive device is set and is not the assert device
    MaxCrashes,    \* modem asserts
    MaxPanics,     \* mini-AP panics
    MaxDead        \* loads after which the modem never boots

ASSUME /\ IsReset \in BOOLEAN /\ DumpOrca \in BOOLEAN /\ ModemOnlyModes \subseteq BOOLEAN
       /\ AliveSeparate \in BOOLEAN
       /\ MaxCrashes \in Nat /\ MaxPanics \in Nat /\ MaxDead \in Nat

VARIABLES
    g_modem_state,     \* shared with the loader, which writes it as mstate
    wake, run, wlock, remote, lpc, ltype, limg, hpc, loads, splFails, ddrLate,
    s_needResetModem,  \* modem_connect.c:40
    wait_modem_reset,  \* modem_control.c:45
    b_miniap_panic,    \* modem_control.c:145
    timerOn,           \* s_wait_alive_timer.it_value.tv_sec # 0
    rfds,              \* listen_modem's fd_set
    dev,               \* unread messages of the assert and alive devices
    ctrl_pipe,         \* the control pipe to listen_clients
    mainpc, lmpc, lcpc,
    zPending,          \* the 'z' command sits in the diag channel
    rebooting,         \* modem_ctrl_reboot_all_system was entered
    cp,                \* the external modem
    budget,            \* crashes, panics and dead boots so far
    modemOnly          \* the reboot-modem-only property, set before boot

loVars == <<g_modem_state, wake, run, wlock, remote, lpc, ltype, limg, hpc,
            loads, splFails, ddrLate>>
ownVars == <<s_needResetModem, wait_modem_reset, b_miniap_panic, timerOn, rfds,
             dev, ctrl_pipe, mainpc, lmpc, lcpc, zPending, rebooting, cp, budget, modemOnly>>
vars == <<loVars, ownVars>>

LO == INSTANCE LoadOrchestrator WITH mstate <- g_modem_state

\* The device "Modem Alive" comes on: alive_dev is NULL unless it is set
\* and differs from the assert device (external_modem_control.c:42-47).
AliveDev == IF AliveSeparate THEN "alive" ELSE "assert"
Devs == {"assert", AliveDev}

Limits == [crash |-> MaxCrashes, panic |-> MaxPanics, dead |-> MaxDead]
Avail(k) == budget[k] < Limits[k]

\* modem_ctrl_start_wait_alive_timer, the alive property set, and
\* modem_ctrl_stop_wait_alive_timer (modem_control.c:116-139).
StartTimer == timerOn' = TRUE
StopTimer == timerOn' = FALSE

(* A process_message that takes an assert but never writes Prepare Reset.  *)
ProcessAssertNoReset(m) ==
    /\ s_needResetModem' = TRUE
    /\ UNCHANGED ctrl_pipe

(* modem_ctrl_process_message for an assert (modem_connect.c:404-439):     *)
(* with s_needResetModem set and reset on, "Prepare Reset" to the pipe;    *)
(* otherwise the flag is set for the next one.  No P-ARM assert reaches    *)
(* this build's control threads, and the modem dump property is off, so *)
(* the write is immediate.                                                   *)
ProcessAssert(m) ==
    /\ s_needResetModem' = TRUE
    /\ ctrl_pipe' = IF s_needResetModem /\ IsReset
                    THEN Append(ctrl_pipe, "Prepare Reset") ELSE ctrl_pipe

(* Lines 440-443: "Modem Reset" is forwarded to listen_clients.            *)
ProcessReset == ctrl_pipe' = Append(ctrl_pipe, "Modem Reset")

(* modem_ctrl_reboot_external_modem and modem_reboot_all_modem             *)
(* (external_modem_control.c:14-19, modem_load.c:1240-1285): state         *)
(* REBOOT_EXT_MODEM, the driver reboots the modem, and load_modem_img of    *)
(* every external image begins, overwriting the state with LOADING.         *)
RebootExternal == LO!LoadBegin("external") /\ cp' = "off"

\* The loads of listen_clients: the external images, or LOAD_MODEM_IMG.
ResetLoad == IF modemOnly THEN LO!LoadBegin("modem") /\ UNCHANGED cp
             ELSE RebootExternal

(* The threads wait for the loader; a thread is able to run once the      *)
(* daemon has booted, and nothing runs after a system reboot.              *)
Up == ~rebooting /\ mainpc \notin {"boot", "load"}

-----------------------------------------------------------------------------
(* modem_ctrl_boot_modem (modem_control.c:532-565), the modem not yet      *)
(* booted: load every image, start the threads, arm the alive timer.       *)
BootLoad ==
    /\ mainpc = "boot"
    /\ LO!LoadBegin("all")
    /\ mainpc' = "load"
    /\ UNCHANGED <<s_needResetModem, wait_modem_reset, b_miniap_panic, timerOn,
                   rfds, dev, ctrl_pipe, lmpc, lcpc, zPending, rebooting, cp, budget, modemOnly>>

BootArm ==
    /\ mainpc = "load" /\ lpc = "idle"
    /\ StartTimer
    /\ mainpc' = "idle"
    /\ UNCHANGED <<loVars, s_needResetModem, wait_modem_reset, b_miniap_panic,
                   rfds, dev, ctrl_pipe, lmpc, lcpc, zPending, rebooting, cp, budget, modemOnly>>

(* modem_ctrl_alive_timeout (modem_control.c:487-530) on SIGALRM, up to    *)
(* its 6 s sleep.  The modem reports alive well within the 60 s, so the    *)
(* alarm only finds a modem that will not, with no report unread.          *)
AlarmFires ==
    /\ Up /\ mainpc = "idle" /\ timerOn
    /\ g_modem_state # "ALIVE"
    /\ cp \in {"dead", "panic"} /\ \A d \in Devs : dev[d] = <<>>
    /\ StopTimer
    /\ mainpc' = "sleep"
    /\ UNCHANGED <<loVars, s_needResetModem, wait_modem_reset, b_miniap_panic,
                   rfds, dev, ctrl_pipe, lmpc, lcpc, zPending, rebooting, cp, budget, modemOnly>>

(* After the sleep: with reset on and no orca dump, reboot the system;     *)
(* otherwise ASSERT and "Modem Assert: modem not alive!" to the clients.   *)
AliveTimeoutAct ==
    /\ Up /\ mainpc = "sleep"
    /\ IF IsReset /\ ~DumpOrca
       THEN /\ rebooting' = TRUE /\ g_modem_state' = "REBOOT_SYS"
            /\ UNCHANGED <<s_needResetModem, ctrl_pipe>>
       ELSE /\ g_modem_state' = "ASSERT" /\ ProcessAssert("not alive")
            /\ UNCHANGED rebooting
    /\ mainpc' = "idle"
    /\ UNCHANGED <<wake, run, wlock, remote, lpc, ltype, limg, hpc, loads, splFails,
                   ddrLate, wait_modem_reset, b_miniap_panic, timerOn, rfds, dev,
                   lmpc, lcpc, zPending, cp, budget, modemOnly>>

-----------------------------------------------------------------------------
(* listen_modem (external_modem_control.c:82-99): select on rfds, which    *)
(* is filled once before the loop and left as select returns it; take the *)
(* assert device first; the wake lock.                                     *)
LmSelect ==
    /\ Up /\ lmpc = "select"
    /\ LET ready == {d \in rfds : dev[d] # <<>>}
       IN  /\ ready # {}
           /\ rfds' = ready
           /\ lmpc' = IF "assert" \in ready THEN "assert" ELSE "alive"
    /\ wake' = TRUE
    /\ UNCHANGED <<g_modem_state, run, wlock, remote, lpc, ltype, limg, hpc, loads,
                   splFails, ddrLate, s_needResetModem, wait_modem_reset,
                   b_miniap_panic, timerOn, dev, ctrl_pipe, mainpc, lcpc, zPending,
                   rebooting, cp, budget, modemOnly>>

(* Lines 100-135: one message, then the wake lock released.                *)
LmRead ==
    /\ Up /\ lmpc \in {"assert", "alive"}
    /\ LET m == Head(dev[lmpc]) IN
       /\ dev' = [dev EXCEPT ![lmpc] = Tail(@)]
       /\ CASE m = "Modem Alive" ->
                 /\ StopTimer /\ g_modem_state' = "ALIVE"
                 /\ UNCHANGED <<s_needResetModem, ctrl_pipe, wait_modem_reset>>
            [] m = "Modem Reset" ->
                 /\ g_modem_state' = "RESET" /\ ProcessReset
                 /\ wait_modem_reset' = FALSE
                 /\ UNCHANGED <<s_needResetModem, timerOn>>
            [] OTHER ->
                 /\ g_modem_state' = "ASSERT" /\ ProcessAssert(m)
                 /\ UNCHANGED <<timerOn, wait_modem_reset>>
    /\ wake' = FALSE
    /\ lmpc' = "select"
    /\ UNCHANGED <<run, wlock, remote, lpc, ltype, limg, hpc, loads, splFails, ddrLate,
                   b_miniap_panic, rfds, mainpc, lcpc, zPending, rebooting, cp, budget, modemOnly>>

-----------------------------------------------------------------------------
(* listen_clients (modem_control.c:567-669).  One read takes every queued *)
(* message, and strstr sees the first.  Outside BLOCK, ASSERT and RESET    *)
(* the message is dropped and the wake lock kept.  "Modem Reset" reloads;  *)
(* "Prepare Reset" clears b_miniap_panic, then reads the modem-only        *)
(* property over the value it has just set: without it every external     *)
(* image is reloaded, with it the 'z' command goes to the modem and the    *)
(* thread polls wait_modem_reset for 5 s.                                  *)
(* prepare_reset_modem's failed diag open (lines 347-351) is left out.    *)
LcRead ==
    /\ Up /\ lcpc = "read" /\ ctrl_pipe # <<>>
    /\ LET m == Head(ctrl_pipe) IN
       IF g_modem_state \notin {"BLOCK", "ASSERT", "RESET"}
       THEN /\ wake' = TRUE
            /\ UNCHANGED <<g_modem_state, run, wlock, remote, lpc, ltype, limg, hpc,
                           loads, splFails, ddrLate, b_miniap_panic, timerOn,
                           wait_modem_reset, lcpc, zPending, cp>>
       ELSE IF m = "Modem Reset"
       THEN /\ StopTimer /\ ResetLoad /\ lcpc' = "load"
            /\ UNCHANGED <<b_miniap_panic, wait_modem_reset, zPending>>
       ELSE /\ b_miniap_panic' = FALSE
            /\ IF ~modemOnly
               THEN /\ StopTimer /\ RebootExternal /\ lcpc' = "load"
                    /\ UNCHANGED <<wait_modem_reset, zPending>>
               ELSE /\ wait_modem_reset' = TRUE /\ zPending' = TRUE
                    /\ wake' = TRUE /\ lcpc' = "poll"
                    /\ UNCHANGED <<g_modem_state, run, wlock, remote, lpc, ltype,
                                   limg, hpc, loads, splFails, ddrLate, timerOn, cp>>
    /\ ctrl_pipe' = <<>>
    /\ UNCHANGED <<s_needResetModem, rfds, dev, mainpc, lmpc, rebooting, budget, modemOnly>>

(* The poll sees the flag cleared by listen_modem's Modem Reset.          *)
LcPollDone ==
    /\ Up /\ lcpc = "poll" /\ ~wait_modem_reset
    /\ wake' = FALSE /\ lcpc' = "read"
    /\ UNCHANGED <<g_modem_state, run, wlock, remote, lpc, ltype, limg, hpc, loads,
                   splFails, ddrLate, s_needResetModem, wait_modem_reset,
                   b_miniap_panic, timerOn, rfds, dev, ctrl_pipe, mainpc, lmpc,
                   zPending, rebooting, cp, budget, modemOnly>>

(* 5 s without Modem Reset, every message of the modem read: the forced   *)
(* reboot of the external modem.                                          *)
LcPollTimeout ==
    /\ Up /\ lcpc = "poll" /\ wait_modem_reset
    /\ ~zPending /\ \A d \in Devs : dev[d] = <<>>
    /\ StopTimer /\ RebootExternal /\ lcpc' = "load"
    /\ UNCHANGED <<s_needResetModem, wait_modem_reset, b_miniap_panic, rfds, dev,
                   ctrl_pipe, mainpc, lmpc, zPending, rebooting, budget, modemOnly>>

(* load_modem_img has returned: arm the alive timer, release the lock.     *)
LcArm ==
    /\ Up /\ lcpc = "load" /\ lpc = "idle"
    /\ StartTimer /\ wake' = FALSE /\ lcpc' = "read"
    /\ UNCHANGED <<g_modem_state, run, wlock, remote, lpc, ltype, limg, hpc, loads,
                   splFails, ddrLate, s_needResetModem, wait_modem_reset,
                   b_miniap_panic, rfds, dev, ctrl_pipe, mainpc, lmpc, zPending,
                   rebooting, cp, budget, modemOnly>>

-----------------------------------------------------------------------------
(* The environment.  A crash or panic comes while everything the modem    *)
(* wrote before it has been read: the modem runs for seconds at least      *)
(* after its Alive.                                                        *)
Quiet == lmpc = "select" /\ \A d \in Devs : dev[d] = <<>>

(* The modem, started with its images, writes Modem Alive once; a load   *)
(* may instead leave it unable to boot.  A boot takes seconds, so the     *)
(* thread that ran the load has armed the alive timer first.              *)
CpBoot ==
    /\ Up /\ cp = "booting" /\ run["CP"] = "started"
    /\ lcpc # "load"
    /\ \/ /\ cp' = "alive" /\ dev' = [dev EXCEPT ![AliveDev] = Append(@, "Modem Alive")]
          /\ UNCHANGED budget
       \/ /\ Avail("dead") /\ cp' = "dead" /\ UNCHANGED dev
          /\ budget' = [budget EXCEPT !.dead = @ + 1]
    /\ UNCHANGED <<loVars, s_needResetModem, wait_modem_reset, b_miniap_panic,
                   timerOn, rfds, ctrl_pipe, mainpc, lmpc, lcpc, zPending, rebooting, modemOnly>>

CpCrash ==
    /\ Up /\ cp = "alive" /\ Quiet /\ Avail("crash")
    /\ cp' = "crashed"
    /\ dev' = [dev EXCEPT !["assert"] = Append(@, "Modem Assert")]
    /\ budget' = [budget EXCEPT !.crash = @ + 1]
    /\ UNCHANGED <<loVars, s_needResetModem, wait_modem_reset, b_miniap_panic,
                   timerOn, rfds, ctrl_pipe, mainpc, lmpc, lcpc, zPending, rebooting, modemOnly>>

(* The modem resets itself on 'z' and says so on the assert device.        *)
CpReset ==
    /\ Up /\ zPending /\ cp \in {"crashed", "panic"}
    /\ zPending' = FALSE /\ cp' = IF cp = "panic" THEN "panic" ELSE "reset"
    /\ dev' = [dev EXCEPT !["assert"] = Append(@, "Modem Reset")]
    /\ UNCHANGED <<loVars, s_needResetModem, wait_modem_reset, b_miniap_panic,
                   timerOn, rfds, ctrl_pipe, mainpc, lmpc, lcpc, rebooting, budget, modemOnly>>

(* A 'z' the modem does not act on.                                        *)
CpIgnoreZ ==
    /\ Up /\ zPending /\ cp \notin {"crashed", "panic"}
    /\ zPending' = FALSE
    /\ UNCHANGED <<loVars, s_needResetModem, wait_modem_reset, b_miniap_panic,
                   timerOn, rfds, dev, ctrl_pipe, mainpc, lmpc, lcpc, rebooting, cp, budget, modemOnly>>

(* modem_event_panic_process (modem_event.c:34-58) on the uevent thread:  *)
(* the panic flag, ASSERT, and "Modem Assert: Miniap Panic" to the clients *)
(* unless the state was BLOCK, which no thread of this model sets.         *)
MiniapPanic ==
    /\ Up /\ cp = "alive" /\ Quiet /\ Avail("panic")
    /\ cp' = "panic"
    /\ budget' = [budget EXCEPT !.panic = @ + 1]
    /\ b_miniap_panic' = TRUE
    /\ g_modem_state' = "ASSERT"
    /\ IF g_modem_state # "BLOCK" THEN ProcessAssert("miniap panic")
       ELSE UNCHANGED <<s_needResetModem, ctrl_pipe>>
    /\ UNCHANGED <<wake, run, wlock, remote, lpc, ltype, limg, hpc, loads, splFails,
                   ddrLate, wait_modem_reset, timerOn, rfds, dev, mainpc, lmpc, lcpc,
                   zPending, rebooting, modemOnly>>

-----------------------------------------------------------------------------
(* The loader's steps.  LoadStart starts the CP: the modem boots when     *)
(* its images were loaded, but a panicked mini AP stays down unless its    *)
(* own images were among them.                                             *)
LoaderStep ==
    /\ ~rebooting
    /\ (LO!LoadSp \/ LO!LoadStopDp \/ LO!LoadStopCp \/ LO!LoadSpl \/ LO!LoadWait
        \/ LO!LoadImages)
    /\ UNCHANGED ownVars

LoaderStart ==
    /\ ~rebooting
    /\ LO!LoadStart
    /\ cp' = IF "CP" \notin LO!Targets(limg) THEN cp
             ELSE IF cp = "panic" /\ "MINIAP" \notin ltype THEN "panic"
             ELSE "booting"
    /\ UNCHANGED <<s_needResetModem, wait_modem_reset, b_miniap_panic, timerOn, rfds,
                   dev, ctrl_pipe, mainpc, lmpc, lcpc, zPending, rebooting, budget, modemOnly>>

WarmReset ==
    /\ ~rebooting
    /\ \E h \in Handlers : LO!WarmEvent(h) \/ LO!HandlerLock(h) \/ LO!HandlerSpl(h)
    /\ UNCHANGED ownVars

RemoteReady == ~rebooting /\ LO!RemoteDdrReady /\ UNCHANGED ownVars

Init ==
    /\ LO!Init
    /\ s_needResetModem = TRUE /\ wait_modem_reset = FALSE /\ b_miniap_panic = FALSE
    /\ timerOn = FALSE
    /\ rfds = Devs /\ dev = [d \in {"assert", "alive"} |-> <<>>]
    /\ ctrl_pipe = <<>>
    /\ mainpc = "boot" /\ lmpc = "select" /\ lcpc = "read"
    /\ zPending = FALSE /\ rebooting = FALSE
    /\ cp = "off"
    /\ budget = [k \in DOMAIN Limits |-> 0]
    /\ modemOnly \in ModemOnlyModes

Threads == BootArm \/ AlarmFires \/ AliveTimeoutAct \/ LmSelect \/ LmRead
           \/ LcRead \/ LcPollDone \/ LcPollTimeout \/ LcArm

Next ==
    \/ BootLoad \/ Threads
    \/ LoaderStep \/ LoaderStart \/ WarmReset \/ RemoteReady
    \/ CpBoot \/ CpCrash \/ CpReset \/ CpIgnoreZ \/ MiniapPanic

(* The daemon's threads and the loader run when they can, the modem boots *)
(* and answers 'z' when it will, the remote reports DDR ready; crashes,   *)
(* panics and warm resets are never forced.                                *)
Spec == Init /\ [][Next]_vars
        /\ WF_vars(BootLoad) /\ WF_vars(Threads)
        /\ WF_vars(LoaderStep) /\ WF_vars(LoaderStart)
        /\ \A h \in Handlers : WF_vars(~rebooting /\ (LO!HandlerLock(h) \/ LO!HandlerSpl(h))
                                       /\ UNCHANGED ownVars)
        /\ WF_vars(RemoteReady)
        /\ WF_vars(CpBoot /\ cp' = "alive") /\ WF_vars(CpReset \/ CpIgnoreZ)

-----------------------------------------------------------------------------
(* Every crash of the external modem and boot that never completes ends   *)
(* with the modem running and alive again, or with a system reboot:       *)
(* listen_modem reads the assert (or the alive timer fires), process_     *)
(* message asks for a reset, and listen_clients reboots the external      *)
(* modem, or resets and reloads the modem alone.  So does a panic of the  *)
(* mini AP when the modem-only property is unset.                          *)
ExtRecovers ==
    /\ \A s \in {"crashed", "dead"} : cp = s ~> (cp = "alive" \/ rebooting)
    /\ (cp = "panic" /\ ~modemOnly) ~> (cp = "alive" \/ rebooting)

(* After a mini-AP panic, listen_clients does not wait for a modem reset   *)
(* but reloads every external image (the comment at modem_control.c:621):  *)
(* a request it handles with b_miniap_panic set starts a load of the mini  *)
(* AP's images.                                                            *)
PanicLoadsAllExternal ==
    [][ b_miniap_panic /\ lcpc = "read" /\ lcpc' # "read"
          => lcpc' = "load" /\ "MINIAP" \in ltype' ]_vars
=============================================================================
