---------------------------- MODULE ModemControl ----------------------------
(***************************************************************************)
(* Modem lifecycle of modem_control, internal-modem build.                 *)
(*                                                                         *)
(* Threads (all of one process, sharing g_modem_state and the statics of   *)
(* modem_connect.c without a lock):                                        *)
(*   "main" modem_ctrl_boot_modem, then the SIGALRM handler                *)
(*          modem_ctrl_alive_timeout (the signal goes to the main thread,  *)
(*          which otherwise sleeps in dead_loop);                          *)
(*   "lm"   modem_ctrl_listen_modem (internal_modem_control.c);            *)
(*   "lc"   modem_ctrl_listen_clients, consumer of the control pipe;       *)
(*   "rt"   modem_ctrl_read_thread, reader of the client sockets;          *)
(*   dump waiters  write_reset_to_modem_ctrl, one per spawned thread.      *)
(* The environment is the modem (CP), rild, slogmodem, the SP monitor      *)
(* modem_ctrl_listen_sp forwarding "P-ARM Modem Assert", and the kernel    *)
(* interval timer.                                                         *)
(*                                                                         *)
(* Strings are abstracted to the tokens the code matches with strstr.      *)
(***************************************************************************)
EXTENDS Naturals, Sequences, FiniteSets

CONSTANTS
    IsReset,      \* persist.vendor.modem.reset: reload the modem on assert
    IsDump,       \* persist.vendor.modem.savedump: wait for a dump first
    Devices,      \* devices listen_modem opened (assert_dev is mandatory)
    BootCases,    \* what modem_ctrl_boot_modem finds at start
    MaxFaults,    \* bound on modem asserts (CP crashes)
    MaxBlocks,    \* bound on "Modem Blocked" reports by rild
    MaxBootFail,  \* bound on loads after which the modem never boots
    MaxSelfFail,  \* bound on 'z' self-resets after which it never boots
    MaxDiagFail,  \* bound on failed opens of the diag channel
    MaxOther,     \* bound on unrelated client messages
    MaxSpMsgs,    \* bound on messages read by the SP monitor
    AliveInTime   \* a booting CP reports alive before the 60 s timer ends

ASSUME /\ IsReset \in BOOLEAN /\ IsDump \in BOOLEAN /\ AliveInTime \in BOOLEAN
       /\ "assert_dev" \in Devices
       /\ Devices \subseteq {"assert_dev", "watchdog_dev", "alive_dev"}
       /\ BootCases \subseteq {"alive", "shutdown", "noload"}
       /\ BootCases # {}
       /\ \A n \in {MaxFaults, MaxBlocks, MaxBootFail, MaxSelfFail, MaxDiagFail,
                    MaxOther, MaxSpMsgs} : n \in Nat

\* Tokens (modem_control.h, modem_connect.c).
NotAlive == "Modem Assert: modem not alive!"
PArm     == "P-ARM Modem Assert"
AssertMsgs == {"Modem Assert", "Modem Assert HUNG", NotAlive, PArm}
DevMsgs  == {"Modem Alive", "Modem Reset", "Modem Assert", "Modem Assert HUNG"}
PipeMsgs == {"Modem Blocked", "Modem Reset", "Prepare Reset"}
ClientMsgs == {"Modem Blocked", "SLOGMODEM DUMP BEGIN",
               "SLOGMODEM DUMP COMPLETE", "Other"}

\* g_modem_state values (MODEM_STATE enum, modem_control.h).
States == {"INIT", "LOADING", "BOOTING", "ALIVE", "ASSERT", "BLOCK",
           "RESET", "REBOOT_SYS"}
\* s_modemState values (ModemState enum, modem_connect.c:22-27).
ConStates == {"OFFLINE", "ALIVE", "ASSERT", "RESET"}

\* The device "Modem Alive" arrives on: the alive device when it is a
\* separate one (ro.vendor.modem.alive), else the assert device.
AliveDev == IF "alive_dev" \in Devices THEN "alive_dev" ELSE "assert_dev"
\* The device a CP watchdog hang is reported on.
HungDev  == IF "watchdog_dev" \in Devices THEN "watchdog_dev" ELSE "assert_dev"

VARIABLES
    g_modem_state,     \* modem_control.c:46
    s_modemState,      \* modem_connect.c:42, what new clients are told
    s_needResetModem,  \* modem_connect.c:40
    wait_modem_reset,  \* modem_control.c:45
    timer_armed,       \* the kernel ITIMER_REAL is running
    timer_val,         \* s_wait_alive_timer.it_value.tv_sec # 0
    wake_lock,         \* the "modem_control" wake lock is held
    pc,                \* program counter of each thread
    rfds,              \* listen_modem's fd_set passed to select
    dev,               \* unread messages of each modem device
    ctrl_pipe,         \* bytes in the control pipe, as messages
    lc_msg,            \* the message listen_clients is handling
    later_reset,       \* read thread's later_reset
    dump_state,        \* read thread's state (DUMP_BEGIN...)
    waiters,           \* dump waiter threads blocked in timedwait
    woken,             \* dump waiter threads woken, about to write
    rebooting,         \* modem_ctrl_reboot_all_system was entered
    cp,                \* the modem: "off", "booting", "alive", "blocked",
                       \*   "asserted", "dead"
    z_pending,         \* the 'z' reset command sits in the diag channel
    client_in,         \* client messages not yet read by the read thread
    slog,              \* slogmodem is dumping
    budget             \* environment events used so far, per kind

Threads == {"main", "lm", "lc", "rt"}

vars == <<g_modem_state, s_modemState, s_needResetModem, wait_modem_reset,
          timer_armed, timer_val, wake_lock, pc, rfds, dev, ctrl_pipe, lc_msg,
          later_reset, dump_state, waiters, woken, rebooting, cp, z_pending,
          client_in, slog, budget>>

Budgets == [faults |-> MaxFaults, blocks |-> MaxBlocks,
            bootfail |-> MaxBootFail, selffail |-> MaxSelfFail,
            diagfail |-> MaxDiagFail,
            other |-> MaxOther, sp |-> MaxSpMsgs]

\* An environment event of kind k is still available.
Avail(k) == budget[k] < Budgets[k]
Spend(k) == budget' = [budget EXCEPT ![k] = @ + 1]

-----------------------------------------------------------------------------
(* Helpers shared by several threads.                                      *)

\* modem_ctrl_stop_wait_alive_timer: zero the itimerval and setitimer.
StopTimer == timer_armed' = FALSE /\ timer_val' = FALSE

\* modem_ctrl_start_wait_alive_timer with ro.vendor.modem.alive set: arm
\* 60 s; modem_ctrl_try_read_modem_alive returns at once.
StartTimer == timer_armed' = TRUE /\ timer_val' = TRUE

\* Mutant: a setter that never clears the flag.
SetWaitResetFlagNoClear(v) == wait_modem_reset' = (v \/ wait_modem_reset)

\* modem_ctrl_set_wait_reset_flag.
SetWaitResetFlag(v) == wait_modem_reset' = v

\* Mutant: P-ARM leaves s_needResetModem cleared for the next assert.
SkippedFlagOneShot(m) == m # PArm

\* The value s_needResetModem takes after an assert that was not acted on.
SkippedFlag(m) == TRUE

\* modem_ctrl_process_message, run under s_writeMutex by
\* modem_write_data_to_clients before the fan-out to the clients.  The
\* fan-out itself is modelled in ClientBus.
ProcessMessage(m) ==
    \/ /\ m = "Modem Alive"
       /\ s_modemState' = "ALIVE"
       /\ UNCHANGED <<s_needResetModem, ctrl_pipe, waiters>>
    \/ /\ m \in AssertMsgs
       /\ LET need == IF m = PArm THEN FALSE ELSE s_needResetModem IN
          \/ /\ need
             /\ s_modemState' = "ASSERT"
             /\ s_needResetModem' = need
             /\ \/ IsReset /\ IsDump /\ waiters' = waiters + 1
                   /\ UNCHANGED ctrl_pipe
                \/ IsReset /\ ~IsDump
                   /\ ctrl_pipe' = Append(ctrl_pipe, "Prepare Reset")
                   /\ UNCHANGED waiters
                \/ ~IsReset /\ UNCHANGED <<ctrl_pipe, waiters>>
          \/ /\ ~need
             /\ s_needResetModem' = SkippedFlag(m)
             /\ UNCHANGED <<s_modemState, ctrl_pipe, waiters>>

\* modem_ctrl_reboot_all_system: state REBOOT_SYS, then sysrq crash.
RebootAllSystem == g_modem_state' = "REBOOT_SYS" /\ rebooting' = TRUE

(* Timing.  Steps are fast (a read and its dispatch, a pipe write, a    *)
(* 100 ms poll round that sees the flag cleared: milliseconds) or slow   *)
(* (an image load, the 5 s poll timeout, the 60 s alive timer, the 6 s   *)
(* sleep of the handler, the loopback test, the 5-minute dump deadline,  *)
(* a CP boot, rild's AT timeouts, a dump: 100 ms or more).  A slow step  *)
(* completes only when no fast step is pending.                          *)

\* listen_modem has read every message of the devices it selects on.
Drained == \A d \in rfds : dev[d] = <<>>

Settled ==
    /\ Drained
    /\ pc["main"] \in {"idle", "th_sleep", "load2"}
    /\ pc["lc"] \in {"read", "poll", "load2"}
    /\ pc["lc"] = "read" => ctrl_pipe = <<>>
    /\ pc["lc"] = "poll" => wait_modem_reset
    /\ pc["rt"] = "read" => client_in = <<>>
    /\ woken = 0

\* With AliveInTime, a CP that boots reports alive well within the 60 s
\* of the alive timer, so the timer only expires on a CP that will not.
\* Without it, the report may come at any point, the handler's 6 s sleep
\* included.
BootDue == AliveInTime /\ cp = "booting"

-----------------------------------------------------------------------------
(* load_modem_img, internal build (modem_load.c:906-957), in two steps:   *)
(* wake lock, stop the CP, state LOADING; then write the images, start   *)
(* the CP, state BOOTING, release the wake lock.  The image copy itself   *)
(* is modelled in LoadOrchestrator; here a load may leave a modem that    *)
(* never boots ("dead").                                                  *)

LoadBegin(t) ==
    /\ ~rebooting
    /\ pc[t] = "load1"
    /\ wake_lock' = TRUE
    /\ cp' = "off"
    /\ z_pending' = FALSE
    /\ g_modem_state' = "LOADING"
    /\ pc' = [pc EXCEPT ![t] = "load2"]
    /\ UNCHANGED <<s_modemState, s_needResetModem, wait_modem_reset,
                   timer_armed, timer_val, rfds, dev, ctrl_pipe, lc_msg,
                   later_reset, dump_state, waiters, woken, rebooting,
                   client_in, slog, budget>>

LoadEnd(t) ==
    /\ ~rebooting
    /\ pc[t] = "load2"
    /\ Settled
    /\ \/ cp' = "booting" /\ UNCHANGED budget
       \/ Avail("bootfail") /\ cp' = "dead" /\ Spend("bootfail")
    /\ g_modem_state' = "BOOTING"
    /\ wake_lock' = FALSE
    /\ pc' = [pc EXCEPT ![t] = "arm"]
    /\ UNCHANGED <<s_modemState, s_needResetModem, wait_modem_reset,
                   timer_armed, timer_val, rfds, dev, ctrl_pipe, lc_msg,
                   later_reset, dump_state, waiters, woken, rebooting,
                   z_pending, client_in, slog>>


-----------------------------------------------------------------------------
(* Main thread: modem_ctrl_boot_modem, then the alive-timeout handler.    *)

\* The listen threads are created after the boot load.
ThreadsStarted == pc["main"] \notin {"load1", "load2"}

\* modem_ctrl_boot_modem after the load: create the listen threads,
\* install the SIGALRM handler, start the alive timer.
BootArm ==
    /\ ~rebooting
    /\ pc["main"] = "arm"
    /\ StartTimer
    /\ pc' = [pc EXCEPT !["main"] = "idle"]
    /\ UNCHANGED <<g_modem_state, s_modemState, s_needResetModem,
                   wait_modem_reset, wake_lock, rfds, dev, ctrl_pipe, lc_msg,
                   later_reset, dump_state, waiters, woken, rebooting, cp,
                   z_pending, client_in, slog, budget>>

\* The interval timer expires; SIGALRM runs modem_ctrl_alive_timeout on
\* the main thread.  The handler returns unless the state is not ALIVE and
\* the timer value is still set; otherwise it zeroes the value and sleeps
\* 6 s.
AliveTimerExpire ==
    /\ ~rebooting
    /\ timer_armed
    /\ Settled /\ ~BootDue
    /\ pc["main"] = "idle"
    /\ timer_armed' = FALSE
    /\ IF g_modem_state # "ALIVE" /\ timer_val
         THEN timer_val' = FALSE /\ pc' = [pc EXCEPT !["main"] = "th_sleep"]
         ELSE UNCHANGED <<timer_val, pc>>
    /\ UNCHANGED <<g_modem_state, s_modemState, s_needResetModem,
                   wait_modem_reset, wake_lock, rfds, dev, ctrl_pipe, lc_msg,
                   later_reset, dump_state, waiters, woken, rebooting, cp,
                   z_pending, client_in, slog, budget>>

\* After the 6 s sleep: with reset on and is_dump_orca false, reboot the
\* system; else state ASSERT and broadcast "modem not alive".  In the
\* internal build is_dump_orca is never assigned (an uninitialised read),
\* so either outcome is possible.
AliveTimeoutAct ==
    /\ ~rebooting
    /\ pc["main"] = "th_sleep"
    /\ Settled
    /\ pc' = [pc EXCEPT !["main"] = "idle"]
    /\ \E is_dump_orca \in BOOLEAN :
          \/ /\ IsReset /\ ~is_dump_orca
             /\ RebootAllSystem
             /\ UNCHANGED <<s_modemState, s_needResetModem, ctrl_pipe,
                            waiters>>
          \/ /\ ~(IsReset /\ ~is_dump_orca)
             /\ g_modem_state' = "ASSERT"
             /\ ProcessMessage(NotAlive)
             /\ UNCHANGED rebooting
    /\ UNCHANGED <<wait_modem_reset, timer_armed, timer_val, wake_lock, rfds,
                   dev, lc_msg, later_reset, dump_state, woken, cp, z_pending,
                   client_in, slog, budget>>

-----------------------------------------------------------------------------
(* listen_modem (internal_modem_control.c:93-167).  select() overwrites   *)
(* rfds with the ready descriptors and the loop never refills it.  The    *)
(* first ready descriptor in the order assert, watchdog, alive is read;  *)
(* one read returns one message.  The wake lock is taken and released    *)
(* around the dispatch.                                                   *)

FdOrder == <<"assert_dev", "watchdog_dev", "alive_dev">>

ListenModem ==
    /\ ~rebooting
    /\ ThreadsStarted
    /\ LET ready == {d \in rfds : dev[d] # <<>>}
           fd    == FdOrder[CHOOSE i \in 1..3 :
                        /\ FdOrder[i] \in ready
                        /\ \A j \in 1..(i-1) : FdOrder[j] \notin ready]
           m     == Head(dev[fd])
       IN /\ ready # {}
          /\ rfds' = ready
          /\ dev' = [dev EXCEPT ![fd] = Tail(@)]
          /\ wake_lock' = FALSE
          /\ \/ /\ m = "Modem Alive"
                /\ StopTimer
                /\ g_modem_state' = "ALIVE"
                /\ ProcessMessage(m)
                /\ UNCHANGED <<wait_modem_reset, rebooting>>
             \/ /\ m = "Modem Reset"
                /\ g_modem_state' = "RESET"
                /\ SetWaitResetFlag(FALSE)
                /\ UNCHANGED <<timer_armed, timer_val, s_modemState,
                               s_needResetModem, ctrl_pipe, waiters, rebooting>>
             \/ /\ m \in {"Modem Assert", "Modem Assert HUNG"}
                /\ m = "Modem Assert HUNG" /\ IsReset
                /\ RebootAllSystem
                /\ UNCHANGED <<timer_armed, timer_val, wait_modem_reset,
                               s_modemState, s_needResetModem, ctrl_pipe,
                               waiters>>
             \/ /\ m \in {"Modem Assert", "Modem Assert HUNG"}
                /\ ~(m = "Modem Assert HUNG" /\ IsReset)
                /\ g_modem_state' = "ASSERT"
                /\ ProcessMessage(m)
                /\ UNCHANGED <<timer_armed, timer_val, wait_modem_reset,
                               rebooting>>
    /\ UNCHANGED <<pc, lc_msg, later_reset, dump_state, woken, cp, z_pending,
                   client_in, slog, budget>>

-----------------------------------------------------------------------------
(* listen_clients (modem_control.c:567-669), the control-pipe consumer.   *)
(* One read() returns every message in the pipe; strstr sees only the     *)
(* first, up to its terminating NUL.                                      *)

\* modem_load_assert_modem: the assert ioctl makes a running CP assert.
AssertModem ==
    IF cp \in {"alive", "blocked"}
      THEN /\ cp' = "asserted"
           /\ dev' = [dev EXCEPT !["assert_dev"] = Append(@, "Modem Assert")]
           /\ slog' = "idle"
      ELSE UNCHANGED <<cp, dev, slog>>

LCRead ==
    /\ ~rebooting
    /\ ThreadsStarted
    /\ pc["lc"] = "read"
    /\ ctrl_pipe # <<>>
    /\ lc_msg' = Head(ctrl_pipe)
    /\ ctrl_pipe' = <<>>
    /\ wake_lock' = TRUE
    /\ \/ /\ Head(ctrl_pipe) = "Modem Blocked"
          /\ g_modem_state' = "BLOCK"
          /\ IF IsDump THEN AssertModem ELSE UNCHANGED <<cp, dev, slog>>
       \/ /\ Head(ctrl_pipe) # "Modem Blocked"
          /\ UNCHANGED <<g_modem_state, cp, dev, slog>>
    /\ pc' = [pc EXCEPT !["lc"] = "dispatch"]
    /\ UNCHANGED <<s_modemState, s_needResetModem, wait_modem_reset,
                   timer_armed, timer_val, rfds, later_reset, dump_state,
                   waiters, woken, rebooting, z_pending, client_in, budget>>

\* Mutant: the state check forgets ASSERT.
FaultedNoAssert == {"BLOCK", "RESET"}

\* States in which listen_clients acts on a message.
Faulted == {"BLOCK", "ASSERT", "RESET"}

\* The state check and the branch on the message.  A skipped message
\* 'continue's past the wake-lock release.
LCDispatch ==
    /\ ~rebooting
    /\ pc["lc"] = "dispatch"
    /\ \/ /\ g_modem_state \notin Faulted
          /\ pc' = [pc EXCEPT !["lc"] = "read"]
          /\ UNCHANGED <<timer_armed, timer_val, wake_lock>>
       \/ /\ g_modem_state \in Faulted /\ lc_msg = "Modem Reset"
          /\ StopTimer
          /\ pc' = [pc EXCEPT !["lc"] = "load1"]
          /\ UNCHANGED wake_lock
       \/ /\ g_modem_state \in Faulted /\ lc_msg = "Prepare Reset"
          /\ pc' = [pc EXCEPT !["lc"] = "prep"]
          /\ UNCHANGED <<timer_armed, timer_val, wake_lock>>
       \/ /\ g_modem_state \in Faulted /\ lc_msg = "Modem Blocked"
          /\ wake_lock' = FALSE
          /\ pc' = [pc EXCEPT !["lc"] = "read"]
          /\ UNCHANGED <<timer_armed, timer_val>>
    /\ UNCHANGED <<g_modem_state, s_modemState, s_needResetModem,
                   wait_modem_reset, rfds, dev, ctrl_pipe, lc_msg,
                   later_reset, dump_state, waiters, woken, rebooting, cp,
                   z_pending, client_in, slog, budget>>

\* prepare_reset_modem (modem_control.c:314-369): drain the log channel,
\* open diag; on failure return without setting the flag; else drain
\* diag, wait_modem_reset = 1, write "z\n" to the CP.
PrepareResetModem ==
    /\ ~rebooting
    /\ pc["lc"] = "prep"
    /\ pc' = [pc EXCEPT !["lc"] = "poll"]
    /\ \/ /\ Avail("diagfail") /\ Spend("diagfail")
          /\ UNCHANGED <<wait_modem_reset, z_pending>>
       \/ /\ SetWaitResetFlag(TRUE)
          /\ z_pending' = TRUE
          /\ UNCHANGED budget
    /\ UNCHANGED <<g_modem_state, s_modemState, s_needResetModem,
                   timer_armed, timer_val, wake_lock, rfds, dev, ctrl_pipe,
                   lc_msg, later_reset, dump_state, waiters, woken,
                   rebooting, cp, client_in, slog>>

\* The 50 x 100 ms poll ends with the flag cleared by listen_modem.
LCPollDone ==
    /\ ~rebooting
    /\ pc["lc"] = "poll"
    /\ ~wait_modem_reset
    /\ wake_lock' = FALSE
    /\ pc' = [pc EXCEPT !["lc"] = "read"]
    /\ UNCHANGED <<g_modem_state, s_modemState, s_needResetModem,
                   wait_modem_reset, timer_armed, timer_val, rfds, dev,
                   ctrl_pipe, lc_msg, later_reset, dump_state, waiters, woken,
                   rebooting, cp, z_pending, client_in, slog, budget>>

\* The poll times out with the flag still set: stop the timer and force a
\* reload.
LCPollTimeout ==
    /\ ~rebooting
    /\ pc["lc"] = "poll"
    /\ wait_modem_reset
    /\ Settled
    /\ StopTimer
    /\ pc' = [pc EXCEPT !["lc"] = "load1"]
    /\ UNCHANGED <<g_modem_state, s_modemState, s_needResetModem,
                   wait_modem_reset, wake_lock, rfds, dev, ctrl_pipe, lc_msg,
                   later_reset, dump_state, waiters, woken, rebooting, cp,
                   z_pending, client_in, slog, budget>>

\* Mutant: the alive timer is not restarted after the reload.
LCArmNoTimer ==
    /\ ~rebooting
    /\ pc["lc"] = "arm"
    /\ wake_lock' = FALSE
    /\ pc' = [pc EXCEPT !["lc"] = "read"]
    /\ UNCHANGED <<g_modem_state, s_modemState, s_needResetModem,
                   wait_modem_reset, timer_armed, timer_val, rfds, dev,
                   ctrl_pipe, lc_msg, later_reset, dump_state, waiters, woken,
                   rebooting, cp, z_pending, client_in, slog, budget>>

\* After a reload: modem_ctrl_start_wait_alive_timer, then the release of
\* the wake lock at the end of the loop body.
LCArm ==
    /\ ~rebooting
    /\ pc["lc"] = "arm"
    /\ StartTimer
    /\ wake_lock' = FALSE
    /\ pc' = [pc EXCEPT !["lc"] = "read"]
    /\ UNCHANGED <<g_modem_state, s_modemState, s_needResetModem,
                   wait_modem_reset, rfds, dev, ctrl_pipe, lc_msg,
                   later_reset, dump_state, waiters, woken, rebooting, cp,
                   z_pending, client_in, slog, budget>>

-----------------------------------------------------------------------------
(* modem_ctrl_read_thread (modem_connect.c:192-276) with                  *)
(* dispatch_modem_blocked (modem_connect.c:447-530).  state is declared   *)
(* once outside the loop and never reset.                                 *)

DumpState(m) ==
    CASE m = "SLOGMODEM DUMP BEGIN"    -> "begin"
      [] m = "SLOGMODEM DUMP COMPLETE" -> "complete"
      [] OTHER                         -> dump_state

\* The first half of dispatch_modem_blocked: write "Modem Blocked" to the
\* control pipe, then, under s_writeMutex, return 0 unless s_modemState is
\* ALIVE, else set it to ASSERT.  Other messages: on DUMP_COMPLETE signal
\* the dump condition (waking at most one waiter) and send "Modem Reset"
\* if a block is waiting for it.
RTRead ==
    /\ ~rebooting
    /\ pc["rt"] = "read"
    /\ client_in # <<>>
    /\ LET m == Head(client_in) IN
       /\ client_in' = Tail(client_in)
       /\ dump_state' = DumpState(m)
       /\ \/ /\ m = "Modem Blocked"
             /\ ctrl_pipe' = Append(ctrl_pipe, "Modem Blocked")
             /\ \/ /\ s_modemState # "ALIVE"
                   /\ later_reset' = FALSE
                   /\ UNCHANGED <<s_modemState, pc>>
                \/ /\ s_modemState = "ALIVE"
                   /\ s_modemState' = "ASSERT"
                   /\ pc' = [pc EXCEPT !["rt"] = "blocked"]
                   /\ UNCHANGED later_reset
             /\ UNCHANGED <<waiters, woken>>
          \/ /\ m # "Modem Blocked"
             /\ DumpState(m) = "complete"
             /\ IF waiters > 0 THEN waiters' = waiters - 1 /\ woken' = woken + 1
                               ELSE UNCHANGED <<waiters, woken>>
             /\ later_reset' = FALSE
             /\ ctrl_pipe' = IF later_reset
                               THEN Append(ctrl_pipe, "Modem Reset")
                               ELSE ctrl_pipe
             /\ UNCHANGED <<s_modemState, pc>>
          \/ /\ m # "Modem Blocked"
             /\ DumpState(m) # "complete"
             /\ UNCHANGED <<s_modemState, pc, ctrl_pipe, later_reset,
                            waiters, woken>>
    /\ UNCHANGED <<g_modem_state, s_needResetModem, wait_modem_reset,
                   timer_armed, timer_val, wake_lock, rfds, dev, lc_msg,
                   rebooting, cp, z_pending, slog, budget>>

\* The rest of dispatch_modem_blocked: AT loopback (its failure only
\* skips to RAW_RESET), broadcast "Modem Blocked", then with reset on
\* either ask the caller to wait for the dump or send "Modem Reset".  The
\* result becomes later_reset.
RTBlocked ==
    /\ ~rebooting
    /\ pc["rt"] = "blocked"
    /\ Settled
    \* process_message has no branch for "Modem Blocked".
    /\ \/ IsReset /\ IsDump /\ later_reset' = TRUE /\ UNCHANGED ctrl_pipe
       \/ IsReset /\ ~IsDump /\ later_reset' = FALSE
          /\ ctrl_pipe' = Append(ctrl_pipe, "Modem Reset")
       \/ ~IsReset /\ later_reset' = FALSE /\ UNCHANGED ctrl_pipe
    /\ pc' = [pc EXCEPT !["rt"] = "read"]
    /\ UNCHANGED <<g_modem_state, s_modemState, s_needResetModem, waiters,
                   wait_modem_reset, timer_armed, timer_val,
                   wake_lock, rfds, dev, lc_msg, dump_state, woken,
                   rebooting, cp, z_pending, client_in, slog, budget>>

\* Mutant: the deadline fires without a waiting thread.
DumpWaitTimeoutNoGuard ==
    /\ ~rebooting
    /\ Settled
    /\ waiters' = waiters - 1
    /\ woken' = woken + 1
    /\ UNCHANGED <<g_modem_state, s_modemState, s_needResetModem,
                   wait_modem_reset, timer_armed, timer_val, wake_lock, pc,
                   rfds, dev, ctrl_pipe, lc_msg, later_reset, dump_state,
                   rebooting, cp, z_pending, client_in, slog, budget>>

\* write_reset_to_modem_ctrl (modem_connect.c:289-314): timedwait with a
\* 5-minute deadline and no predicate, then write "Prepare Reset".  The
\* deadline may pass at any point relative to the other threads.
DumpWaitTimeout ==
    /\ ~rebooting
    /\ waiters > 0
    /\ Settled
    /\ waiters' = waiters - 1
    /\ woken' = woken + 1
    /\ UNCHANGED <<g_modem_state, s_modemState, s_needResetModem,
                   wait_modem_reset, timer_armed, timer_val, wake_lock, pc,
                   rfds, dev, ctrl_pipe, lc_msg, later_reset, dump_state,
                   rebooting, cp, z_pending, client_in, slog, budget>>

DumpWaiterWrite ==
    /\ ~rebooting
    /\ woken > 0
    /\ woken' = woken - 1
    /\ ctrl_pipe' = Append(ctrl_pipe, "Prepare Reset")
    /\ UNCHANGED <<g_modem_state, s_modemState, s_needResetModem,
                   wait_modem_reset, timer_armed, timer_val, wake_lock, pc,
                   rfds, dev, lc_msg, later_reset, dump_state, waiters,
                   rebooting, cp, z_pending, client_in, slog, budget>>

-----------------------------------------------------------------------------
(* modem_ctrl_listen_sp (modem_control.c:738-768): a read that is not     *)
(* "P-ARM Modem Assert" 'continue's with the wake lock held; a P-ARM      *)
(* assert reboots the system with reset on, else is broadcast.            *)

ListenSp ==
    /\ ~rebooting
    /\ ThreadsStarted
    /\ Avail("sp") /\ Spend("sp")
    /\ \/ /\ wake_lock' = TRUE
          /\ UNCHANGED <<g_modem_state, rebooting, s_modemState,
                         s_needResetModem, ctrl_pipe, waiters>>
       \/ /\ IsReset
          /\ wake_lock' = TRUE
          /\ RebootAllSystem
          /\ UNCHANGED <<s_modemState, s_needResetModem, ctrl_pipe, waiters>>
       \/ /\ ~IsReset
          /\ ProcessMessage(PArm)
          /\ wake_lock' = FALSE
          /\ UNCHANGED <<g_modem_state, rebooting>>
    /\ UNCHANGED <<wait_modem_reset, timer_armed, timer_val, pc, rfds, dev,
                   lc_msg, later_reset, dump_state, woken, cp, z_pending,
                   client_in, slog>>

-----------------------------------------------------------------------------
(* Environment: the CP, rild and slogmodem.                               *)

EnvUnchanged == UNCHANGED <<g_modem_state, s_modemState, s_needResetModem,
                            wait_modem_reset, timer_armed, timer_val,
                            wake_lock, pc, rfds, ctrl_pipe, lc_msg,
                            later_reset, dump_state, waiters, woken,
                            rebooting>>

\* A booting CP reports "Modem Alive".
CpBoot ==
    /\ ~rebooting
    /\ cp = "booting"
    /\ Settled
    /\ cp' = "alive"
    /\ dev' = [dev EXCEPT ![AliveDev] = Append(@, "Modem Alive")]
    /\ EnvUnchanged /\ UNCHANGED <<z_pending, client_in, slog, budget>>

\* A running CP crashes and reports an assert, or its watchdog a hang.
CpAssert ==
    /\ ~rebooting
    /\ cp = "alive" /\ Avail("faults") /\ Spend("faults")
    /\ cp' = "asserted"
    /\ slog' = "idle"
    /\ \/ dev' = [dev EXCEPT !["assert_dev"] = Append(@, "Modem Assert")]
       \/ dev' = [dev EXCEPT ![HungDev] = Append(@, "Modem Assert HUNG")]
    /\ EnvUnchanged /\ UNCHANGED <<z_pending, client_in>>

\* A running CP stops answering AT commands; rild reports it after its
\* AT command timeouts, i.e. seconds later.
CpBlock ==
    /\ ~rebooting
    /\ cp = "alive" /\ Avail("blocks") /\ Spend("blocks")
    /\ Settled
    /\ cp' = "blocked"
    /\ client_in' = Append(client_in, "Modem Blocked")
    /\ EnvUnchanged /\ UNCHANGED <<dev, z_pending, slog>>

\* The CP executes the 'z' command: it resets itself and reports it; its
\* reboot may fail as a load's may.
CpSelfReset ==
    /\ ~rebooting
    /\ z_pending
    /\ cp \in {"alive", "blocked", "asserted"}
    /\ z_pending' = FALSE
    /\ \/ cp' = "booting" /\ UNCHANGED budget
       \/ Avail("selffail") /\ cp' = "dead" /\ Spend("selffail")
    /\ dev' = [dev EXCEPT !["assert_dev"] = Append(@, "Modem Reset")]
    /\ EnvUnchanged /\ UNCHANGED <<client_in, slog>>

\* slogmodem dumps an asserted CP.
SlogDumpBegin ==
    /\ ~rebooting
    /\ IsDump /\ cp = "asserted" /\ slog = "idle"
    /\ slog' = "dumping"
    /\ client_in' = Append(client_in, "SLOGMODEM DUMP BEGIN")
    /\ EnvUnchanged /\ UNCHANGED <<cp, dev, z_pending, budget>>

SlogDumpComplete ==
    /\ ~rebooting
    /\ slog = "dumping"
    /\ Settled
    /\ slog' = "done"
    /\ client_in' = Append(client_in, "SLOGMODEM DUMP COMPLETE")
    /\ EnvUnchanged /\ UNCHANGED <<cp, dev, z_pending, budget>>

\* Some client writes a message the read thread does not recognise.
ClientOther ==
    /\ ~rebooting
    /\ Avail("other") /\ Spend("other")
    /\ client_in' = Append(client_in, "Other")
    /\ EnvUnchanged /\ UNCHANGED <<cp, dev, z_pending, slog>>

-----------------------------------------------------------------------------

Init ==
    /\ \E bc \in BootCases :
          \* modem_has_been_boot: no load and no alive timer.
          \/ bc = "alive" /\ cp = "alive"
             /\ pc = [main |-> "idle", lc |-> "read", rt |-> "read"]
          \* cmdline "modem=shutdown": load_modem_img(LOAD_ALL_IMG).
          \/ bc = "shutdown" /\ cp = "off"
             /\ pc = [main |-> "load1", lc |-> "read", rt |-> "read"]
          \* not booted and no "shutdown": only the alive timer.
          \/ bc = "noload" /\ cp = "off"
             /\ pc = [main |-> "arm", lc |-> "read", rt |-> "read"]
    /\ g_modem_state = "INIT"
    /\ s_modemState = "OFFLINE"
    /\ s_needResetModem = TRUE
    /\ wait_modem_reset = FALSE
    /\ timer_armed = FALSE /\ timer_val = FALSE
    /\ wake_lock = FALSE
    /\ rfds = Devices
    /\ dev = [d \in Devices |-> <<>>]
    /\ ctrl_pipe = <<>>
    /\ lc_msg = "none"
    /\ later_reset = FALSE
    /\ dump_state = "none"
    /\ waiters = 0 /\ woken = 0
    /\ rebooting = FALSE
    /\ z_pending = FALSE
    /\ client_in = <<>>
    /\ slog = "idle"
    /\ budget = [k \in DOMAIN Budgets |-> 0]

\* Steps of the modem_control threads.
Daemon ==
    \/ LoadBegin("main") \/ LoadEnd("main") \/ BootArm
    \/ AliveTimerExpire \/ AliveTimeoutAct
    \/ ListenModem
    \/ LCRead \/ LCDispatch \/ PrepareResetModem \/ LCPollDone
    \/ LCPollTimeout \/ LoadBegin("lc") \/ LoadEnd("lc") \/ LCArm
    \/ RTRead \/ RTBlocked \/ DumpWaitTimeout \/ DumpWaiterWrite
    \/ ListenSp

Environment ==
    \/ CpBoot \/ CpAssert \/ CpBlock \/ CpSelfReset
    \/ SlogDumpBegin \/ SlogDumpComplete \/ ClientOther

\* Every action requires ~rebooting: once modem_ctrl_reboot_all_system
\* runs, the system goes down.
Next == Daemon \/ Environment

\* Every thread is scheduled; the kernel timer and the 5-minute dump
\* deadline expire; a booting CP reports alive; slogmodem finishes a dump.
Fairness ==
    /\ WF_vars(LoadBegin("main")) /\ WF_vars(LoadEnd("main"))
    /\ WF_vars(BootArm) /\ WF_vars(AliveTimerExpire)
    /\ WF_vars(AliveTimeoutAct) /\ WF_vars(ListenModem)
    /\ WF_vars(LCRead) /\ WF_vars(LCDispatch) /\ WF_vars(PrepareResetModem)
    /\ WF_vars(LCPollDone) /\ WF_vars(LCPollTimeout)
    /\ WF_vars(LoadBegin("lc")) /\ WF_vars(LoadEnd("lc")) /\ WF_vars(LCArm)
    /\ WF_vars(RTRead) /\ WF_vars(RTBlocked)
    /\ WF_vars(DumpWaitTimeout) /\ WF_vars(DumpWaiterWrite)
    /\ WF_vars(CpBoot) /\ WF_vars(SlogDumpComplete)

Spec == Init /\ [][Next]_vars /\ Fairness

-----------------------------------------------------------------------------
(* Properties.                                                            *)

CpStates == {"off", "booting", "alive", "blocked", "asserted", "dead"}
PCs == {"load1", "load2", "arm", "idle", "th_sleep", "read", "dispatch",
        "prep", "poll", "blocked"}

\* Every variable holds a value of its type.
TypeOK ==
    /\ g_modem_state \in States
    /\ s_modemState \in ConStates
    /\ s_needResetModem \in BOOLEAN /\ wait_modem_reset \in BOOLEAN
    /\ timer_armed \in BOOLEAN /\ timer_val \in BOOLEAN
    /\ wake_lock \in BOOLEAN
    /\ pc \in [{"main", "lc", "rt"} -> PCs]
    /\ rfds \subseteq Devices
    /\ dev \in [Devices -> Seq(DevMsgs)]
    /\ ctrl_pipe \in Seq(PipeMsgs)
    /\ lc_msg \in PipeMsgs \cup {"none"}
    /\ later_reset \in BOOLEAN
    /\ dump_state \in {"none", "begin", "complete"}
    /\ waiters \in Nat /\ woken \in Nat
    /\ rebooting \in BOOLEAN
    /\ cp \in CpStates /\ z_pending \in BOOLEAN
    /\ client_in \in Seq(ClientMsgs)
    /\ slog \in {"idle", "dumping", "done"}
    /\ budget \in [DOMAIN Budgets -> Nat]

\* A failed CP is brought back.  Whether it crashed (listen_modem's
\* assert report), stopped answering (rild's "Modem Blocked") or never
\* booted after a load (the alive timer), the requests through the control
\* pipe, prepare_reset_modem's 'z' with its 5 s wait, the forced reload and
\* the alive timer together lead to a running CP that g_modem_state
\* reports ALIVE, unless the system is rebooted.
CpFailed == cp \in {"asserted", "blocked", "dead"}
Recovered == (cp = "alive" /\ g_modem_state = "ALIVE") \/ rebooting

RecoversFromFault == CpFailed ~> Recovered

\* With reset off nothing brings a failed CP back, but the clients are
\* told: a crash, a block reported by rild (dispatch_modem_blocked with
\* s_modemState ALIVE) or a CP that never boots (the alive-timeout
\* handler's "modem not alive") leads process_message, under
\* s_needResetModem and its P-ARM toggle, to set s_modemState to ASSERT,
\* the state every client connecting later is sent.
FailureReported == CpFailed ~> (s_modemState = "ASSERT" \/ ~CpFailed)

\* listen_clients reloads the CP (load_modem_img on "Modem Reset" or after
\* the 5 s wait for the 'z' reset) only when the CP is not running
\* normally: a reload is never started for a CP that has already come
\* back, however the reset requests of listen_modem, the read thread and
\* the dump waiters interleave with its check of g_modem_state.
ReloadOnlyFailed ==
    [][pc["lc"] = "load1" /\ pc'["lc"] = "load2" => cp # "alive"]_vars

\* The alive-timeout handler declares the CP dead (rebooting the system or
\* broadcasting "modem not alive" with state ASSERT) only while
\* g_modem_state is not ALIVE: a "Modem Alive" processed by listen_modem
\* during the handler's 6 s sleep is not overridden.
NotAliveOnlyForDeadModem ==
    [][pc["main"] = "th_sleep" /\ pc'["main"] = "idle"
         => g_modem_state # "ALIVE"]_vars

\* listen_modem reads every message the modem driver delivers on any of
\* the devices it opened (assert, watchdog, alive): whichever device
\* became ready last, select() is called again on all of them.
DeviceEventsConsumed ==
    \A d \in Devices : dev[d] # <<>> ~> (dev[d] = <<>> \/ rebooting)

\* Every thread of modem_control is blocked waiting for input and no
\* input is pending.
Quiescent ==
    /\ Settled /\ ~rebooting
    /\ pc["main"] = "idle" /\ pc["lc"] = "read" /\ pc["rt"] = "read"
    /\ waiters = 0

\* The "modem_control" wake lock is released at the end of every
\* read-and-dispatch cycle (listen_modem, listen_clients, listen_sp), so
\* it is not held once all threads are back to waiting.
WakeLockReleasedWhenIdle == Quiescent => ~wake_lock

\* The wake lock taken by load_modem_img is held until the load ends: no
\* other thread's release lets the system suspend while the CP images are
\* written.
WakeLockHeldWhileLoading ==
    (\E t \in {"main", "lc"} : pc[t] = "load2") => wake_lock

=============================================================================
