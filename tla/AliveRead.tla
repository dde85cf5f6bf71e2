----------------------------- MODULE AliveRead -----------------------------
(***************************************************************************)
(* modem_ctrl_try_read_modem_alive (modem_control.c:50-114), the          *)
(* synchronous wait for "Modem Alive" that modem_ctrl_start_wait_alive_   *)
(* timer makes on boards without the alive-device property.  Its          *)
(* environment: the CP, which writes "Modem Alive" on the tty once, and   *)
(* the alive timer's SIGALRM handler modem_ctrl_alive_timeout, which      *)
(* zeroes s_wait_alive_timer and declares the CP asserted.                *)
(*                                                                         *)
(* ar is the routine: pc, the loop counter cnt, fd (the tty "dev", a      *)
(* failed open "bad", or an uninitialised value: "bad" or the "foreign"   *)
(* descriptor of another part of the daemon), whether fd is in rfds, the  *)
(* tty descriptors opened and never closed, and whether it closed a       *)
(* foreign one.  timerOn is s_wait_alive_timer.it_value.tv_sec != 0.      *)
(***************************************************************************)
EXTENDS Integers

CONSTANTS
    OpenTries,    \* 600: opens of the tty, 100 ms apart
    ReadTries,    \* 60: selects of 1 s
    CntGarbage,   \* values the uninitialised cnt may hold
    FdGarbage     \* values the uninitialised fd may hold

ASSUME /\ OpenTries \in Nat /\ ReadTries \in Nat /\ CntGarbage \subseteq Int
       /\ FdGarbage \subseteq {"bad", "foreign"}

VARIABLES ar, pending, timerOn, modemState

arVars == <<ar, pending, timerOn, modemState>>

Idle == [pc |-> "idle"]

(* modem_ctrl_start_wait_alive_timer has just set tv_sec to 60.           *)
Init ==
    /\ ar = Idle
    /\ pending = FALSE
    /\ timerOn = TRUE
    /\ modemState = "other"

(* Lines 59-63: with the alive property the routine returns at once; cnt  *)
(* and fd are whatever the stack held.                                    *)
AliveBegin ==
    /\ ar = Idle
    /\ \E hasProp \in BOOLEAN, cnt0 \in CntGarbage, fd0 \in FdGarbage :
          ar' = IF hasProp THEN [pc |-> "done"]
                ELSE [pc |-> "open", cnt |-> cnt0, fd |-> fd0, rfds |-> FALSE,
                      leaked |-> 0, closedForeign |-> FALSE]
    /\ UNCHANGED <<pending, timerOn, modemState>>

(* Lines 64-67: each open replaces fd without closing the one before.     *)
OpenTty ==
    /\ ar.pc = "open" /\ ar.cnt < OpenTries
    /\ \E ok \in BOOLEAN :
          ar' = [ar EXCEPT !.cnt = @ + 1, !.fd = IF ok THEN "dev" ELSE "bad",
                           !.leaked = @ + (IF ar.fd = "dev" THEN 1 ELSE 0)]
    /\ UNCHANGED <<pending, timerOn, modemState>>

(* Lines 69-76: the last fd, if valid, is the only one in rfds.           *)
OpenDone ==
    /\ ar.pc = "open" /\ ar.cnt >= OpenTries
    /\ ar' = IF ar.fd = "bad" THEN [ar EXCEPT !.pc = "done"]
             ELSE [ar EXCEPT !.pc = "loop", !.rfds = TRUE, !.cnt = 0]
    /\ UNCHANGED <<pending, timerOn, modemState>>

(* Line 113: close(fd).                                                    *)
Close(a) ==
    [a EXCEPT !.pc = "done", !.closedForeign = @ \/ a.fd = "foreign"]

(* Lines 80-92: a select that finds nothing ready returns 0 and leaves    *)
(* rfds empty, and the loop goes on with it as it is.  The tty is ready   *)
(* when the CP's message is pending; a foreign descriptor at any time.    *)
(* EINTR is retried; select's other errors need a bad descriptor or no   *)
(* memory and are left out.                                               *)
SelectAlive ==
    /\ ar.pc = "loop"
    /\ IF ar.cnt < ReadTries /\ timerOn
       THEN \E foreignReady \in BOOLEAN :
              LET ready == ar.rfds /\ IF ar.fd = "dev" THEN pending ELSE foreignReady
              IN  ar' = IF ready THEN [ar EXCEPT !.cnt = @ + 1, !.pc = "ready"]
                        ELSE [ar EXCEPT !.cnt = @ + 1, !.rfds = FALSE]
       ELSE ar' = Close(ar)
    /\ UNCHANGED <<pending, timerOn, modemState>>

(* Lines 93-111: the timer test, then the read.  A read of the tty        *)
(* consumes the CP's message; one of a foreign descriptor takes another   *)
(* reader's data, never "Modem Alive".                                    *)
ReadAlive ==
    /\ ar.pc = "ready"
    /\ IF ~timerOn THEN ar' = Close(ar) /\ UNCHANGED pending
       ELSE \E readOk \in BOOLEAN :
              IF readOk /\ ar.fd = "dev"
              THEN ar' = [ar EXCEPT !.pc = "alive"] /\ pending' = FALSE
              ELSE ar' = [ar EXCEPT !.pc = "loop"] /\ UNCHANGED pending
    /\ UNCHANGED <<timerOn, modemState>>

(* Lines 105-109 and the close: stop the timer, set ALIVE, tell clients.   *)
ReportAlive ==
    /\ ar.pc = "alive"
    /\ timerOn' = FALSE
    /\ modemState' = "alive"
    /\ ar' = Close(ar)
    /\ UNCHANGED pending

(* The CP writes "Modem Alive" on the tty once.                            *)
CpAlive ==
    /\ ~pending /\ modemState # "alive" /\ ar.pc # "alive"
    /\ pending' = TRUE
    /\ UNCHANGED <<ar, timerOn, modemState>>

(* modem_ctrl_alive_timeout (lines 487-530) on SIGALRM: nothing if the CP *)
(* is alive or the timer was stopped, otherwise the timer is zeroed and   *)
(* the CP declared not alive.                                             *)
AlarmFires ==
    /\ modemState # "alive" /\ timerOn
    /\ timerOn' = FALSE
    /\ modemState' = "assert"
    /\ UNCHANGED <<ar, pending>>

Next == AliveBegin \/ OpenTty \/ OpenDone \/ SelectAlive \/ ReadAlive
        \/ ReportAlive \/ CpAlive \/ AlarmFires
=============================================================================
