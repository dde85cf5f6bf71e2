-------------------------- MODULE LoadOrchestrator --------------------------
(***************************************************************************)
(* The external-modem build of modem_load.c (FEATURE_EXTERNAL_MODEM,       *)
(* without FEATURE_PCIE_RESCAN and secure boot): load_modem_img, run by    *)
(* listen_clients for a reset, and load_spl_img, run by one uevent thread  *)
(* per MDM_WARM_RESET event (modem_event.c:73-78).                         *)
(*                                                                         *)
(* Both take the CP's driver write lock (modem_lock_write): a load from    *)
(* modem_load_stop to modem_load_start, an SPL reload around its SPL       *)
(* image.  The lock is the driver's, reached through an ioctl on a fresh   *)
(* fd each time; it is held until MODEM_WRITE_UNLOCK_CMD and it is not     *)
(* recursive, so taking it again waits for an unlock.  modem_set_remote_   *)
(* flag writes the shared remote-flag register (REMOTE_CLEAR_FLAG, 0,      *)
(* clears it); the remote sets bit 0, DDR ready, after it has seen the    *)
(* SPL image done, bit 5.  The register is a set of bit numbers.           *)
(*                                                                         *)
(* Image copies other than the SPL are not failures here: their results   *)
(* only choose which done flag the remote sees, and nothing modelled reads *)
(* those.                                                                  *)
(***************************************************************************)
EXTENDS Naturals, FiniteSets

CONSTANTS
    Handlers,       \* the uevent threads, one per warm-reset event
    Requests,       \* the load_type values the callers pass, see Bits
    InitRun,        \* whether the subsystems run when the daemon starts
    MaxLoads,       \* loads requested by listen_clients
    MaxSplFail,     \* SPL image copies that fail
    MaxDdrLate      \* DDR-ready waits that time out

(* The load_type bits (modem_load.h:119-126) of each caller:                *)
(* modem_ctrl_boot_modem's LOAD_ALL_IMG, modem_reboot_all_modem's           *)
(* LOADL_ALL_EXTERNAL_IMG, and the modem-only reload's LOAD_MODEM_IMG.      *)
Bits == [all      |-> {"SP", "MODEM", "DP", "MINIAP", "AGDSP"},
         external |-> {"MODEM", "DP", "MINIAP", "AGDSP"},
         modem    |-> {"MODEM"}]

Subsys == {"SP", "DP", "CP"}
NoOwner == "none"

(* Bits of the remote-flag register, modem_io_control.h:36-48.            *)
DdrReady == 0
ModemDone == 1      \* also MODEM_WARM_RESET_FLAG
HeadDone == 4
SplDone == 5

ASSUME /\ Requests \subseteq DOMAIN Bits /\ InitRun \in {"started", "stopped"}
       /\ MaxLoads \in Nat /\ MaxSplFail \in Nat /\ MaxDdrLate \in Nat

VARIABLES
    mstate,         \* g_modem_state as the loads write it
    wake,           \* the wake lock load_modem_img takes
    run,            \* per subsystem: "started" or "stopped"
    wlock,          \* per subsystem: the owner of its driver write lock
    remote,         \* the remote-flag register
    lpc,            \* load_modem_img's position
    ltype, limg,    \* its load_type and start_img
    hpc,            \* per uevent thread: load_spl_img's position
    loads, splFails, ddrLate

vars == <<mstate, wake, run, wlock, remote, lpc, ltype, limg, hpc, loads, splFails, ddrLate>>

CpBits == {"MODEM", "MINIAP"}

(* modem_lock_write: the ioctl waits until nobody holds the lock.         *)
LockWrite(s, who) == wlock[s] = NoOwner /\ wlock' = [wlock EXCEPT ![s] = who]

(* modem_load_run(1, ..) for the subsystems in a set: start, then unlock. *)
StartSet(S) ==
    /\ run' = [s \in Subsys |-> IF s \in S THEN "started" ELSE run[s]]
    /\ wlock' = [s \in Subsys |-> IF s \in S THEN NoOwner ELSE wlock[s]]

(* The subsystems modem_load_start / modem_load_stop act on for a mask.   *)
Targets(img) == (IF "DP" \in img THEN {"DP"} ELSE {})
                \cup (IF img \cap CpBits # {} THEN {"CP"} ELSE {})

(***************************************************************************)
(* load_modem_img, external build (modem_load.c:760-904).                  *)
(***************************************************************************)

(* Lines 760-776: the wake lock, start_img = load_type, state LOADING.    *)
(* modem_ctrl_reboot_external_modem writes REBOOT_EXT_MODEM just before,  *)
(* and this overwrites it in the same thread.                              *)
LoadBegin(r) ==
    /\ lpc = "idle" /\ loads < MaxLoads
    /\ loads' = loads + 1
    /\ ltype' = Bits[r] /\ limg' = Bits[r]
    /\ wake' = TRUE /\ mstate' = "LOADING"
    /\ lpc' = IF "SP" \in Bits[r] THEN "sp" ELSE "stopdp"
    /\ UNCHANGED <<run, wlock, remote, hpc, splFails, ddrLate>>

(* Lines 778-802: stop the SP (lock, stop), copy its table, start it      *)
(* (start, unlock), and drop SP from start_img.  Nothing else takes the   *)
(* SP's lock.                                                              *)
LoadSp ==
    /\ lpc = "sp" /\ wlock["SP"] = NoOwner
    /\ run' = [run EXCEPT !["SP"] = "started"]
    /\ limg' = limg \ {"SP"}
    /\ lpc' = "stopdp"
    /\ UNCHANGED <<mstate, wake, wlock, remote, ltype, hpc, loads, splFails, ddrLate>>

(* Line 805, modem_load_stop(start_img), first the DP: lock, stop.        *)
LoadStopDp ==
    /\ lpc = "stopdp"
    /\ IF "DP" \in limg
       THEN LockWrite("DP", "loader") /\ run' = [run EXCEPT !["DP"] = "stopped"]
       ELSE UNCHANGED <<wlock, run>>
    /\ lpc' = "stopcp"
    /\ UNCHANGED <<mstate, wake, remote, ltype, limg, hpc, loads, splFails, ddrLate>>

(* Then the CP: the lock waits for a warm-reset thread to let it go.      *)
LoadStopCp ==
    /\ lpc = "stopcp"
    /\ IF limg \cap CpBits # {}
       THEN LockWrite("CP", "loader") /\ run' = [run EXCEPT !["CP"] = "stopped"]
       ELSE UNCHANGED <<wlock, run>>
    /\ lpc' = "spl"
    /\ UNCHANGED <<mstate, wake, remote, ltype, limg, hpc, loads, splFails, ddrLate>>

(* Lines 806-837: the DP table; clear the remote flags; for the mini AP,  *)
(* the SPL image, then SPL done.  A failed SPL zeroes load_type and       *)
(* start_img.                                                              *)
LoadSpl ==
    /\ lpc = "spl"
    /\ IF "MINIAP" \in ltype
       THEN \/ /\ remote' = {SplDone} /\ lpc' = "wait"
               /\ UNCHANGED <<ltype, limg, splFails>>
            \/ /\ splFails < MaxSplFail /\ splFails' = splFails + 1
               /\ remote' = {} /\ ltype' = {} /\ limg' = {} /\ lpc' = "images"
       ELSE remote' = {} /\ lpc' = "images" /\ UNCHANGED <<ltype, limg, splFails>>
    /\ UNCHANGED <<mstate, wake, run, wlock, hpc, loads, ddrLate>>

(* Lines 838-844 and modem_load_wait_remote (706-734): poll DDR ready     *)
(* for 10 s; a timeout zeroes load_type and start_img.                    *)
LoadWait ==
    /\ lpc = "wait"
    /\ \/ DdrReady \in remote /\ UNCHANGED <<ltype, limg, ddrLate>>
       \/ /\ DdrReady \notin remote /\ ddrLate < MaxDdrLate
          /\ ddrLate' = ddrLate + 1 /\ ltype' = {} /\ limg' = {}
    /\ lpc' = "images"
    /\ UNCHANGED <<mstate, wake, run, wlock, remote, hpc, loads, splFails>>

(* Lines 846-896: the audio DSP, then the mini AP's sml/uboot, boot and   *)
(* head images, then the modem image, each followed by its done flag.     *)
LoadImages ==
    /\ lpc = "images"
    /\ remote' = CASE "MODEM" \in ltype  -> {ModemDone}
                   [] "MINIAP" \in ltype -> {HeadDone}
                   [] OTHER              -> remote
    /\ lpc' = "start"
    /\ UNCHANGED <<mstate, wake, run, wlock, ltype, limg, hpc, loads, splFails, ddrLate>>

(* modem_load_start starting the subsystems and leaving them locked.      *)
LoadStartNoUnlock ==
    /\ lpc = "start"
    /\ run' = [s \in Subsys |-> IF s \in Targets(limg) THEN "started" ELSE run[s]]
    /\ mstate' = "BOOTING" /\ wake' = FALSE /\ lpc' = "idle"
    /\ UNCHANGED <<wlock, remote, ltype, limg, hpc, loads, splFails, ddrLate>>

(* Lines 897-904: modem_load_start(start_img), state BOOTING, wake lock   *)
(* released.                                                               *)
LoadStart ==
    /\ lpc = "start"
    /\ StartSet(Targets(limg))
    /\ mstate' = "BOOTING" /\ wake' = FALSE /\ lpc' = "idle"
    /\ UNCHANGED <<remote, ltype, limg, hpc, loads, splFails, ddrLate>>

(***************************************************************************)
(* load_spl_img (modem_load.c:736-758) on a uevent thread.                 *)
(***************************************************************************)

(* modem_event_triger's MDM_WARM_RESET case on a new thread.              *)
WarmEvent(h) ==
    /\ hpc[h] = "idle"
    /\ hpc' = [hpc EXCEPT ![h] = "lock"]
    /\ UNCHANGED <<mstate, wake, run, wlock, remote, lpc, ltype, limg, loads, splFails, ddrLate>>

(* Lines 741-743: lock, then clear the remote flags.                      *)
HandlerLock(h) ==
    /\ hpc[h] = "lock"
    /\ LockWrite("CP", h)
    /\ remote' = {}
    /\ hpc' = [hpc EXCEPT ![h] = "spl"]
    /\ UNCHANGED <<mstate, wake, run, lpc, ltype, limg, loads, splFails, ddrLate>>

(* The SPL reload returning on success without the unlock.              *)
HandlerSplNoUnlock(h) ==
    /\ hpc[h] = "spl"
    /\ \/ /\ remote' = {SplDone, ModemDone}
          /\ hpc' = [hpc EXCEPT ![h] = "done"]
          /\ UNCHANGED <<splFails, wlock>>
       \/ /\ splFails < MaxSplFail /\ splFails' = splFails + 1
          /\ hpc' = [hpc EXCEPT ![h] = "relock"]
          /\ UNCHANGED <<remote, wlock>>
    /\ UNCHANGED <<mstate, wake, run, lpc, ltype, limg, loads, ddrLate>>

(* Lines 745-755: the SPL image; on success SPL done and warm reset, then *)
(* unlock.  On failure line 748 calls modem_lock_write again on the lock  *)
(* this thread holds, and waits there: "relock" has no step out.          *)
HandlerSpl(h) ==
    /\ hpc[h] = "spl"
    /\ \/ /\ remote' = {SplDone, ModemDone}
          /\ wlock' = [wlock EXCEPT !["CP"] = NoOwner]
          /\ hpc' = [hpc EXCEPT ![h] = "done"]
          /\ UNCHANGED splFails
       \/ /\ splFails < MaxSplFail /\ splFails' = splFails + 1
          /\ hpc' = [hpc EXCEPT ![h] = "relock"]
          /\ UNCHANGED <<remote, wlock>>
    /\ UNCHANGED <<mstate, wake, run, lpc, ltype, limg, loads, ddrLate>>

(* The remote, once it has seen SPL done, reports its DDR ready.          *)
RemoteDdrReady ==
    /\ SplDone \in remote /\ DdrReady \notin remote
    /\ remote' = remote \cup {DdrReady}
    /\ UNCHANGED <<mstate, wake, run, wlock, lpc, ltype, limg, hpc, loads, splFails, ddrLate>>

Init ==
    /\ mstate = "INIT" /\ wake = FALSE
    /\ run = [s \in Subsys |-> InitRun]
    /\ wlock = [s \in Subsys |-> NoOwner]
    /\ remote = {}
    /\ lpc = "idle" /\ ltype = {} /\ limg = {}
    /\ hpc = [h \in Handlers |-> "idle"]
    /\ loads = 0 /\ splFails = 0 /\ ddrLate = 0

Loader == LoadSp \/ LoadStopDp \/ LoadStopCp \/ LoadSpl \/ LoadWait \/ LoadImages \/ LoadStart

Next ==
    \/ \E r \in Requests : LoadBegin(r)
    \/ LoadSp \/ LoadStopDp \/ LoadStopCp \/ LoadSpl \/ LoadWait \/ LoadImages \/ LoadStart
    \/ \E h \in Handlers : WarmEvent(h) \/ HandlerLock(h) \/ HandlerSpl(h)
    \/ RemoteDdrReady

(* The loader and each uevent thread run when they can, and the remote    *)
(* does report DDR ready; requests and warm resets are never forced.       *)
Spec == Init /\ [][Next]_vars
        /\ WF_vars(Loader)
        /\ \A h \in Handlers : WF_vars(HandlerLock(h) \/ HandlerSpl(h))
        /\ WF_vars(RemoteDdrReady)

(***************************************************************************)
(* Refinement: the loads implement ModemLoad.  A load is loading from      *)
(* LoadBegin to LoadStart, holds the CP while the loader owns its write    *)
(* lock, and an SPL reload counts when its thread is done.                 *)
(***************************************************************************)
SplReloadsDone == Cardinality({h \in Handlers : hpc[h] = "done"})

ML == INSTANCE ModemLoad
        WITH mstate <- mstate, cpRun <- run["CP"], held <- wlock["CP"] = "loader",
             loading <- lpc # "idle", splReloads <- SplReloadsDone

(* Every load_modem_img ends with the CP started, its lock released and   *)
(* the state BOOTING, and no SPL reload falls between its stop and start   *)
(* (spec.md section 4.4).                                                   *)
LoadRefinesModemLoad == ML!Spec

(* Every warm-reset thread that reaches modem_lock_write eventually       *)
(* returns from load_spl_img: nobody keeps the CP's write lock.            *)
WarmResetServed == \A h \in Handlers : hpc[h] = "lock" ~> hpc[h] = "done"

=============================================================================
