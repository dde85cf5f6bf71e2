# TLA+ models of modem_control

This directory holds TLA+ models of the Spreadtrum `modem_control` daemon
(`src/`) and the TLC configurations that check them. `PROJECT.json` lists:
- every part of the system and whether it is modelled;
- every run and its mutants;
- the source lines behind each definition ("map");
- the findings;
- the hazards the code is exposed to.

## The system

`modem_control` is one process with several threads. They share
`g_modem_state` and the statics of `modem_connect.c`, and take no lock
except `s_writeMutex` around broadcasts.

| thread / actor | code | role |
|---|---|---|
| main | `modem_ctrl_boot_modem`, then `modem_ctrl_alive_timeout` (SIGALRM) | first load, alive timer, "not alive" handling |
| listen_modem | `internal_modem_control.c:15-169` | select on assert, watchdog and alive devices; Alive/Reset/Assert/HUNG |
| listen_clients | `modem_control.c:567-669` | consumer of the control pipe: BLOCK, Modem Reset (reload), Prepare Reset ('z' to the CP, 5 s poll, forced reload) |
| read thread | `modem_connect.c:192-276` | client messages: slogmodem's dump state, rild's "Modem Blocked" (`dispatch_modem_blocked`) |
| dump waiters | `write_reset_to_modem_ctrl` | one detached thread per assert with dump on: waits ≤5 min, then writes "Prepare Reset" |
| listen_sp | `modem_control.c:690-770` | SP monitor: "P-ARM Modem Assert" |
| environment | — | the CP (boots, crashes, hangs, blocks, executes 'z'), rild, slogmodem, the SP |

Requests flow from listen_modem, the read thread and the dump waiters into
one pipe, via `modem_ctrl_process_message` or direct writes. listen_clients
reads the pipe. It acts on a request only if `g_modem_state` is BLOCK,
ASSERT or RESET. Every reload re-arms the 60 s alive timer. When the timer
expires without an ALIVE, the system reboots or the daemon broadcasts "modem
not alive".

Two more parts run beside this:
- **The client bus** (`modem_connect.c`): the accept thread, the
  broadcaster and the read thread share the slot array `s_clientFd`.
- **The loader** (`modem_load.c`): in the external-modem build,
  `load_modem_img` runs in listen_clients, and `load_spl_img` runs on one
  uevent thread per warm-reset event. They share the driver's write lock
  for each subsystem and the remote-flag register.

At boot, `read_nv_partition` (`nv_read.c`) reconciles the two copies of
each NV partition.

## Modules

- **ModemControl.tla**: the internal-modem build. Variables are the code's
  globals (`g_modem_state`, `s_modemState`, `s_needResetModem`,
  `wait_modem_reset`, the itimer, the wake lock, `later_reset`, the read
  thread's dump `state`) plus:
  - a program counter per thread;
  - listen_modem's `rfds`;
  - per-device message queues, the control pipe as a sequence of messages,
    and the client messages;
  - the CP's state.

  Each handler is one action, or two where the code blocks or sleeps for
  seconds in between. `load_modem_img` is LoadBegin then LoadEnd.
  `dispatch_modem_blocked` is RTRead (the check under `s_writeMutex`) then
  RTBlocked (the loopback, the broadcast and the reset decision). The
  timeout handler is AliveTimerExpire then AliveTimeoutAct (the 6 s sleep).
- **ClientBus.tla**: `s_clientFd`, the daemon's open fds and the client
  each one belongs to, and `s_modemState`. There is a program counter per
  thread, with one action per slot visited. This is so that a close by the
  read thread can fall between the broadcaster's write and its clear, and
  an accept can fall in between too. File descriptor numbers are reused
  lowest first, as `accept()` does. A write to a hung-up client raises
  SIGPIPE (`killed`).
- **NvChecksum.tla**: `calc_Checksum` and `calc_Checksum64` as one
  RECURSIVE operator, parameterised by the accumulator width. It also holds
  an independent one's-complement reference.
- **NvRecovery.tla**: `read_nv_partition`. Each of its steps is one action:
  read the primary, read the backup, open the output, and one branch of the
  status switch. Faults (open/read errors, failed writes) and a power loss
  between the steps draw from budgets. The partitions hold a header (magic,
  len, checksum) and payload bytes. A copy is intact or damaged in one of
  the ways `Shapes` lists.
- **LoadOrchestrator.tla**: the external build's `load_modem_img`, with one
  action per stage:
  - LoadBegin;
  - LoadSp;
  - LoadStopDp and LoadStopCp, the two halves of `modem_load_stop`;
  - LoadSpl;
  - LoadWait;
  - LoadImages;
  - LoadStart.

  `load_spl_img` is HandlerLock then HandlerSpl, one pair per uevent
  thread. `wlock` maps each subsystem to the owner of its driver write
  lock. `remote` is the remote-flag register as a set of bit numbers.
  RemoteDdrReady is the remote setting DDR ready once it has seen SPL done.
- **ExternalControl.tla**: the external-modem build
  (`FEATURE_EXTERNAL_MODEM`). It composes LoadOrchestrator by
  `INSTANCE ... WITH mstate <- g_modem_state` with the daemon threads that
  request its loads:
  - main: `modem_ctrl_boot_modem` (BootLoad, BootArm) and the SIGALRM
    handler (AlarmFires, AliveTimeoutAct);
  - `listen_modem` of `external_modem_control.c` (LmSelect, LmRead), with
    the select set `rfds` filled once and the alive device either the
    assert device or its own (`AliveSeparate`);
  - `listen_clients` (LcRead, LcPollDone, LcPollTimeout, LcArm), with the
    modem-only property (`modemOnly`, chosen at start) and
    `b_miniap_panic`;
  - `modem_event_panic_process` on the uevent thread (MiniapPanic);
  - `process_message` as the operators ProcessAssert and ProcessReset:
    the client that relays an assert as "Prepare Reset" into the pipe.

  The modem is the environment variable `cp`: off, booting, alive,
  crashed, panic (the mini AP is down), reset or dead. It boots after
  LoadStart, crashes, panics, answers 'z' with "Modem Reset" and stays
  down after a load that does not include the mini AP's images.
- **ModemLoad.tla**: the abstract load of `spec.md` §4.4. A load begins
  (LOADING), halts the CP and holds it, then starts it and leaves the state
  BOOTING. A warm-reset SPL reload is one atomic step, and it never falls
  between the halt and the start.
- **ImageHeaderParser.tla**: the pure parsers of the image loader, as
  operators. `ScanBlocks` and `GetModemImgInfo` are the SCI container scan
  of `get_modem_img_info` (`modem_load.c:1102-1224`). `GetHead`,
  `OldConstruct`, `NewConstruct`, `ConvertImg`, `CorrectLoadInfo` and
  `GetBootCode` are the coupling-header parser of `modem_head_parse.c`.
  Header bytes are records: a region is {name, base, size}, a descriptor
  {desc, size}. Values the C code reads uninitialised are sets of the
  values they may hold (`Garbage`).
- **ImageCopy.tla**: `modem_load_image` (`modem_load.c:992-1082`). A copy
  is a record with a program counter; `CopyBegin` is the code up to the
  loop, `CopyIter` one loop iteration with read()'s and write()'s results
  as inputs, and `Leave` the cleanup label. It records the source
  positions written, the heap buffer, the open descriptors and the bus
  monitors, so the leaks and the short-write handling are visible.
- **AliveRead.tla**: `modem_ctrl_try_read_modem_alive`
  (`modem_control.c:50-114`), the synchronous alive wait on boards without
  the alive-device property. One action per stage (open loop, select,
  read, report), plus the CP writing "Modem Alive" once and the SIGALRM
  handler `modem_ctrl_alive_timeout` zeroing the timer. `cnt` and `fd`
  start as any value the stack may hold.
- **ImageTable.tla**: the load tables outside the copy. `GetLoadNodeInfo`,
  `InitLoadNodeInfo`, `CorrectImage` and `CorrectModemInfo` read the
  driver nodes and correct the tables' addresses and sizes
  (`modem_load.c:94-204`); `WalkTable` is `load_img_from_table`'s
  dispatch (`modem_load.c:307-368`), producing the sequence of loads it
  performs and its result; `CmdlineOut` is the key stripping of
  `modem_load_cp_cmdline`. Node names and cmdline words are model values;
  `strstr` of a name in a path is membership in the path's set of names,
  and an empty name is found in every path, as `strstr` does.
- **MC_Operators.tla**: checks the operator modules above and NvChecksum.
  Init picks one phase, and each phase enumerates one family of inputs:
  NV payloads, SCI containers, coupling headers, copies with every
  read()/write() result, the alive wait, driver-node sets, two-entry load
  tables under the callers' masks, and cmdlines of up to three words.
  The phases never mix, so the state space is their sum.
- **MC_*.tla**: model values and small sets for the other cfg files;
  `MC_NvChecksumLarge.tla` abstracts a large payload to its word count and
  exact sum.

Data is abstracted to the tokens the code matches with `strstr`. One
`read()` returns one message from a device, but every queued pipe message
from the pipe (listen_clients acts on the first). That is how the code
behaves, because the messages are NUL-terminated.

### Refinement

`LoadOrchestrator` instantiates `ModemLoad` with this mapping:
- `cpRun` is `run["CP"]`;
- `held` is "the loader owns the CP write lock";
- `loading` is "load_modem_img is past LoadBegin";
- `splReloads` is the number of finished warm-reset threads.

`LoadRefinesModemLoad` is `ML!Spec`, checked as a PROPERTY. This checks
both safety (every step maps to a ModemLoad step or a stutter) and the
abstract liveness (a started load halts and starts the CP).

### Assumptions about the drivers

The driver is not in `src/`, so these are assumptions:
- The write lock behind `MODEM_WRITE_LOCK_CMD` is exclusive and not
  recursive. A lock call waits until the lock is free, and only
  `MODEM_WRITE_UNLOCK_CMD` frees it.
- `modem_set_remote_flag` assigns the register, and `REMOTE_CLEAR_FLAG`
  (0) clears it.
- The remote sets DDR ready after it sees SPL done.

### Uninitialised reads

`is_dump_orca` is never assigned in the internal build
(`modem_control.c:488`). AliveTimeoutAct therefore chooses either value.

### Timing assumptions (`Settled`, `BootDue`)

The model has fast and slow steps:
- **Fast steps** take milliseconds: reads, dispatches, pipe writes.
- **Slow steps** take 100 ms or more: image loads, the 5 s poll timeout,
  the 60 s alive timer, the 6 s sleep, rild's AT timeouts, CP boot, dumps,
  the 5-minute dump deadline.

A slow step is enabled only when no fast step is pending (`Settled`).
With `AliveInTime`, a booting CP reports alive before the 60 s timer
expires (`BootDue`). `MC_AliveLate.cfg` drops that assumption.

Crashes, hangs, SP messages and unrelated client messages are not
restricted: they may arrive at any moment.

In ExternalControl, the same timing is stated directly: a crash or panic
comes only when listen_modem is waiting and every message is read
(`Quiet`); the CP reports alive only after the thread that ran its load
has armed the timer; and the alarm fires only for a modem that is dead or
panicked, with nothing unread.

### Fairness

Every daemon action is weakly fair, because each is a thread that the
scheduler runs:
- the ModemControl threads;
- the accept thread's state write;
- the broadcaster's slot loop;
- the read thread;
- the steps of `read_nv_partition`;
- the loader;
- each uevent thread;
- ExternalControl's threads (`Threads`).

The environment is not forced in general. It gets weak fairness only where
the hardware guarantees progress: a booting CP reports alive, slogmodem
finishes a dump, the remote reports DDR ready after SPL done, and the
external modem boots and answers a 'z'. Crashes,
blocks, client connects and hang-ups, load requests and warm-reset events
are never forced to happen.

## Runs

There are 12 runs: 9 passing and 3 violations.

Passing runs (properties checked, then what each shows):
- `MC_Recovery.cfg` checks `RecoversFromFault`. With reset on and dump
  off, every failure ends in a running CP reported ALIVE, or in a system
  reboot. Failures covered: crashes, watchdog hangs, a failed boot after a
  load, an SP message. This holds for each way the daemon starts: fresh
  load, wait only, or restart with the CP running.
- `MC_RecoveryDump.cfg` checks `TypeOK` and `RecoversFromFault`, with
  reset and dump on. It covers crashes and rild block reports, recovered
  through the dump waiter, DUMP COMPLETE and `later_reset`.
- `MC_NoReset.cfg` checks `FailureReported`. With reset off, clients are
  eventually told ASSERT after every kind of failure, P-ARM asserts
  included.
- `MC_ReloadNoDump.cfg` checks `ReloadOnlyFailed`. With dump off, a reload
  is never started for a CP that has already come back. This holds even
  when diag opens fail and the 'z' reset races the 5 s poll.
- `MC_Operators.cfg` checks the loader's and NV's pure operators:
  - `ChecksumMatchesReference`: on every payload of up to 5 bytes over
    {0, 1, 255}, both checksum widths equal the one's-complement checksum,
    odd lengths and carries included;
  - `SciWellFormedParsed`: a well-formed SCI container of three blocks
    gives the modem block's offset and its size without the signature;
  - `HeaderPlacesModemImages`: every table entry named by an old or new
    coupling header gets the first matching region's base and size;
  - `CopyWritesRegionInOrder`: whatever read() and write() return, the
    copy writes source positions in increasing order and never past the
    size asked for;
  - `LoadDispatchFollowsSpec`: `load_img_from_table` loads exactly the
    entries of the load mask and not the skip mask, in order, each with
    one load of its category after its write region, and returns 0
    exactly when every raw and secure copy succeeded.
- `MC_NvRecovery.cfg` checks `ReconcileFollowsPolicy` and
  `ValidCopyNeverLost`:
  - every pair of copies, each intact or with a bad checksum, a bad magic
    or an oversize length;
  - one I/O fault and one power loss.

  The output is the primary if it is valid, else a valid backup, else
  zeroes. A power loss during a repair never destroys the only valid copy.
- `MC_ClientBus.cfg` checks `EndedConnectionsReleased`:
  - two clients that connect, hang up and reconnect;
  - 3 slots and 3 fds;
  - one broadcast.

  Every ended connection is eventually closed by the read thread.
  `ClientStateAtMostOneBehind` is not checked here: with one broadcast and
  slots never full no client can fall behind, and at the bounds where one
  can, the code violates it (`MC_ClientStale.cfg`, `MC_ClientEvict.cfg`).
- `MC_LoadOrchestrator.cfg` checks `LoadRefinesModemLoad` and
  `WarmResetServed`:
  - two warm-reset threads;
  - two loads of any kind (all, external, modem only);
  - no failed copy.

  The loads implement ModemLoad and every warm reset is served. The
  failure branches of LoadSpl, LoadWait and HandlerSpl are taken only in
  the violation configurations below.

- `MC_External.cfg` checks `ExtRecovers` on the external build:
  - reset and the orca dump on, the alive report on the assert device;
  - the modem-only property unset and set (Init picks one);
  - one crash, one mini-AP panic, one dead boot, one warm-reset thread,
    four loads.

  Every crash and every dead boot ends with the modem alive again or a
  system reboot, through the assert read or the alive timer, Prepare
  Reset, and either the external reboot or the 'z' reset and its poll.
  So does a mini-AP panic when the modem-only property is unset.

Violation runs, each with one property (the findings in `PROJECT.json`):
- `MC_ClientSigpipe.cfg` (`DaemonSurvivesHangup`): a broadcast to a
  client that has hung up raises SIGPIPE, which is never ignored, and kills
  the daemon.
- `MC_RfdsShrink.cfg` (`DeviceEventsConsumed`): `rfds` is never refilled
  after `select`, so devices drop out of the watch set.
- `MC_AliveLate.cfg` (`NotAliveOnlyForDeadModem`): an Alive that arrives
  during the handler's 6 s sleep is overridden.

Further configurations reproduce the other findings. TLC finds each one's
property violated, and each finding in `PROJECT.json` names its cfg:
- `MC_WakeLoad.cfg` (`WakeLockHeldWhileLoading`): the single named lock is
  released by listen_modem in the middle of a reload.
- `MC_ExtModemOnly.cfg` (`PanicLoadsAllExternal`): with the modem-only
  property set, the Prepare Reset branch overwrites the panic's
  `reboot_modem_only = false`, so a mini-AP panic gets a 'z' reset of the
  modem and the mini AP is never reloaded (`modem_control.c:630`).
- `MC_ExtRfds.cfg` (`ExtRecovers`): with Modem Alive on its own device,
  the external listen_modem's `rfds` keeps only that device after the
  first Alive, and a later assert is never read
  (`external_modem_control.c:85`).
- `MC_ReloadDump.cfg` (`ReloadOnlyFailed`): a block report with dump on
  starts two recoveries, and the sticky dump `state` then reloads a
  recovered CP.
- `MC_RestartBlock.cfg` (`FailureReported`): a daemon restarted under a
  running CP ignores rild's block report.
- `MC_DiagFail.cfg` (`RecoversFromFault`): a failed diag open skips the
  forced reload.
- `MC_FdPriority.cfg` (`RecoversFromFault`): the assert is read before an
  earlier Alive.
- `MC_WakeIdle.cfg` (`WakeLockReleasedWhenIdle`): `continue`s in
  listen_sp leave the wake lock held.
- `MC_NvChecksumLarge.cfg` (`Checksum64MatchesReference`): with a word sum
  of 2^33 or more, the two folds of `calc_Checksum64` are not enough.
- `MC_NvNegLen.cfg` (`ReconcileFollowsPolicy`): a negative header length
  makes `read_nv_partition` return without output, even when the other
  copy is valid.
- `MC_SelfResetDead.cfg` (`RecoversFromFault`): after the 'z' command,
  the alive timer is re-armed only when the 5 s poll times out. A CP that
  resets itself in time clears the wait flag, and the internal
  listen_modem does not forward its Modem Reset, so nothing reloads it or
  arms the timer. If that self-reset boot fails (`MaxSelfFail`), the CP
  stays dead unnoticed (`modem_control.c:651`).
- `MC_ClientStale.cfg` and `MC_ClientEvict.cfg`
  (`ClientStateAtMostOneBehind`): the state read without the lock, and
  eviction of the last slot.
- `MC_ClientDoubleClose.cfg` (`OnlyEndedConnectionsClosed`): the
  broadcaster clears a slot that the read thread closed and accept reused.
- `MC_ClientBlocked.cfg` (`EndedConnectionsReleased`): the stale ready
  set makes the read thread block on a live client.
- `MC_LoadSplRelock.cfg` (`WarmResetServed`): a failed warm-reset SPL copy
  re-locks the CP lock its thread holds (`modem_load.c:748`). The thread
  and every later load hang.
- `MC_LoadAbort.cfg` (`LoadRefinesModemLoad`): a failed SPL copy zeroes
  `start_img`, so the load ends BOOTING with the CP stopped and the DP and
  CP locks held. `spec.md` §4.4 says the state stays Loading.
- `MC_SciFallback.cfg` (`SciMalformedFallsBack`), `MC_HeadBounds.cfg`
  (`HeaderParsedInBounds`) and `MC_BootCode.cfg` (`BootCodeDelivered`):
  the parsers' edge cases (an uninitialised size, an unbounded descriptor
  walk, the boot-code count scaled by 4 in both formats).
- `MC_CopyLeak.cfg` (`CopyReleasesResources`) and `MC_CopyResult.cfg`
  (`CopyResultMatchesSpec`): a failed open leaks the heap buffer, and a
  short write counts as success while an early end of file fails.
- `MC_AliveFds.cfg` (`AliveReadReleasesFds`) and `MC_AliveTty.cfg`
  (`AliveTtyWatched`): the uninitialised `cnt` reopens the tty without
  closing or closes a foreign fd, and a timed-out select empties `rfds`
  for good.
- `MC_NodeInfo.cfg` (`NodesCorrectImages`): with the SP node missing, the
  modem nodes are read one entry before the buffer and a zeroed entry
  with an empty name gives every image size 0.
- `MC_Cmdline.cfg` (`CmdlineStripsVendorKey`): the words before
  `modem=` are dropped, and a key that is the last word makes `strchr`
  return NULL.

Each property of a passing run has a mutant. A mutant is a plausible slip
in the mapped code, defined before the definition it replaces, and TLC
finds the property violated under that run's cfg. Examples:
`LoadStartNoUnlock` starts without unlocking, and `HandlerSplNoUnlock`
returns without the unlock. `SkippedFlagOneShot` is the P-ARM semantics
`spec.md` describes. It breaks `FailureReported`: the assert after a P-ARM
would never reach the clients.

### Bounds

Each kind of environment event has a budget:
- `MaxFaults` (1-2) bounds crashes; two allows a second crash after a
  recovery.
- `MaxBlocks` (1) bounds rild block reports.
- `MaxBootFail` (1) lets one load end with a CP that never boots, which
  exercises the alive timer and the forced reload.
- `MaxSelfFail` (0-1) bounds 'z' self-resets after which the CP never
  boots. It is 1 only in `MC_ReloadNoDump.cfg` and `MC_SelfResetDead.cfg`,
  since the recovery runs would otherwise report the finding above.
- `MaxDiagFail` (0-1) bounds failed diag opens.
- `MaxOther` (0-1) bounds unrelated client messages; one is enough to hit
  the sticky dump state.
- `MaxSpMsgs` (0-1) bounds SP messages.
- ClientBus: `MaxConnects` (2-4), `MaxHangups` (1-2) and `MaxBroadcasts`
  (0-1). With 3 slots and 3 fds, an fd number is reused, and a full slot
  array is reachable.
- MC_Operators: payloads of 5 bytes; SCI containers of 3 blocks with a
  2-byte signature against lengths 1 and 4; 2 region slots (a third
  region tests the cap); a 2-byte stack buffer against copies of 1 and 3
  bytes and files up to one byte short; 2 opens and 3 selects for the
  alive wait, `cnt` starting at 0, at the bound or at -1; a node buffer
  of 2 entries against up to 3 nodes; tables of 2 entries; cmdlines of 3
  words. Each is the smallest size at which the boundary it tests is
  crossed both ways.
- ExternalControl: `MaxCrashes`, `MaxPanics` and `MaxDead` (1 each), and
  `MaxLoads` 4: the boot, and one reload for each event.
- LoadOrchestrator: `MaxLoads` (1-2), `MaxSplFail` (0-1) and `MaxDdrLate`
  (0). Two loads give a second load after a first, which a leaked lock
  blocks, and two threads give two warm resets racing a load.

Each bug found needs at most one event of each kind. The passing runs
cover every action and every disjunct of Next.

## Not modelled

- **The loads as steps of the daemon**: the image copy, the header parser
  and the table dispatch are checked as operators in MC_Operators, while
  ModemControl and LoadOrchestrator abstract a load to its success or
  failure. Composing them would multiply the state space without a new
  interleaving: the copy runs inside one thread holding the write lock.
  The NV, boot-code and cmdline loads' file I/O, the
  `FEATURE_PCIE_RESCAN` branch and the table set-up from XML are not
  modelled.
- **The external build's I/O edges**: failed opens and reads of the
  assert and alive devices (retried after a sleep), a failed diag open in
  `prepare_reset_modem` (`modem_control.c:347-351`, no flag and no 'z', so
  the poll ends at once with no reboot; its effect is that of
  `MC_DiagFail.cfg` in the internal build), the save-dump path of
  `process_message` (ExternalControl writes Prepare Reset at once), the
  BLOCK state (no thread of the external build sets it) and the SP
  monitor, which ModemControl models for the internal build.
- **EventBus** (`eventmonitor.c`): the uevent socket and the parsing of
  key/value records are I/O. The warm-reset and panic dispatches are
  modelled.
- **Out of scope in `spec.md`, or pure I/O:** `secure_boot_load.c`,
  `xml_parse.c`, `modem_io_control.c` (ioctl wrappers, modelled only as
  the lock and register assumptions above), `modem_pcie_control.c`,
  `modem_ctrl_dbg.c`, `modem_simlock.c`. Read and open failures of the
  devices are also left out, because they are retried after a sleep.
