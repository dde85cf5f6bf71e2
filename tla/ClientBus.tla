------------------------------ MODULE ClientBus ------------------------------
(***************************************************************************)
(* The client socket bus of modem_connect.c: the slot array s_clientFd     *)
(* shared by three threads, none of which locks it against the others.     *)
(*                                                                         *)
(*  - the accept thread, modem_setup_clients_connect (lines 139-180):      *)
(*    takes a free slot, or evicts the last one when all are taken, and    *)
(*    tells a client in a free slot the current s_modemState;              *)
(*  - the broadcaster, modem_write_data_to_clients (lines 64-90): under    *)
(*    s_writeMutex it updates s_modemState and writes the message to every *)
(*    slot, closing a slot whose write fails.  Its callers (listen_modem,  *)
(*    listen_sp, the alive timer, the read thread) are serialised by the   *)
(*    mutex, so they are one process here;                                 *)
(*  - the read thread, modem_ctrl_read_thread (lines 206-268): selects on  *)
(*    the slots and the notify pipe, and closes a slot whose read ends.    *)
(*                                                                         *)
(* File descriptors are numbers reused lowest first, as accept() does.     *)
(* Clients connect (and reconnect) and hang up.  Clients send no messages  *)
(* here: what the read thread does with a message is modelled in           *)
(* ModemControl; here only the end of a connection matters to it.          *)
(***************************************************************************)
EXTENDS Naturals, FiniteSets

CONSTANTS
    Clients,        \* client processes (rild, slogmodem, ...)
    NSlots,         \* MAX_CLIENT_NUM
    Fds,            \* the daemon's file descriptor numbers for client sockets
    States,         \* the modem states a broadcast may set
    MaxConnects, MaxHangups, MaxBroadcasts

ASSUME /\ NSlots \in Nat \ {0} /\ Fds \subseteq Nat \ {0}
       /\ MaxConnects \in Nat /\ MaxHangups \in Nat /\ MaxBroadcasts \in Nat

NoFd   == 0          \* -1 in the code
Closed == "closed"   \* an fd number the daemon has not open
Slots  == 1..NSlots

VARIABLES
    s_clientFd,     \* [Slots -> Fds \cup {NoFd}]
    fdClient,       \* the client whose connection the daemon's fd is, or Closed
    peerUp,         \* whether the client end of that connection is still open
    clientFd,       \* the daemon fd of each client's current connection
    view,           \* the last modem state each client was told on it
    s_modemState,
    prevState,      \* history: s_modemState before the last broadcast
    notify,         \* the notify pipe holds a byte
    apc, aidx, aval,          \* accept thread: pc, index, state read
    bpc, bi,                  \* broadcaster: pc, slot index
    rpc, rset, ready, ri, num,  \* read thread: pc, fd set, select result, i, num
    killed,         \* the process died
    connects, hangups, broadcasts

vars == <<s_clientFd, fdClient, peerUp, clientFd, view, s_modemState, prevState, notify,
          apc, aidx, aval, bpc, bi, rpc, rset, ready, ri, num, killed,
          connects, hangups, broadcasts>>

OpenFds == {f \in Fds : fdClient[f] # Closed}
LowestFree == CHOOSE f \in Fds \ OpenFds : \A g \in Fds \ OpenFds : f <= g
FreeSlots == {i \in Slots : s_clientFd[i] = NoFd}
Owner(f) == fdClient[f]

(* close(f) on the daemon side, applied to fdClient and clientFd: the    *)
(* client sees its connection end.  Closing an fd that is not open fails. *)
AfterClose(fc, cf, f) ==
    IF f # NoFd /\ fc[f] # Closed
    THEN [fc |-> [fc EXCEPT ![f] = Closed],
          cf |-> IF cf[fc[f]] = f THEN [cf EXCEPT ![fc[f]] = NoFd] ELSE cf]
    ELSE [fc |-> fc, cf |-> cf]

CloseFd(f) ==
    LET r == AfterClose(fdClient, clientFd, f)
    IN  fdClient' = r.fc /\ clientFd' = r.cf

(* write(f, msg): delivered on a live connection; EBADF on a closed fd;   *)
(* on a connection whose client has gone, SIGPIPE, which the daemon does  *)
(* not ignore, ends the process.  The outcome is "ok", "error" or "kill". *)
WriteOutcome(f) ==
    CASE f = NoFd \/ fdClient[f] = Closed -> "error"
      [] peerUp[f]                        -> "ok"
      [] OTHER                            -> "kill"

Deliver(f, s) ==
    view' = IF WriteOutcome(f) = "ok" /\ clientFd[Owner(f)] = f
            THEN [view EXCEPT ![Owner(f)] = s] ELSE view

AcceptVars == <<apc, aidx, aval>>
BcastVars  == <<bpc, bi>>
ReadVars   == <<rpc, rset, ready, ri, num>>
Budget     == <<connects, hangups, broadcasts>>

(***************************************************************************)
(* The accept thread.                                                      *)
(***************************************************************************)

(* The scan with the "index == MAX_CLIENT_NUM - 1" test before the free  *)
(* test: the last slot is always taken by the eviction branch.            *)
AcceptClientEvictFirst(c) ==
    /\ ~killed /\ apc = "accept"
    /\ clientFd[c] = NoFd /\ connects < MaxConnects /\ OpenFds # Fds
    /\ LET n    == LowestFree
           fc1  == [fdClient EXCEPT ![n] = c]
           cf1  == [clientFd EXCEPT ![c] = n]
           old  == s_clientFd[NSlots]
           idx  == CHOOSE i \in FreeSlots \ {NSlots} : \A j \in FreeSlots : i <= j
       IN  /\ peerUp' = [peerUp EXCEPT ![n] = TRUE]
           /\ view' = [view EXCEPT ![c] = "none"]
           /\ IF FreeSlots \ {NSlots} # {}
              THEN /\ s_clientFd' = [s_clientFd EXCEPT ![idx] = n]
                   /\ fdClient' = fc1 /\ clientFd' = cf1
                   /\ apc' = "state" /\ aidx' = idx
              ELSE /\ s_clientFd' = [s_clientFd EXCEPT ![NSlots] = n]
                   /\ fdClient' = AfterClose(fc1, cf1, old).fc
                   /\ clientFd' = AfterClose(fc1, cf1, old).cf
                   /\ UNCHANGED <<apc, aidx>>
    /\ notify' = TRUE
    /\ connects' = connects + 1
    /\ UNCHANGED <<s_modemState, prevState, aval, BcastVars, ReadVars, killed, hangups, broadcasts>>

(* Client c connects; accept() returns the lowest free fd n.  The scan     *)
(* stores n in the first free slot and goes on to tell the client the      *)
(* state; with every slot taken it closes the last slot's fd and stores n *)
(* there, and tells the new client nothing.  Both write the notify pipe.   *)
AcceptClient(c) ==
    /\ ~killed /\ apc = "accept"
    /\ clientFd[c] = NoFd /\ connects < MaxConnects /\ OpenFds # Fds
    /\ LET n    == LowestFree
           fc1  == [fdClient EXCEPT ![n] = c]
           cf1  == [clientFd EXCEPT ![c] = n]
           old  == s_clientFd[NSlots]
           idx  == CHOOSE i \in FreeSlots : \A j \in FreeSlots : i <= j
       IN  /\ peerUp' = [peerUp EXCEPT ![n] = TRUE]
           /\ view' = [view EXCEPT ![c] = "none"]
           /\ IF FreeSlots # {}
              THEN /\ s_clientFd' = [s_clientFd EXCEPT ![idx] = n]
                   /\ fdClient' = fc1 /\ clientFd' = cf1
                   /\ apc' = "state" /\ aidx' = idx
              ELSE /\ s_clientFd' = [s_clientFd EXCEPT ![NSlots] = n]
                   /\ fdClient' = AfterClose(fc1, cf1, old).fc
                   /\ clientFd' = AfterClose(fc1, cf1, old).cf
                   /\ UNCHANGED <<apc, aidx>>
    /\ notify' = TRUE
    /\ connects' = connects + 1
    /\ UNCHANGED <<s_modemState, prevState, aval, BcastVars, ReadVars, killed, hangups, broadcasts>>

(* Lines 153-163: the state read, without s_writeMutex.                   *)
AcceptReadState ==
    /\ ~killed /\ apc = "state"
    /\ aval' = s_modemState /\ apc' = "write"
    /\ UNCHANGED <<s_clientFd, fdClient, peerUp, clientFd, view, s_modemState, prevState,
                   notify, aidx, BcastVars, ReadVars, killed, Budget>>

(* Line 165: write(s_clientFd[index], modemState), the slot read again.   *)
AcceptWriteState ==
    /\ ~killed /\ apc = "write"
    /\ LET f == s_clientFd[aidx]
       IN  IF WriteOutcome(f) = "kill"
           THEN killed' = TRUE /\ UNCHANGED view
           ELSE Deliver(f, aval) /\ UNCHANGED killed
    /\ apc' = "accept"
    /\ UNCHANGED <<s_clientFd, fdClient, peerUp, clientFd, s_modemState, prevState, notify,
                   aidx, aval, BcastVars, ReadVars, Budget>>

(***************************************************************************)
(* The broadcaster, modem_write_data_to_clients.                           *)
(***************************************************************************)

(* Lock s_writeMutex and run modem_ctrl_process_message, which sets        *)
(* s_modemState from the message.                                          *)
BroadcastBegin(s) ==
    /\ ~killed /\ bpc = "idle" /\ broadcasts < MaxBroadcasts
    /\ s_modemState' = s /\ prevState' = s_modemState
    /\ bpc' = "slot" /\ bi' = 1
    /\ broadcasts' = broadcasts + 1
    /\ UNCHANGED <<s_clientFd, fdClient, peerUp, clientFd, view, notify,
                   AcceptVars, ReadVars, killed, connects, hangups>>

(* The next slot, or the unlock after the last.                           *)
BNext == IF bi = NSlots THEN bpc' = "idle" /\ UNCHANGED bi
         ELSE bpc' = "slot" /\ bi' = bi + 1

(* Lines 74-80 for slot bi: write if s_clientFd[i] >= 0; a failed write  *)
(* goes on to close the slot.                                              *)
BroadcastSlot ==
    /\ ~killed /\ bpc = "slot"
    /\ LET f == s_clientFd[bi]
       IN  CASE f = NoFd                 -> BNext /\ UNCHANGED <<view, killed>>
             [] WriteOutcome(f) = "ok"   -> BNext /\ Deliver(f, s_modemState) /\ UNCHANGED killed
             [] WriteOutcome(f) = "error" -> bpc' = "close" /\ UNCHANGED <<bi, view, killed>>
             [] OTHER                    -> killed' = TRUE /\ UNCHANGED <<bpc, bi, view>>
    /\ UNCHANGED <<s_clientFd, fdClient, peerUp, clientFd, s_modemState, prevState, notify,
                   AcceptVars, ReadVars, Budget>>

(* Line 82: close(s_clientFd[i]).                                         *)
BroadcastClose ==
    /\ ~killed /\ bpc = "close"
    /\ CloseFd(s_clientFd[bi]) /\ bpc' = "clear"
    /\ UNCHANGED <<s_clientFd, peerUp, view, s_modemState, prevState, notify, bi,
                   AcceptVars, ReadVars, killed, Budget>>

(* Line 83: s_clientFd[i] = -1, then the next slot.                       *)
BroadcastClear ==
    /\ ~killed /\ bpc = "clear"
    /\ s_clientFd' = [s_clientFd EXCEPT ![bi] = NoFd] /\ BNext
    /\ UNCHANGED <<fdClient, peerUp, clientFd, view, s_modemState, prevState, notify,
                   AcceptVars, ReadVars, killed, Budget>>

(***************************************************************************)
(* The read thread, modem_ctrl_read_thread.                                *)
(***************************************************************************)

(* A connection the read thread would see end: the client has closed it.  *)
Ended(f) == fdClient[f] # Closed /\ ~peerUp[f]

(* Lines 207-216: FD_ZERO, the notify pipe and every slot into the set.   *)
ReadArm ==
    /\ ~killed /\ rpc = "select"
    /\ rset' = {s_clientFd[i] : i \in Slots} \ {NoFd}
    /\ rpc' = "wait"
    /\ UNCHANGED <<s_clientFd, fdClient, peerUp, clientFd, view, s_modemState, prevState,
                   notify, ready, ri, num, AcceptVars, BcastVars, killed, Budget>>

(* Lines 218-228: select returns on the pipe or on ended connections; a   *)
(* closed fd in the set makes it fail with EBADF and the loop starts over. *)
(* The pipe is read; if it was the only ready fd the loop starts over.    *)
ReadWake ==
    /\ ~killed /\ rpc = "wait"
    /\ LET eof == {f \in rset : Ended(f)}
           bad == {f \in rset : fdClient[f] = Closed}
       IN  \/ /\ bad # {}
              /\ rpc' = "select" /\ UNCHANGED <<notify, ready, ri, num>>
           \/ /\ bad = {} /\ (notify \/ eof # {})
              /\ notify' = FALSE
              /\ ready' = eof
              /\ num' = Cardinality(eof) + (IF notify THEN 1 ELSE 0)
              /\ IF eof = {} THEN rpc' = "select" /\ UNCHANGED ri
                 ELSE rpc' = "scan" /\ ri' = 1
    /\ UNCHANGED <<s_clientFd, fdClient, peerUp, clientFd, view, s_modemState, prevState,
                   rset, AcceptVars, BcastVars, killed, Budget>>

(* The next index while num > 0, or back to select.                       *)
RNext(n) == IF ri = NSlots \/ n = 0 THEN rpc' = "select" /\ UNCHANGED ri
            ELSE rpc' = "scan" /\ ri' = ri + 1

(* The same scan leaving the slot of an ended read open.                 *)
ReadScanNoClose ==
    /\ ~killed /\ rpc = "scan"
    /\ LET nfd == s_clientFd[ri]
       IN  IF nfd # NoFd /\ nfd \in ready
           THEN /\ num' = num - 1
                /\ IF fdClient[nfd] # Closed /\ peerUp[nfd]
                   THEN rpc' = "blocked" /\ rset' = {nfd} /\ UNCHANGED ri
                   ELSE RNext(num - 1) /\ UNCHANGED rset
           ELSE RNext(num) /\ UNCHANGED <<num, rset>>
    /\ UNCHANGED <<s_clientFd, fdClient, peerUp, clientFd, view, s_modemState, prevState,
                   notify, ready, AcceptVars, BcastVars, killed, Budget>>

(* Lines 229-239 for index i: nfd = s_clientFd[i]; if it is in the ready *)
(* set, read it.  A read on an ended connection or a closed fd returns    *)
(* <= 0 and goes on to close the slot; on a live connection (the number   *)
(* reused since select) it blocks until that connection ends.              *)
ReadScan ==
    /\ ~killed /\ rpc = "scan"
    /\ LET nfd == s_clientFd[ri]
       IN  IF nfd # NoFd /\ nfd \in ready
           THEN /\ num' = num - 1
                /\ IF fdClient[nfd] # Closed /\ peerUp[nfd]
                   THEN rpc' = "blocked" /\ rset' = {nfd}
                   ELSE rpc' = "close" /\ UNCHANGED rset
                /\ UNCHANGED ri
           ELSE RNext(num) /\ UNCHANGED <<num, rset>>
    /\ UNCHANGED <<s_clientFd, fdClient, peerUp, clientFd, view, s_modemState, prevState,
                   notify, ready, AcceptVars, BcastVars, killed, Budget>>

(* The blocked read returns once its connection ends.                     *)
ReadUnblock ==
    /\ ~killed /\ rpc = "blocked"
    /\ \A f \in rset : Ended(f) \/ fdClient[f] = Closed
    /\ rpc' = "close"
    /\ UNCHANGED <<s_clientFd, fdClient, peerUp, clientFd, view, s_modemState, prevState,
                   notify, rset, ready, ri, num, AcceptVars, BcastVars, killed, Budget>>

(* Line 240: close(s_clientFd[i]).                                        *)
ReadClose ==
    /\ ~killed /\ rpc = "close"
    /\ CloseFd(s_clientFd[ri]) /\ rpc' = "clear"
    /\ UNCHANGED <<s_clientFd, peerUp, view, s_modemState, prevState, notify, rset, ready,
                   ri, num, AcceptVars, BcastVars, killed, Budget>>

(* Line 241: s_clientFd[i] = -1, then the next index.                     *)
ReadClear ==
    /\ ~killed /\ rpc = "clear"
    /\ s_clientFd' = [s_clientFd EXCEPT ![ri] = NoFd] /\ RNext(num)
    /\ UNCHANGED <<fdClient, peerUp, clientFd, view, s_modemState, prevState, notify, rset,
                   ready, num, AcceptVars, BcastVars, killed, Budget>>

(***************************************************************************)
(* Clients.                                                                *)
(***************************************************************************)

(* A client closes its socket (rild restarting, slogmodem exiting).       *)
Hangup(c) ==
    /\ ~killed /\ clientFd[c] # NoFd /\ hangups < MaxHangups
    /\ peerUp' = [peerUp EXCEPT ![clientFd[c]] = FALSE]
    /\ clientFd' = [clientFd EXCEPT ![c] = NoFd]
    /\ hangups' = hangups + 1
    /\ UNCHANGED <<s_clientFd, fdClient, view, s_modemState, prevState, notify,
                   AcceptVars, BcastVars, ReadVars, killed, connects, broadcasts>>

Init ==
    /\ s_clientFd = [i \in Slots |-> NoFd]
    /\ fdClient = [f \in Fds |-> Closed]
    /\ peerUp = [f \in Fds |-> FALSE]
    /\ clientFd = [c \in Clients |-> NoFd]
    /\ view = [c \in Clients |-> "none"]
    /\ s_modemState = "OFFLINE" /\ prevState = "OFFLINE"
    /\ notify = FALSE
    /\ apc = "accept" /\ aidx = 1 /\ aval = "OFFLINE"
    /\ bpc = "idle" /\ bi = 1
    /\ rpc = "select" /\ rset = {} /\ ready = {} /\ ri = 1 /\ num = 0
    /\ killed = FALSE
    /\ connects = 0 /\ hangups = 0 /\ broadcasts = 0

Accepting   == (\E c \in Clients : AcceptClient(c)) \/ AcceptReadState \/ AcceptWriteState
Broadcaster == (\E s \in States : BroadcastBegin(s)) \/ BroadcastSlot \/ BroadcastClose \/ BroadcastClear
Reading     == ReadArm \/ ReadWake \/ ReadScan \/ ReadUnblock \/ ReadClose \/ ReadClear

Next ==
    \/ \E c \in Clients : AcceptClient(c)
    \/ AcceptReadState \/ AcceptWriteState
    \/ \E s \in States : BroadcastBegin(s)
    \/ BroadcastSlot \/ BroadcastClose \/ BroadcastClear
    \/ ReadArm \/ ReadWake \/ ReadScan \/ ReadUnblock \/ ReadClose \/ ReadClear
    \/ \E c \in Clients : Hangup(c)

(* Each thread runs when it can: weak fairness per thread.                *)
Spec == Init /\ [][Next]_vars
        /\ WF_vars(AcceptReadState \/ AcceptWriteState)
        /\ WF_vars(BroadcastSlot \/ BroadcastClose \/ BroadcastClear)
        /\ WF_vars(Reading)

SlotFds == {s_clientFd[i] : i \in Slots} \ {NoFd}

(* spec.md 4.3: on connect a client is sent the current ModemState, and   *)
(* every broadcast after that reaches it; section 5 lets the accept loop  *)
(* read the state without the lock, stale by one event.  So once the      *)
(* accept thread and the broadcaster are idle, every client whose         *)
(* connection sits in a slot was last told the current state or the one   *)
(* before the last broadcast.                                             *)
ClientStateAtMostOneBehind ==
    apc = "accept" /\ bpc = "idle" =>
        \A c \in Clients : clientFd[c] \in SlotFds => view[c] \in {s_modemState, prevState}

(* A client that hangs up never takes the daemon down with it: writes to  *)
(* its socket (the broadcast, the state on connect) fail and the slot is  *)
(* dropped, as modem_write_data_to_clients intends.                       *)
DaemonSurvivesHangup == ~killed

(* The daemon closes a connection whose client is still there only when   *)
(* the accept thread evicts the last slot: the read thread and the        *)
(* broadcaster close only slots whose read or write failed.                *)
EvictStep == apc = "accept" /\ FreeSlots = {} /\ connects' = connects + 1
OnlyEndedConnectionsClosed ==
    [][\A f \in Fds : fdClient[f] \in Clients /\ peerUp[f] /\ fdClient'[f] = Closed
                      => EvictStep]_vars

(* Every connection its client has closed is eventually closed by the     *)
(* daemon too (or the daemon has died).                                    *)
EndedConnectionsReleased == \A f \in Fds : Ended(f) ~> (~Ended(f) \/ killed)
=============================================================================
