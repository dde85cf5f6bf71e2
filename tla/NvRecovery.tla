----------------------------- MODULE NvRecovery -----------------------------
(***************************************************************************)
(* read_nv_partition (nv_read.c:102-264): reconciles the two copies of an  *)
(* NV partition and writes the merged payload to the CP's NV region.       *)
(*                                                                         *)
(* A partition is a block device: a 512-byte header {magic, len,           *)
(* checksum} followed by PartSize bytes.  The function reads the primary,  *)
(* then the backup, opens the output, and then takes one branch of the     *)
(* switch on the 2-bit status.  Each of those is one action, so a power    *)
(* loss (Crash) can fall between them; it restarts the function at the     *)
(* next boot, with the partitions as they were left.  Open and read errors *)
(* and failed writes are faults drawn from a budget.                       *)
(***************************************************************************)
EXTENDS NvChecksum, Integers, FiniteSets

CONSTANTS
    Payloads,       \* payload byte sequences the NV writer may have stored
    PartSize,       \* bytes of payload room after the header
    Shapes,         \* the ways a copy may be found on boot, see Shape below
    MaxFaults,      \* I/O errors and failed writes, over the whole run
    MaxCrashes      \* power losses

ASSUME /\ PartSize \in Nat
       /\ Payloads \subseteq Seq(Byte) /\ \A p \in Payloads : Len(p) <= PartSize
       /\ Shapes \subseteq {"good", "badcks", "badmagic", "longlen", "neglen"}
       /\ MaxFaults \in Nat /\ MaxCrashes \in Nat

VARIABLES
    prim, bak,      \* the partitions: [magic, len, cks, data]
    out,            \* the output region: "stale", "zero", "torn" or a payload
    pc,             \* "start", "bak", "out", "write", "done"
    status,         \* the 2-bit validity status
    buf, bbuf,      \* buf / Bak_buf: "null", "short" or the payload read
    result,         \* the return value
    faults, crashes,
    p0, b0,         \* history: the partitions when this call started
    faulted         \* history: a fault happened during this call

vars == <<prim, bak, out, pc, status, buf, bbuf, result, faults, crashes,
          p0, b0, faulted>>

(* header_ptr->len read into the int32 size: a length with bit 31 set is  *)
(* negative, and malloc of it fails.  Such lengths are kept as -1.        *)
NegLen == -1

Pad(p) == p \o [i \in 1..(PartSize - Len(p)) |-> 0]

(* The copies a boot may find: intact, a checksum or magic that does not  *)
(* match, a length past the end of the partition, a negative length.      *)
Shape(s, p) ==
    LET good == [magic |-> TRUE, len |-> Len(p), cks |-> CalcChecksum(p), data |-> Pad(p)]
    IN  CASE s = "good"     -> good
          [] s = "badcks"   -> [good EXCEPT !.cks = (@ + 1) % 65536]
          [] s = "badmagic" -> [good EXCEPT !.magic = FALSE]
          [] s = "longlen"  -> [good EXCEPT !.len = PartSize + 1]
          [] s = "neglen"   -> [good EXCEPT !.len = NegLen]

Files == {Shape(s, p) : s \in Shapes, p \in Payloads}

(* The len bytes after the header, as far as the partition holds them.    *)
Payload(f) == SubSeq(f.data, 1, f.len)

(* read(fd, buf, size) after the header: a length past the partition is  *)
(* a short read, after which the loop breaks with buf allocated.          *)
ReadPayload(f) == IF f.len > PartSize THEN "short" ELSE Payload(f)

(* The test without the magic: any copy with a matching checksum.         *)
ChecksumOkNoMagic(f, b) ==
    /\ b # "short"
    /\ (CalcChecksum(b) = f.cks \/ CalcChecksum64(b) = f.cks)

(* The test at lines 138 and 177 on the bytes read.                       *)
ChecksumOk(f, b) ==
    /\ b # "short"
    /\ f.magic
    /\ (CalcChecksum(b) = f.cks \/ CalcChecksum64(b) = f.cks)

(* Faults: one is spent only while the budget lasts.                      *)
CanFault == faults < MaxFaults
Fault == faults' = faults + 1 /\ faulted' = TRUE

(* Returning early: close, free, return 0; nothing is written.            *)
ReturnZero == pc' = "done" /\ result' = 0

(* Lines 119-151: the primary.                                            *)
ReadPrimary ==
    /\ pc = "start"
    /\ \/ /\ CanFault /\ Fault     \* open fails, or a header read short
          /\ ReturnZero
          /\ UNCHANGED <<status, buf>>
       \/ /\ prim.len < 0          \* malloc(size) fails
          /\ ReturnZero
          /\ UNCHANGED <<status, buf, faults, faulted>>
       \/ /\ prim.len >= 0
          /\ buf' = ReadPayload(prim)
          /\ status' = IF ChecksumOk(prim, buf') THEN 1 ELSE 0
          /\ pc' = "bak"
          /\ UNCHANGED <<result, faults, faulted>>
    /\ UNCHANGED <<prim, bak, out, bbuf, crashes, p0, b0>>

(* Lines 153-192: the backup, the same way; status bit 1.                 *)
ReadBackup ==
    /\ pc = "bak"
    /\ \/ /\ CanFault /\ Fault
          /\ ReturnZero
          /\ UNCHANGED <<status, bbuf>>
       \/ /\ bak.len < 0
          /\ ReturnZero
          /\ UNCHANGED <<status, bbuf, faults, faulted>>
       \/ /\ bak.len >= 0
          /\ bbuf' = ReadPayload(bak)
          /\ status' = IF ChecksumOk(bak, bbuf') THEN status + 2 ELSE status
          /\ pc' = "out"
          /\ UNCHANGED <<result, faults, faulted>>
    /\ UNCHANGED <<prim, bak, out, buf, crashes, p0, b0>>

(* Lines 194-201: open(path_out).                                         *)
OpenOutput ==
    /\ pc = "out"
    /\ \/ CanFault /\ Fault /\ ReturnZero
       \/ pc' = "write" /\ UNCHANGED <<result, faults, faulted>>
    /\ UNCHANGED <<prim, bak, out, status, buf, bbuf, crashes, p0, b0>>

(***************************************************************************)
(* The switch on status, lines 202-263.  A repair writes the source's      *)
(* header and then its payload to the damaged partition at offset 0; a     *)
(* failed write is only logged.  The output write decides the result.      *)
(***************************************************************************)

(* What write(header) then write(buf) leave in dst: the copy; a header    *)
(* sector left unreadable when the first write fails; the new header over *)
(* the old payload when the second fails.                                 *)
Repaired(dst, src, dat, rf) ==
    CASE rf = "none" -> [src EXCEPT !.data = dat \o SubSeq(dst.data, Len(dat) + 1, PartSize)]
      [] rf = "hdr"  -> [dst EXCEPT !.magic = FALSE]
      [] rf = "data" -> [src EXCEPT !.data = dst.data]

Written(b, of) == IF of THEN "torn" ELSE b

(* The faults a branch suffers: rf in the repair, of in the output write. *)
Cost(rf, of) == (IF rf = "none" THEN 0 ELSE 1) + (IF of THEN 1 ELSE 0)
Faults(rf, of) ==
    /\ faults + Cost(rf, of) <= MaxFaults
    /\ faults' = faults + Cost(rf, of)
    /\ faulted' = (faulted \/ Cost(rf, of) > 0)

Finish == pc' = "done" /\ UNCHANGED <<status, buf, bbuf, crashes, p0, b0>>

(* case 0: both damaged; 1024 zero bytes to the output, result 0.         *)
ReconcileDamaged ==
    /\ pc = "write" /\ status = 0
    /\ \E of \in BOOLEAN :
          Faults("none", of) /\ out' = Written("zero", of)
    /\ result' = 0
    /\ Finish /\ UNCHANGED <<prim, bak>>

(* The same branch writing the repair to handle instead of Bak_Handle.    *)
RepairBackupWrongFd ==
    /\ pc = "write" /\ status = 1
    /\ \E rf \in {"none", "hdr", "data"}, of \in BOOLEAN :
          /\ Faults(rf, of)
          /\ prim' = Repaired(prim, prim, buf, rf)
          /\ out' = Written(buf, of)
          /\ result' = IF of THEN 0 ELSE 1
    /\ Finish /\ UNCHANGED bak

(* case 1: the backup is repaired from the primary, whose payload goes    *)
(* to the output.                                                         *)
RepairBackup ==
    /\ pc = "write" /\ status = 1
    /\ \E rf \in {"none", "hdr", "data"}, of \in BOOLEAN :
          /\ Faults(rf, of)
          /\ bak' = Repaired(bak, prim, buf, rf)
          /\ out' = Written(buf, of)
          /\ result' = IF of THEN 0 ELSE 1
    /\ Finish /\ UNCHANGED prim

(* case 2: the primary is repaired from the backup, whose payload goes    *)
(* to the output.                                                         *)
RepairPrimary ==
    /\ pc = "write" /\ status = 2
    /\ \E rf \in {"none", "hdr", "data"}, of \in BOOLEAN :
          /\ Faults(rf, of)
          /\ prim' = Repaired(prim, bak, bbuf, rf)
          /\ out' = Written(bbuf, of)
          /\ result' = IF of THEN 0 ELSE 1
    /\ Finish /\ UNCHANGED bak

(* case 3: both intact; the primary's payload goes to the output.         *)
ReconcileBothOk ==
    /\ pc = "write" /\ status = 3
    /\ \E of \in BOOLEAN :
          Faults("none", of) /\ out' = Written(buf, of) /\ result' = IF of THEN 0 ELSE 1
    /\ Finish /\ UNCHANGED <<prim, bak>>

(* A power loss at any point: the output region is lost and the next boot *)
(* calls read_nv_partition again on the partitions as they are.           *)
Crash ==
    /\ crashes < MaxCrashes
    /\ crashes' = crashes + 1
    /\ pc' = "start" /\ out' = "stale" /\ status' = 0
    /\ buf' = "null" /\ bbuf' = "null" /\ result' = 0
    /\ p0' = prim /\ b0' = bak /\ faulted' = FALSE
    /\ UNCHANGED <<prim, bak, faults>>

Init ==
    /\ prim \in Files /\ bak \in Files
    /\ out = "stale" /\ pc = "start" /\ status = 0
    /\ buf = "null" /\ bbuf = "null" /\ result = 0
    /\ faults = 0 /\ crashes = 0
    /\ p0 = prim /\ b0 = bak /\ faulted = FALSE

Next ==
    \/ ReadPrimary \/ ReadBackup \/ OpenOutput
    \/ ReconcileDamaged \/ RepairBackup \/ RepairPrimary \/ ReconcileBothOk
    \/ Crash

(* The function runs to its return once started.                          *)
Spec == Init /\ [][Next]_vars /\ WF_vars(ReadPrimary \/ ReadBackup \/ OpenOutput
                   \/ ReconcileDamaged \/ RepairBackup \/ RepairPrimary \/ ReconcileBothOk)

(***************************************************************************)
(* The NvPair validity of spec.md section 3, judged on a partition: the    *)
(* magic, a length the partition holds, and a matching checksum.           *)
(***************************************************************************)
Valid(f) ==
    /\ f.magic /\ 0 <= f.len /\ f.len <= PartSize
    /\ (CalcChecksum(Payload(f)) = f.cks \/ CalcChecksum64(Payload(f)) = f.cks)

(* The policy table of spec.md section 4.6: the primary's payload if it   *)
(* is valid, else the backup's, else the zeroed block.                    *)
Policy(p, b) ==
    CASE Valid(p) -> Payload(p) [] Valid(b) -> Payload(b) [] OTHER -> "zero"

(* When read_nv_partition returns after a call without I/O errors, the    *)
(* output holds what the policy table says for the partitions it found,   *)
(* the result says whether a valid copy existed, and a damaged copy was   *)
(* repaired from the valid one.                                           *)
ReconcileFollowsPolicy ==
    pc = "done" /\ ~faulted =>
        /\ out = Policy(p0, b0)
        /\ result = IF Valid(p0) \/ Valid(b0) THEN 1 ELSE 0
        /\ (Valid(p0) \/ Valid(b0)) => Valid(prim) /\ Valid(bak)

(* No step, a failed repair write or a power loss between writes          *)
(* included, takes away the last valid copy of the NV data.               *)
ValidCopyNeverLost ==
    [][(Valid(prim) \/ Valid(bak)) => (Valid(prim') \/ Valid(bak'))]_vars
=============================================================================
