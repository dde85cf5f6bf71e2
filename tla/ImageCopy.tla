----------------------------- MODULE ImageCopy -----------------------------
(***************************************************************************)
(* modem_load_image (modem_load.c:992-1082): the raw copy of size bytes    *)
(* from an image partition at offsetin to a CP region, through a 512 KB    *)
(* stack buffer or a heap buffer of the whole size.                        *)
(*                                                                         *)
(* The copy is a record: pc ("loop" or "done"), total (the size asked     *)
(* for), size (the bytes still to copy), buf (the buffer size), src (the   *)
(* source position reached), dest (the source positions written, in       *)
(* order), res, and what must be undone on return: heap (buf_heap          *)
(* allocated and not freed), fds (descriptors open) and monitorsOff (bus   *)
(* monitor and DMC MPU disabled).  The system calls' results are the       *)
(* inputs.  Positions count from offsetin.                                 *)
(***************************************************************************)
EXTENDS Integers, Sequences

CONSTANT BufStack   \* sizeof(buf_stack)

ASSUME BufStack \in Nat \ {0}

MinOf2(a, b) == IF a <= b THEN a ELSE b

(* The leave label, lines 1073-1081.                                       *)
Leave(c, res) ==
    [c EXCEPT !.pc = "done", !.res = res, !.monitorsOff = FALSE,
              !.heap = FALSE, !.fds = 0]

(* Lines 994-1049, up to the loop.  mallocOk is malloc(size)'s success;    *)
(* the open and lseek results are inputs.  modem_clear_region writes the   *)
(* destination and leaves no state behind, so it is not a step here.       *)
CopyBegin(size, mallocOk, inOk, outOk, seekInOk, seekOutOk) ==
    LET heap == size > BufStack /\ mallocOk
        c    == [pc |-> "loop", total |-> size, size |-> size,
                 buf |-> IF heap THEN size ELSE BufStack,
                 src |-> 0, dest |-> <<>>, res |-> -1,
                 heap |-> heap, fds |-> 0, monitorsOff |-> TRUE]
    IN  CASE ~inOk  -> [c EXCEPT !.pc = "done", !.monitorsOff = FALSE]
          [] ~outOk -> [c EXCEPT !.pc = "done", !.monitorsOff = FALSE]
          [] ~seekInOk \/ ~seekOutOk -> Leave([c EXCEPT !.fds = 2], -1)
          [] OTHER -> [c EXCEPT !.fds = 2]

(* A read size that ignores the bytes left: min() dropped.                 *)
ReadSizeNoMin(c) == c.buf

(* The read size of an iteration, line 1052.                               *)
ReadSize(c) == MinOf2(c.size, c.buf)

(* One iteration of lines 1051-1070: rr is read()'s result and w is        *)
(* write()'s.  The bytes read are the source positions src .. src+rr-1;    *)
(* write() takes the first w of them.  rr <= ReadSize(c) <= size, so the   *)
(* unsigned size never wraps.                                              *)
CopyIter(c, rr, w) ==
    CASE rr <= 0 -> Leave(c, -1)
      [] w <= 0  -> Leave(c, -1)
      [] OTHER   ->
            LET next == [c EXCEPT !.dest = @ \o [i \in 1..w |-> c.src + i - 1],
                                  !.src = @ + rr, !.size = @ - rr]
            IN  IF next.size > 0 THEN next ELSE Leave(next, 0)

(* The results the system calls may give: read() returns an error, or up   *)
(* to the bytes asked for and left in the file; write() an error, nothing, *)
(* or part or all of what was read.                                        *)
ReadResults(c, fileLen) == {-1} \cup 0..MinOf2(ReadSize(c), fileLen - c.src)
WriteResults(rr) == {-1, 0} \cup 1..rr

(***************************************************************************)
(* spec.md section 4.4, raw copy semantics: a read of zero before the end  *)
(* is a clean end of file and a success, a failed read is a failure, and   *)
(* a write of fewer bytes than were read is a failure.                     *)
(***************************************************************************)
SpecCopyOk(rr, w) ==
    CASE rr < 0  -> FALSE
      [] rr = 0  -> TRUE
      [] OTHER   -> w = rr
=============================================================================
