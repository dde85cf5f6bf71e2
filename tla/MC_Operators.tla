---------------------------- MODULE MC_Operators ----------------------------
(***************************************************************************)
(* Checks the daemon's pure operators over bounded inputs, one family per *)
(* behaviour: phase, fixed by Init, says which.  "nv": every NV payload of *)
(* at most MaxLen bytes, one byte a step.  "sci": every SCI container of  *)
(* HdrBufLen - 1 blocks, one block a step.  "head": every coupling header  *)
(* built from the region and descriptor sets below, with the load table   *)
(* Table, in one step.  "copy": one modem_load_image, each step a loop    *)
(* iteration with every read() and write() result the calls may give.    *)
(* "alive": modem_ctrl_try_read_modem_alive against the CP and SIGALRM.  *)
(* "nodes": modem_init_load_node_info and the table correction for every *)
(* presence of the SP and modem nodes.  "dispatch": load_img_from_table  *)
(* over every two-entry table, mask pair and copy result.  "cmdline":    *)
(* every /proc/cmdline of at most MaxWords words, one word a step.       *)
(***************************************************************************)
EXTENDS NvChecksum, ImageHeaderParser, ImageCopy, ImageTable

SE == INSTANCE SequencesExt

CONSTANTS TestBytes, MaxLen, BootBuf, CopySizes, FileLens, MaxWords,
          OpenTries, ReadTries, CntGarbage, FdGarbage

ASSUME TestBytes \subseteq Byte /\ MaxLen \in Nat /\ BootBuf \in Nat

VARIABLES phase, payload, sci, head, copy, fileLen, ioLog, tin, words,
          ar, pending, timerOn, modemState

opVars == <<payload, sci, head, copy, fileLen, ioLog, tin, words>>
vars == <<phase, opVars, ar, pending, timerOn, modemState>>

AR == INSTANCE AliveRead

None == [none |-> TRUE]   \* no input chosen yet

(* SCI blocks and images: offsets, lengths shorter and longer than the     *)
(* signature, both types, every flag.                                      *)
Blocks == [type : {"modem", "other"}, offset : {0, 3}, length : {1, 4},
           sha1 : BOOLEAN, last : BOOLEAN]
SciStarts == [modem : BOOLEAN, readOk : BOOLEAN, size : {9}, magic : BOOLEAN,
              blocks : {<<>>}]

(* Coupling headers.  An old header has MaxRegionNum region slots; a new  *)
(* one fills the buffer with three descriptors and points at one more     *)
(* region than MaxRegionNum.  Regions named "A" twice test the first      *)
(* match; NoName and size 0 are the two formats' terminators.             *)
Region(n, b, s) == [name |-> n, base |-> b, size |-> s]
Regions == {Region("A", 1, 3), Region("A", 2, 3), Region("B", 2, 3),
            Region(NoName, 1, 3), Region("A", 1, 0)}
Descs == {[desc |-> "decoup-desc", size |-> 3], [desc |-> "boot-code", size |-> 1],
          [desc |-> "boot-code", size |-> 5], [desc |-> "other", size |-> 3],
          [desc |-> "end", size |-> 0]}
Headers ==
    [fmt : {"old"}, regions : SE!TupleOf(Regions, MaxRegionNum), count : {1, 2}]
    \cup [fmt : {"new"}, descs : SE!TupleOf(Descs, 3), regions : SE!TupleOf(Regions, 3)]
    \cup [fmt : {"unknown"}]

(* The load table: an entry the header names, one it names second, and    *)
(* unnamed entries with and without MODEM_IMG_EXCPT_HEAD_FLAG.            *)
Entry(n, x) == [name |-> n, excptHead |-> x, addr |-> 0, size |-> 9]
Table == <<Entry("A", FALSE), Entry("B", TRUE), Entry("C", TRUE), Entry("C", FALSE)>>

(* The uninitialised cnt: 0, the bound itself (no open at all), or below *)
(* 0 (one open more).                                                    *)
MC_CntGarbage == {0, OpenTries, -1}

(* Driver nodes and the tables they correct: a CP table with a modem, a   *)
(* DSP and an unrelated entry, and an SP table.                           *)
Node(n, b, s) == [name |-> n, base |-> b, size |-> s]
NodeSets == [spNodes : {<<>>, <<Node("sp", 1, 2)>>},
             mdNodes : {<<Node("modem", 3, 4)>>, <<Node("modem", 3, 4), Node("dsp", 5, 6)>>},
             mallocOk : BOOLEAN, spOk : BOOLEAN, mdOk : BOOLEAN]
Img(p) == [path |-> p, addr |-> 0, size |-> 9]
CpTable == <<Img({"modem"}), Img({"dsp"}), Img({})>>
SpTable == <<Img({"sp"})>>

(* Table entries: each load category, an entry of another mask, sizes 0   *)
(* and not; the callers' masks: the modem images without the head, and   *)
(* the SPL.                                                               *)
Entries == [size : {0, 5},
            flag : {{"modem"}, {"head"}, {"modem", "cmdline"}, {"modem", "nv"},
                    {"modem", "boot"}, {"modem", "secure"}, {"spl"}, {"spl", "secure"}}]
Masks == {[load |-> {"head", "modem", "dsp"}, skip |-> {"head"}],
          [load |-> {"spl"}, skip |-> {}]}

Init ==
    /\ phase \in {"nv", "sci", "head", "copy", "alive", "nodes", "dispatch", "cmdline"}
    /\ AR!Init
    /\ payload = <<>>
    /\ sci = IF phase = "sci" THEN CHOOSE s \in SciStarts : TRUE ELSE None
    /\ head = None
    /\ copy = None
    /\ fileLen = 0
    /\ ioLog = <<>>
    /\ tin = None
    /\ words = <<>>

AppendByte ==
    /\ phase = "nv" /\ Len(payload) < MaxLen
    /\ \E b \in TestBytes : payload' = Append(payload, b)
    /\ UNCHANGED <<phase, sci, head, copy, fileLen, ioLog>>

(* The image flags are chosen before the first block is read.  Blocks     *)
(* only matter to a container, so only containers get them.               *)
SciFlags ==
    /\ phase = "sci" /\ sci.blocks = <<>>
    /\ \E s \in SciStarts : s # sci /\ sci' = s
    /\ UNCHANGED <<phase, payload, head, copy, fileLen, ioLog>>

AppendBlock ==
    /\ phase = "sci" /\ IsContainer(sci) /\ Len(sci.blocks) < HdrBufLen - 1
    /\ \E b \in Blocks : sci' = [sci EXCEPT !.blocks = Append(@, b)]
    /\ UNCHANGED <<phase, payload, head, copy, fileLen, ioLog>>

PickHeader ==
    /\ phase = "head" /\ head = None
    /\ \E h \in Headers, xmlOk \in BOOLEAN,
          headOk \in {GetHead(f, o, s, r) : f, o, s, r \in BOOLEAN} :
          head' = [h |-> h, xmlOk |-> xmlOk, headOk |-> headOk]
    /\ UNCHANGED <<phase, payload, sci, copy, fileLen, ioLog>>

CopyStart ==
    /\ phase = "copy" /\ copy = None
    /\ \E size \in CopySizes, fl \in FileLens,
          mallocOk, inOk, outOk, seekInOk, seekOutOk \in BOOLEAN :
          /\ fl >= size - 1
          /\ copy' = CopyBegin(size, mallocOk, inOk, outOk, seekInOk, seekOutOk)
          /\ fileLen' = fl
    /\ UNCHANGED <<phase, payload, sci, head, ioLog>>

CopyStep ==
    /\ phase = "copy" /\ copy # None /\ copy.pc = "loop"
    /\ \E rr \in ReadResults(copy, fileLen) : \E w \in WriteResults(rr) :
          /\ copy' = CopyIter(copy, rr, w)
          /\ ioLog' = Append(ioLog, <<rr, w>>)
    /\ UNCHANGED <<phase, payload, sci, head, fileLen>>

PickNodes ==
    /\ phase = "nodes" /\ tin = None
    /\ \E n \in NodeSets : tin' = n
    /\ UNCHANGED <<phase, payload, sci, head, copy, fileLen, ioLog, words>>

PickTable ==
    /\ phase = "dispatch" /\ tin = None
    /\ \E e1, e2 \in Entries, m \in Masks, ioctrlOk \in BOOLEAN, r1, r2 \in {0, -1} :
          tin' = [table |-> <<e1, e2>>, mask |-> m, ioctrlOk |-> ioctrlOk,
                  copyRes |-> <<r1, r2>>]
    /\ UNCHANGED <<phase, payload, sci, head, copy, fileLen, ioLog, words>>

AppendWord ==
    /\ phase = "cmdline" /\ Len(words) < MaxWords
    /\ \E w \in {"a", "modem", "b"} : words' = Append(words, w)
    /\ UNCHANGED <<phase, payload, sci, head, copy, fileLen, ioLog, tin>>

AliveStep == phase = "alive" /\ AR!Next /\ UNCHANGED <<phase, opVars>>

Next == \/ (AppendByte \/ SciFlags \/ AppendBlock \/ PickHeader \/ CopyStart \/ CopyStep)
           /\ UNCHANGED <<tin, words, ar, pending, timerOn, modemState>>
        \/ (PickNodes \/ PickTable \/ AppendWord)
           /\ UNCHANGED <<ar, pending, timerOn, modemState>>
        \/ AliveStep

Spec == Init /\ [][Next]_vars

Parsed == CorrectLoadInfo(head.headOk, head.h, Table, head.xmlOk)

(***************************************************************************)
(* Reference definitions, from the header formats, not the parser's code. *)
(***************************************************************************)
(* The regions a header gives: those before its format's terminator, at   *)
(* most MaxRegionNum, and in the new format only behind a decoup-desc     *)
(* descriptor before the terminating one.                                 *)
RefRegions(h) ==
    LET Stop(r) == IF h.fmt = "old" THEN r.name = NoName ELSE r.size = 0
        k       == SE!SelectInSeq(h.regions, Stop)
        n       == MinOf(IF k = 0 THEN Len(h.regions) ELSE k - 1, MaxRegionNum)
        e       == SE!SelectInSeq(h.descs, LAMBDA d : d.size = 0)
    IN  CASE h.fmt = "old" -> SubSeq(h.regions, 1, n)
          [] h.fmt = "new" /\ \E i \in 1..(e - 1) : h.descs[i].desc = "decoup-desc"
                           -> SubSeq(h.regions, 1, n)
          [] OTHER -> <<>>

(***************************************************************************)
(* Properties                                                              *)
(***************************************************************************)
(* calc_Checksum and calc_Checksum64 both compute the 16-bit one's-       *)
(* complement checksum of the payload, odd lengths and carries out of the *)
(* low 16 bits included, and the total-sum form of the reference agrees   *)
(* with the word-by-word one.                                             *)
ChecksumMatchesReference ==
    /\ CalcChecksum(payload) = RefChecksum(payload)
    /\ CalcChecksum64(payload) = RefChecksum(payload)
    /\ RefChecksumOfSum(SumWords(payload, Zero, 64)) = RefChecksum(payload)

(* For a container that is well formed (a LAST block, a modem block at or *)
(* before the first one, room for its signature), get_modem_img_info and  *)
(* modem_get_patiton_info give the last such modem block's offset and     *)
(* size net of the SHA1 signature, blocks after the LAST one ignored.     *)
SciWellFormedParsed ==
    sci # None /\ Len(sci.blocks) = HdrBufLen - 1 /\ WellFormed(sci)
        => PartitionInfo(sci) = {SpecSci(sci)}

(* spec.md section 4.5: a container without a LAST block or a modem block *)
(* is a parse failure and the caller falls back to the whole file.        *)
SciMalformedFallsBack ==
    sci # None /\ Len(sci.blocks) = HdrBufLen - 1 /\ IsContainer(sci)
      /\ (LastIdx(sci) = {} \/ ModemIdx(sci) = {})
        => PartitionInfo(sci) = {[offset |-> 0, size |-> sci.size]}

(* After modem_head_correct_load_info reads a header whose descriptors    *)
(* end inside the buffer, the conversion succeeds exactly when the header *)
(* gives regions, and then every load-table entry the header names takes  *)
(* the address and size of the first region of its name, and every other *)
(* entry is invalidated when there is no XML or it is a modem binary and  *)
(* kept otherwise.                                                        *)
HeaderPlacesModemImages ==
    head # None /\ head.headOk /\ ~Parsed.img.overrun =>
        LET rs == RefRegions(head.h)
            cv == Parsed.conv
        IN  /\ cv.ok = (rs # <<>>)
            /\ cv.ok =>
                 \A i \in DOMAIN Table :
                    LET e == Table[i]
                        k == SE!SelectInSeq(rs, LAMBDA r : r.name = e.name)
                    IN  IF k > 0
                        THEN cv.table[i].addr = rs[k].base /\ cv.table[i].size = rs[k].size
                        ELSE cv.table[i].size =
                                 IF ~head.xmlOk \/ e.excptHead THEN 0 ELSE e.size

(* The parser reads no descriptor past the 0x600-byte buffer and copies   *)
(* no boot code past boot_code.code.                                      *)
HeaderParsedInBounds ==
    head # None /\ head.headOk => ~Parsed.img.overrun /\ ~Parsed.img.overflow

(* modem_load_cp_boot_code writes the header's boot code, as many bytes   *)
(* as the header carries, at most its buffer's size.                      *)
BootCodeDelivered ==
    head # None /\ head.headOk /\ ~Parsed.img.overrun /\ ~Parsed.img.overflow
        => GetBootCode(Parsed.img, BootBuf) = MinOf(CodeBytes(head.h), BootBuf)

(* modem_load_image writes only inside the region it was given: never     *)
(* more bytes than size, each from the region's own source range, in      *)
(* order and none twice, whatever read() and write() return.              *)
CopyWritesRegionInOrder ==
    copy # None =>
        /\ Len(copy.dest) <= copy.total
        /\ \A i \in DOMAIN copy.dest :
              /\ copy.dest[i] < copy.total
              /\ i > 1 => copy.dest[i - 1] < copy.dest[i]

(* Every return of modem_load_image frees the heap buffer, closes both    *)
(* files and re-enables the bus monitor and the DMC MPU.                  *)
CopyReleasesResources ==
    copy # None /\ copy.pc = "done" => ~copy.heap /\ copy.fds = 0 /\ ~copy.monitorsOff

(* spec.md section 4.4: the copy succeeds exactly when no read fails and  *)
(* every write writes all that was read, a zero read being a clean end.   *)
CopyResultMatchesSpec ==
    copy # None /\ copy.pc = "done" /\ ioLog # <<>> =>
        ((copy.res = 0) <=> \A k \in DOMAIN ioLog : SpecCopyOk(ioLog[k][1], ioLog[k][2]))

(* modem_ctrl_try_read_modem_alive closes every tty descriptor it opens  *)
(* and no descriptor it did not open.                                    *)
AliveReadReleasesFds ==
    ar.pc = "done" /\ "leaked" \in DOMAIN ar => ar.leaked = 0 /\ ~ar.closedForeign

(* While the alive timer runs, every select of the wait watches the tty: *)
(* a "Modem Alive" the CP has written is seen by the next select.        *)
AliveTtyWatched ==
    ar.pc = "loop" /\ ar.fd = "dev" /\ timerOn /\ ar.cnt < ReadTries /\ pending
        => ar.rfds

(* load_img_from_table follows spec.md section 4.4: an entry is loaded    *)
(* exactly when its size is not 0, it has no bit of the skip mask and a   *)
(* bit of the load mask; each loaded entry, in table order, gets its      *)
(* write region set (with the driver ioctl) and then exactly one load of  *)
(* its category; and the result is 0 exactly when every image copy, plain *)
(* or secure, succeeded.                                                  *)
Loaded(e) == e.size # 0 /\ e.flag \cap tin.mask.skip = {} /\ e.flag \cap tin.mask.load # {}
SpecCategory(e) ==
    IF e.flag \cap {"cmdline", "nv", "boot"} # {}
    THEN CHOOSE c \in e.flag \cap {"cmdline", "nv", "boot"} : TRUE
    ELSE IF "secure" \in e.flag /\ SecureBuild THEN "secure" ELSE "copy"
LoadDispatchFollowsSpec ==
    phase = "dispatch" /\ tin # None =>
        LET t  == tin.table
            r  == LoadImgFromTable(t, tin.mask.load, tin.mask.skip, tin.ioctrlOk, tin.copyRes)
            Ops(i) == IF ~Loaded(t[i]) THEN <<>>
                      ELSE (IF tin.ioctrlOk THEN <<[op |-> "region", idx |-> i]>> ELSE <<>>)
                           \o <<[op |-> SpecCategory(t[i]), idx |-> i]>>
            copies == {i \in DOMAIN t : Loaded(t[i]) /\ SpecCategory(t[i]) \in {"copy", "secure"}}
        IN  /\ r.ops = SE!FlattenSeq([i \in DOMAIN t |-> Ops(i)])
            /\ (r.ret = 0) = (\A i \in copies : tin.copyRes[i] = 0)

(* modem_correct_modem_info gives every table entry whose write path      *)
(* names a driver node the first such node's base and size, the SP nodes  *)
(* before the modem ones, and leaves every other entry as it is.          *)
RefNodes ==
    LET all == (IF tin.spOk THEN tin.spNodes ELSE <<>>) \o (IF tin.mdOk THEN tin.mdNodes ELSE <<>>)
    IN  IF tin.mallocOk THEN SubSeq(all, 1, Lesser(Len(all), MaxNodes)) ELSE <<>>
RefFix(e) ==
    LET js == {j \in DOMAIN RefNodes : RefNodes[j].name \in e.path}
    IN  IF js = {} THEN e
        ELSE [e EXCEPT !.addr = RefNodes[LeastIn(js)].base, !.size = RefNodes[LeastIn(js)].size]
NodesCorrectImages ==
    phase = "nodes" /\ tin # None =>
        LET info == InitLoadNodeInfo(tin.mallocOk, tin.spOk, tin.spNodes, tin.mdOk, tin.mdNodes)
        IN  CorrectModemInfo(CpTable, SpTable, info)
              = [cp |-> [i \in DOMAIN CpTable |-> RefFix(CpTable[i])],
                 sp |-> [i \in DOMAIN SpTable |-> RefFix(SpTable[i])]]

(* spec.md section 4.4: the CP cmdline is /proc/cmdline with the vendor   *)
(* key stripped, and modem_load_cp_cmdline never fails on any cmdline.    *)
CmdlineStripsVendorKey ==
    LET r == CmdlineOut(words)
    IN  ~r.crash /\ r.out = SelectSeq(words, LAMBDA w : w # "modem")
=============================================================================
