------------------------- MODULE ImageHeaderParser -------------------------
(***************************************************************************)
(* The two firmware-header parsers of the CP image, as operators.          *)
(*                                                                         *)
(* SCI container (modem_load.c:1102-1224): get_modem_img_info reads the    *)
(* magic word and HdrBufLen - 1 block headers {type_flags, offset, length} *)
(* after it, and modem_get_patiton_info turns the result into the offset   *)
(* and size every plain image copy uses.  The type and flag values come    *)
(* from a header outside src/, so a block's type is "modem" or "other" and *)
(* its SHA1 and LAST flags are booleans.                                   *)
(*                                                                         *)
(* Coupling header (modem_head_parse.c): the first 0x600 bytes of the      *)
(* modem partition, in the old (one region table and a boot code) or the  *)
(* new (a list of named descriptors) format, give the CP's region table    *)
(* and boot code; modem_head_convert_img then corrects the load table.     *)
(* Names are model values, bytes are counted, not listed.                  *)
(***************************************************************************)
EXTENDS Integers, Sequences, FiniteSets

CONSTANTS
    HdrBufLen,      \* entries of hdr_buf, the magic word's included (11)
    Sha1Size,       \* MODEM_SHA1_SIZE, the signature before the executable
    MaxRegionNum,   \* MAX_REGION_NUM (12)
    MaxCodeNum,     \* MAX_CODE_NUM (0x32): words of the boot code array
    Garbage         \* values an uninitialised size_t may hold

ASSUME /\ HdrBufLen \in Nat \ {0} /\ Sha1Size \in Nat
       /\ MaxRegionNum \in Nat /\ MaxCodeNum \in Nat

LeastOf(S) == CHOOSE x \in S : \A y \in S : x <= y
GreatestOf(S) == CHOOSE x \in S : \A y \in S : x >= y
MinOf(a, b) == IF a <= b THEN a ELSE b

(***************************************************************************)
(* get_modem_img_info and modem_get_patiton_info.  An image is             *)
(* [modem, readOk, size, magic, blocks]: modem says whether path_r names   *)
(* the modem bank, readOk that open, lseek and the full read of hdr_buf    *)
(* succeed, size is img->size, and blocks are hdr_buf[1..HdrBufLen-1].     *)
(* An exe size below zero stands for the size_t it wraps to.  The sizes   *)
(* are sets of the values they may hold: the caller never initialises     *)
(* modem_exe_size or total_len, so before an assignment they are Garbage.  *)
(***************************************************************************)
SigOf(b) == IF b.sha1 THEN Sha1Size ELSE 0

(* The scan with the LAST test before the type test: a modem block that  *)
(* is also the last one is missed.                                        *)
RECURSIVE ScanBlocksLastFirst(_, _, _)
ScanBlocksLastFirst(blocks, i, acc) ==
    IF i > Len(blocks) THEN acc
    ELSE LET b == blocks[i]
         IN  IF b.last THEN [acc EXCEPT !.image_len = b.offset + b.length]
             ELSE ScanBlocksLastFirst(blocks, i + 1,
                    IF b.type = "modem"
                    THEN [acc EXCEPT !.modem_offset = b.offset + SigOf(b),
                                     !.exe = {b.length - SigOf(b)}]
                    ELSE acc)

(* The loop of lines 1174-1190: a modem block sets the offset and size,   *)
(* and the first block flagged LAST ends the scan.  -1 marks "not found". *)
RECURSIVE ScanBlocks(_, _, _)
ScanBlocks(blocks, i, acc) ==
    IF i > Len(blocks) THEN acc
    ELSE LET b    == blocks[i]
             seen == IF b.type = "modem"
                     THEN [acc EXCEPT !.modem_offset = b.offset + SigOf(b),
                                      !.exe = {b.length - SigOf(b)}]
                     ELSE acc
         IN  IF b.last THEN [seen EXCEPT !.image_len = b.offset + b.length]
             ELSE ScanBlocks(blocks, i + 1, seen)

(* Lines 1102-1203.  Every early return gives the whole image; an SCI     *)
(* image whose scan misses the modem block or the LAST block returns      *)
(* offset 0 with whatever the scan left in *modem_exe_size.               *)
GetModemImgInfo(img) ==
    IF ~img.modem \/ ~img.readOk \/ ~img.magic
    THEN [ret |-> 0, is_sci |-> 0, total |-> {img.size}, exe |-> {img.size}]
    ELSE LET s == ScanBlocks(img.blocks, 1,
                     [modem_offset |-> -1, image_len |-> -1, exe |-> Garbage])
         IN  IF s.modem_offset = -1 \/ s.image_len = -1
             THEN [ret |-> 0, is_sci |-> 1, total |-> Garbage, exe |-> s.exe]
             ELSE [ret |-> s.modem_offset, is_sci |-> 1,
                   total |-> {s.image_len}, exe |-> s.exe]

(* Lines 1205-1224: the set of [offset, size] outcomes.                    *)
PartitionInfo(img) ==
    LET r == GetModemImgInfo(img)
    IN  {[offset |-> r.ret, size |-> s] : s \in r.exe}

(***************************************************************************)
(* spec.md section 4.5: no magic, the whole file; with the magic, the      *)
(* blocks up to the first LAST one, whose modem block gives offset and     *)
(* length net of the signature; without either, the whole file.            *)
(***************************************************************************)
LastIdx(img) == {i \in DOMAIN img.blocks : img.blocks[i].last}
ModemIdx(img) ==
    {i \in DOMAIN img.blocks :
        img.blocks[i].type = "modem" /\ (\A j \in LastIdx(img) : i <= j)}

IsContainer(img) == img.modem /\ img.readOk /\ img.magic

(* A container the spec gives a meaning to: a LAST block, a modem block    *)
(* before or at it, and room in it for the signature.                      *)
WellFormed(img) ==
    IsContainer(img) =>
        /\ LastIdx(img) # {} /\ ModemIdx(img) # {}
        /\ LET m == img.blocks[GreatestOf(ModemIdx(img))] IN m.length >= SigOf(m)

SpecSci(img) ==
    IF IsContainer(img) /\ LastIdx(img) # {} /\ ModemIdx(img) # {}
    THEN LET m == img.blocks[GreatestOf(ModemIdx(img))]
         IN  [offset |-> m.offset + SigOf(m), size |-> m.length - SigOf(m)]
    ELSE [offset |-> 0, size |-> img.size]
(***************************************************************************)
(* modem_head_parse.c.  A region is [name, base, size]; NoName is the      *)
(* empty string.  An old header is [fmt |-> "old", regions, count] with    *)
(* MaxRegionNum region slots and count boot code words.  A new header is   *)
(* [fmt |-> "new", descs, regions]: descs are the descriptors that fit in  *)
(* the 0x600-byte buffer, each [desc, size]; regions are those of the      *)
(* coupling info a "decoup-desc" points to.  modem_img is [region_num,     *)
(* table, count] plus two flags for accesses outside the arrays: overrun   *)
(* (a read past modem_decouple_head) and overflow (a copy past             *)
(* boot_code.code).                                                        *)
(***************************************************************************)
NoName == "noname"

(* The static modem_img before any header is parsed.                       *)
Img0 == [region_num |-> 0, table |-> <<>>, count |-> 0,
         overrun |-> FALSE, overflow |-> FALSE]

(* The leading regions a loop over at most MaxRegionNum entries takes,     *)
(* up to the format's terminator: an empty name in the old format,        *)
(* strlen(region->res.name), a size of 0 in the new, region->size.        *)
Leading(regions, fmt) ==
    LET Ends(r) == IF fmt = "old" THEN r.name = NoName ELSE r.size = 0
        stops   == {i \in DOMAIN regions : Ends(regions[i])} \cup {Len(regions) + 1}
    IN  MinOf(LeastOf(stops) - 1, MaxRegionNum)

(* modem_head_old_construct, lines 165-184.                                *)
OldConstruct(h, img) ==
    LET n == Leading(h.regions, "old")
    IN  [img EXCEPT !.region_num = n, !.table = SubSeq(h.regions, 1, n),
                    !.count = h.count,
                    !.overflow = @ \/ h.count > MaxCodeNum]

(* modem_head_new_construct, lines 186-213: the walk stops only at a       *)
(* descriptor of size 0.                                                   *)
RECURSIVE WalkDescs(_, _, _)
WalkDescs(h, i, img) ==
    IF i > Len(h.descs) THEN [img EXCEPT !.overrun = TRUE]
    ELSE LET d == h.descs[i]
             n == Leading(h.regions, "new")
         IN  IF d.size = 0 THEN img
             ELSE WalkDescs(h, i + 1,
                    CASE d.desc = "decoup-desc" ->
                            [img EXCEPT !.region_num = n,
                                        !.table = SubSeq(h.regions, 1, n)]
                      [] d.desc = "boot-code" ->
                            [img EXCEPT !.count = d.size,
                                        !.overflow = @ \/ d.size > 4 * MaxCodeNum]
                      [] OTHER -> img)

NewConstruct(h, img) == WalkDescs(h, 1, img)

(* modem_head_construct_img, lines 215-230: an unknown magic changes      *)
(* nothing.                                                                *)
ConstructImg(h, img) ==
    CASE h.fmt = "old" -> OldConstruct(h, img)
      [] h.fmt = "new" -> NewConstruct(h, img)
      [] OTHER         -> img

(* The conversion without the MODEM_IMG_EXCPT_HEAD_FLAG test: with XML,   *)
(* an unnamed modem binary keeps its configured size.                     *)
ConvertImgNoExcpt(table, img, xmlOk) ==
    LET Match(e) == {j \in 1..img.region_num : img.table[j].name = e.name}
        Fix(e) ==
            IF Match(e) # {}
            THEN LET r == img.table[LeastOf(Match(e))]
                 IN  [e EXCEPT !.addr = r.base, !.size = r.size]
            ELSE IF ~xmlOk THEN [e EXCEPT !.size = 0] ELSE e
    IN  IF img.region_num = 0 THEN [ok |-> FALSE, table |-> table]
        ELSE [ok |-> TRUE, table |-> [i \in DOMAIN table |-> Fix(table[i])]]

(* modem_head_convert_img, lines 232-280.  An entry is [name, excptHead,   *)
(* addr, size]; excptHead is flag & MODEM_IMG_EXCPT_HEAD_FLAG.  The first  *)
(* region of the entry's name gives its address and size; an entry the     *)
(* header does not name is invalidated without XML, and with XML only if   *)
(* it is a modem binary.                                                   *)
ConvertImg(table, img, xmlOk) ==
    LET Match(e) == {j \in 1..img.region_num : img.table[j].name = e.name}
        Fix(e) ==
            IF Match(e) # {}
            THEN LET r == img.table[LeastOf(Match(e))]
                 IN  [e EXCEPT !.addr = r.base, !.size = r.size]
            ELSE IF ~xmlOk \/ e.excptHead THEN [e EXCEPT !.size = 0] ELSE e
    IN  IF img.region_num = 0 THEN [ok |-> FALSE, table |-> table]
        ELSE [ok |-> TRUE, table |-> [i \in DOMAIN table |-> Fix(table[i])]]

(* modem_head_get_head, lines 109-163: the table has a MODEM_BANK entry,   *)
(* and open, lseek to its partition offset and the full read of the 0x600  *)
(* bytes succeed.                                                         *)
GetHead(found, openOk, seekOk, readOk) == found /\ openOk /\ seekOk /\ readOk

(* modem_head_correct_load_info, lines 282-289; headOk is GetHead's result. *)
CorrectLoadInfo(headOk, h, table, xmlOk) ==
    LET img == IF headOk THEN ConstructImg(h, Img0) ELSE Img0
    IN  [img |-> img, conv |-> ConvertImg(table, img, xmlOk)]

(* modem_head_get_boot_code, lines 291-302: count words, at most size.     *)
GetBootCode(img, size) == IF img.count > 0 THEN MinOf(img.count * 4, size) ELSE 0

(* The boot code bytes a header carries: count words in the old format,    *)
(* the size of the last "boot-code" descriptor before the end in the new.  *)
CodeBytes(h) ==
    CASE h.fmt = "old" -> 4 * h.count
      [] h.fmt = "new" ->
            LET ends  == {i \in DOMAIN h.descs : h.descs[i].size = 0}
                end   == IF ends = {} THEN Len(h.descs) + 1 ELSE LeastOf(ends)
                codes == {i \in 1..(end - 1) : h.descs[i].desc = "boot-code"}
            IN  IF codes = {} THEN 0 ELSE h.descs[GreatestOf(codes)].size
      [] OTHER -> 0
=============================================================================
