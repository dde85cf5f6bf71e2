----------------------------- MODULE ImageTable -----------------------------
(***************************************************************************)
(* The load tables of modem_load.c outside the copy itself.                *)
(*                                                                         *)
(* Node correction (lines 94-204): the SP and modem driver nodes list      *)
(* LOAD_NODE_INFO entries {name, base, size}, which modem_init_load_node_  *)
(* info reads into one buffer of MaxNodes entries and modem_correct_image  *)
(* applies to every table entry whose write path contains a node's name.   *)
(* A path is the set of node names strstr finds in it; NoNode is the empty *)
(* name of a zeroed entry, which strstr finds in every path.               *)
(*                                                                         *)
(* Dispatch (lines 206-368): load_img_from_table's walk of a table.  An    *)
(* entry is [size, flag]; flag is the set of its flag bits by name, and    *)
(* the load and skip masks are sets of bit names too.                      *)
(***************************************************************************)
EXTENDS Integers, Sequences

CONSTANTS
    MaxNodes,     \* MAX_LOAD_NODE_NUM: entries of the node buffer
    SecureBuild   \* SECURE_BOOT_ENABLE, CONFIG_SPRD_SECBOOT or CONFIG_VBOOT_V2

ASSUME MaxNodes \in Nat \ {0} /\ SecureBuild \in BOOLEAN

NoNode == [name |-> "", base |-> 0, size |-> 0]

LeastIn(S) == CHOOSE x \in S : \A y \in S : x <= y
Lesser(a, b) == IF a <= b THEN a ELSE b

(* get_load_node_info, lines 94-124: -1 when the node is missing or the    *)
(* read fails (ok false), else the entries that fit in room.             *)
GetLoadNodeInfo(ok, nodes, room) == IF ok THEN Lesser(Len(nodes), room) ELSE -1

(* modem_init_load_node_info, lines 126-157.  The modem nodes are read at  *)
(* modem_node_info + n with room for MaxNodes - n entries, n being the SP  *)
(* call's result, -1 included: the entries then start one before the   *)
(* buffer, and corrupt says that word was written.                      *)
InitLoadNodeInfo(mallocOk, spOk, spNodes, mdOk, mdNodes) ==
    LET n1   == GetLoadNodeInfo(spOk, spNodes, MaxNodes)
        n2   == GetLoadNodeInfo(mdOk, mdNodes, MaxNodes - n1)
        num  == (IF n1 > 0 THEN n1 ELSE 0) + (IF n2 > 0 THEN n2 ELSE 0)
        At(i) == CASE i \in 0..(n1 - 1)       -> spNodes[i + 1]
                   [] i \in n1..(n1 + n2 - 1) -> mdNodes[i - n1 + 1]
                   [] OTHER                   -> NoNode
    IN  IF ~mallocOk \/ num = 0
        THEN [num |-> 0, nodes |-> <<>>, corrupt |-> FALSE]
        ELSE [num |-> num, nodes |-> [j \in 1..num |-> At(j - 1)],
              corrupt |-> n1 = -1 /\ n2 > 0]

(* strstr(table->path_w, node->name).                                      *)
PathHas(e, node) == node.name = "" \/ node.name \in e.path

(* modem_correct_image, lines 159-191: the first node in the path.         *)
CorrectImage(table, info) ==
    LET Fix(e) ==
          LET js == {j \in 1..info.num : PathHas(e, info.nodes[j])}
          IN  IF js = {} THEN e
              ELSE [e EXCEPT !.addr = info.nodes[LeastIn(js)].base,
                             !.size = info.nodes[LeastIn(js)].size]
    IN  [i \in DOMAIN table |-> Fix(table[i])]

(* modem_correct_modem_info, lines 193-204, for the CP and SP tables.      *)
CorrectModemInfo(cp, sp, info) ==
    IF info.num = 0 THEN [cp |-> cp, sp |-> sp]
    ELSE [cp |-> CorrectImage(cp, info), sp |-> CorrectImage(sp, info)]

(***************************************************************************)
(* load_img_from_table, lines 307-368.  The result is the operations in    *)
(* order, each [op, idx], and ret; copyRes[i] is what modem_load_image (or *)
(* secure_boot_load_img, which ends in it) returns for entry i.  The       *)
(* cmdline, NV and boot-code loads' results are dropped.                   *)
(***************************************************************************)
(* The load an entry of the load mask gets, lines 334-360.                 *)
LoadOp(e) ==
    CASE "cmdline" \in e.flag -> "cmdline"
      [] "nv" \in e.flag      -> "nv"
      [] "boot" \in e.flag    -> "boot"
      [] "secure" \in e.flag /\ SecureBuild -> "secure"
      [] OTHER                -> "copy"

(* The walk with the continue after the cmdline load dropped: a cmdline  *)
(* entry is also copied as a plain image.                                 *)
RECURSIVE WalkTableNoContinue(_, _, _, _, _, _, _)
WalkTableNoContinue(table, i, loadFlag, skipFlag, ioctrlOk, copyRes, acc) ==
    IF i > Len(table) THEN acc
    ELSE LET e    == table[i]
             op   == LoadOp(e)
             load == e.size # 0 /\ e.flag \cap skipFlag = {} /\ e.flag \cap loadFlag # {}
             ops  == (IF ioctrlOk THEN <<[op |-> "region", idx |-> i]>> ELSE <<>>)
                        \o <<[op |-> op, idx |-> i]>>
                        \o (IF op = "cmdline" THEN <<[op |-> "copy", idx |-> i]>> ELSE <<>>)
             next == IF ~load THEN acc
                     ELSE [ops |-> acc.ops \o ops,
                           ret |-> acc.ret + (IF op \in {"copy", "secure", "cmdline"}
                                              THEN copyRes[i] ELSE 0)]
         IN  WalkTableNoContinue(table, i + 1, loadFlag, skipFlag, ioctrlOk, copyRes, next)

(* The walk of lines 323-365, one entry a step.                           *)
RECURSIVE WalkTable(_, _, _, _, _, _, _)
WalkTable(table, i, loadFlag, skipFlag, ioctrlOk, copyRes, acc) ==
    IF i > Len(table) THEN acc
    ELSE LET e    == table[i]
             op   == LoadOp(e)
             load == e.size # 0 /\ e.flag \cap skipFlag = {} /\ e.flag \cap loadFlag # {}
             ops  == (IF ioctrlOk THEN <<[op |-> "region", idx |-> i]>> ELSE <<>>)
                        \o <<[op |-> op, idx |-> i]>>
             next == IF ~load THEN acc
                     ELSE [ops |-> acc.ops \o ops,
                           ret |-> acc.ret + (IF op \in {"copy", "secure"}
                                              THEN copyRes[i] ELSE 0)]
         IN  WalkTable(table, i + 1, loadFlag, skipFlag, ioctrlOk, copyRes, next)

LoadImgFromTable(table, loadFlag, skipFlag, ioctrlOk, copyRes) ==
    WalkTable(table, 1, loadFlag, skipFlag, ioctrlOk, copyRes, [ops |-> <<>>, ret |-> 0])

(***************************************************************************)
(* modem_load_cp_cmdline, lines 206-269.  /proc/cmdline is a sequence of   *)
(* words, "modem" standing for the vendor key "modem=...".  What is        *)
(* written is everything after the first space following the key, or the  *)
(* whole line without a key; a key with no space after it makes strchr     *)
(* return NULL and the write read address 1.                               *)
(***************************************************************************)
CmdlineOut(words) ==
    LET ks == {i \in DOMAIN words : words[i] = "modem"}
    IN  CASE ks = {} -> [crash |-> FALSE, out |-> words]
          [] LeastIn(ks) = Len(words) -> [crash |-> TRUE, out |-> <<>>]
          [] OTHER -> [crash |-> FALSE, out |-> SubSeq(words, LeastIn(ks) + 1, Len(words))]
=============================================================================
