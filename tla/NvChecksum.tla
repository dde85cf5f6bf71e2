----------------------------- MODULE NvChecksum -----------------------------
(***************************************************************************)
(* The NV checksums of nv_read.c as pure operators.                        *)
(*                                                                         *)
(* calc_Checksum and calc_Checksum64 pair the payload bytes into           *)
(* little-endian 16-bit words, add them in an accumulator of 32 or 64      *)
(* bits, fold the sum twice into 16 bits and return its complement,        *)
(* truncated to an unsigned short.  They differ only in the width of the   *)
(* accumulator, so both are one operator with the width W as a parameter.  *)
(*                                                                         *)
(* The reference is the 16-bit one's-complement checksum: the words added  *)
(* with an end-around carry after every addition, then complemented.       *)
(***************************************************************************)
EXTENDS Naturals, Sequences

Byte == 0..255
Word == 0..65535

(* ~x for the unsigned short the functions return: the low 16 bits of the *)
(* complemented accumulator.                                              *)
Complement16(x) == 65535 - (x % 65536)

(* The accumulator as hi * 2^16 + lo with lo < 2^16, because TLC's        *)
(* integers are narrower than the code's.  A uint32_t keeps 16 bits of    *)
(* hi; a uint64_t never wraps here: the payload size is an int32, so the  *)
(* sum stays below 2^47.                                                  *)
Acc == [hi : Nat, lo : Word]
Zero == [hi |-> 0, lo |-> 0]
Wrap(hi, W) == IF W = 32 THEN hi % 65536 ELSE hi

(* chkSum += num in a W-bit accumulator.                                  *)
AddWord(acc, num, W) ==
    [hi |-> Wrap(acc.hi + (acc.lo + num) \div 65536, W),
     lo |-> (acc.lo + num) % 65536]

(* The while loop over little-endian words and the odd trailing byte.     *)
RECURSIVE SumWords(_, _, _)
SumWords(dat, chkSum, W) ==
    IF Len(dat) > 1
    THEN SumWords(SubSeq(dat, 3, Len(dat)), AddWord(chkSum, dat[1] + dat[2] * 256, W), W)
    ELSE IF Len(dat) = 1 THEN AddWord(chkSum, dat[1], W)
    ELSE chkSum

(* A single fold: a carry out of the first addition is dropped.          *)
FoldSumOnce(chkSum) == chkSum.hi + chkSum.lo

(* The two folds after the loop: (chkSum >> 16) + (chkSum & 0xffff), then *)
(* chkSum += chkSum >> 16.  The result is below 2^32 in both widths, so   *)
(* neither addition wraps.                                                *)
FoldSum(chkSum) ==
    LET c1 == chkSum.hi + chkSum.lo
    IN  c1 + c1 \div 65536

(* calc_Checksum and calc_Checksum64.                                     *)
CalcChecksumW(dat, W) == Complement16(FoldSum(SumWords(dat, Zero, W)))
CalcChecksum(dat)     == CalcChecksumW(dat, 32)
CalcChecksum64(dat)   == CalcChecksumW(dat, 64)

(***************************************************************************)
(* Reference: the one's-complement sum with an end-around carry after      *)
(* every word, as an independent recursion.                                *)
(***************************************************************************)
OnesAdd(a, b) == IF a + b > 65535 THEN a + b - 65535 ELSE a + b

RECURSIVE OnesSum(_, _)
OnesSum(dat, acc) ==
    CASE Len(dat) = 0 -> acc
      [] Len(dat) = 1 -> OnesAdd(acc, dat[1])
      [] OTHER        -> OnesSum(Tail(Tail(dat)), OnesAdd(acc, dat[1] + 256 * dat[2]))

RefChecksum(dat) == 65535 - OnesSum(dat, 0)

(* The same reference over an exact word sum (an Acc that never wraps):   *)
(* adding with an end-around carry computes the sum modulo 65535, since   *)
(* 2^16 = 1 (mod 65535), with a nonzero multiple of 65535 kept as 65535.  *)
RefChecksumOfSum(total) ==
    LET r == (total.hi + total.lo) % 65535
    IN  IF total = Zero THEN 65535
        ELSE 65535 - (IF r = 0 THEN 65535 ELSE r)
=============================================================================
