------------------------- MODULE MC_NvChecksumLarge -------------------------
(***************************************************************************)
(* Large payloads for the checksum folds.  Only the sum of the words       *)
(* reaches the folds, so a payload is abstracted to the number of its      *)
(* words and their sum; each step appends a run of 2^k equal words.        *)
(***************************************************************************)
EXTENDS NvChecksum

CONSTANTS RunWords, RunExps, MaxWords

ASSUME RunWords \subseteq Word /\ RunExps \subseteq Nat /\ MaxWords \in Nat

VARIABLES nwords, total

(* The exact sum of 2^k more words w, in the limbs of Acc.                *)
AddRun(acc, w, k) ==
    IF k >= 16 THEN [acc EXCEPT !.hi = @ + w * 2^(k - 16)]
    ELSE [hi |-> acc.hi + (acc.lo + w * 2^k) \div 65536,
          lo |-> (acc.lo + w * 2^k) % 65536]

(* The loop's accumulator after those words: the exact sum, wrapped to W. *)
Accumulated(W) == [total EXCEPT !.hi = Wrap(@, W)]

Init == nwords = 0 /\ total = Zero

AppendRun ==
    \E w \in RunWords, k \in RunExps :
        /\ nwords + 2^k <= MaxWords
        /\ nwords' = nwords + 2^k
        /\ total' = AddRun(total, w, k)

Spec == Init /\ [][AppendRun]_<<nwords, total>>

(* The 64-bit accumulator of calc_Checksum64 gives the one's-complement   *)
(* checksum for any payload the partition can hold, which is what a wider *)
(* accumulator is for.                                                    *)
Checksum64MatchesReference ==
    Complement16(FoldSum(Accumulated(64))) = RefChecksumOfSum(total)
=============================================================================
