---------------------------- MODULE MC_NvRecovery ----------------------------
EXTENDS NvRecovery

(* Two payloads of different lengths, so that the output tells which copy *)
(* it came from and a repair over a longer old payload leaves a tail.     *)
MC_Payloads == {<<7>>, <<1, 255>>}

MC_Corruptions == {"good", "badcks", "badmagic", "longlen"}
MC_AllShapes   == {"good", "badcks", "badmagic", "longlen", "neglen"}
=============================================================================
