------------------------------ MODULE MCLfsHook ------------------------------
(* Instances of LfsHook for TLC: the files of one level and the common file. *)
EXTENDS LfsHook, TLC

CONSTANTS commonLog, debugLog, g1, g2

\* The name of the level's file begins with that of the common one.
MCCovers == [w \in Writers |-> IF w = commonLog THEN Writers ELSE {w}]
MCMaxAge == [w \in Writers |-> 2]
MCOrder == <<debugLog, commonLog>>
MCWriterMap == [l \in {"debug"} |-> <<debugLog, commonLog>>]

GoroutineSymmetry == Permutations(Goroutines)
==============================================================================
