---------------------------- MODULE MCRotatingFile ----------------------------
(* Instances of RotatingFile for TLC.                                        *)
EXTENDS RotatingFile, TLC

CONSTANTS app, debug

\* The files of app.debug start with "app." too.
MCCovers == [w \in Writers |-> IF w = app THEN Writers ELSE {w}]
MCMaxAge == [w \in Writers |-> 2]

GoroutineSymmetry == Permutations(Goroutines)
==============================================================================
