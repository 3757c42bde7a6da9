------------------------------- MODULE MCLogger -------------------------------
(* Instances of Logger for TLC: the values of the structured constants.      *)
EXTENDS LoggerDelivery, AsyncHook, TLC

CONSTANTS p1, p2, p3, h1, h2

\* Goroutines; the same, and p3 is the call that a hook of p1 makes.
TwoRoots == [p \in Procs |-> NoProc]
TwoRootsAndNested == [p \in Procs |-> IF p = p3 THEN p1 ELSE NoProc]

\* h1 fires at Fatal, Warn and Info, h2 at every level (AllLevels).
MCHookLevels == [h \in Hooks |-> IF h = h1 THEN {FatalLevel, WarnLevel, InfoLevel}
                                           ELSE Levels]

MaybeHook == {NoHooks, Added(NoHooks, h1)}
MaybeTwoHooks == {NoHooks, Added(Added(NoHooks, h1), h2)}
==============================================================================
