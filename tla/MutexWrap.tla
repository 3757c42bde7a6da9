------------------------------ MODULE MutexWrap ------------------------------
(***************************************************************************)
(* The mutex of a Logger (logger.go, type MutexWrap): a sync.Mutex that    *)
(* SetNoLock can switch off for good.  Lock and Unlock read the flag       *)
(* `disabled' separately, so a switch between the two calls leaves the     *)
(* inner mutex held for ever.                                              *)
(*                                                                         *)
(* The module gives the steps; the modules that use the mutex say when a   *)
(* process takes them.                                                     *)
(***************************************************************************)
CONSTANTS Procs,   \* the call frames that use the logger
          NoProc   \* the holder of a free mutex

ASSUME NoProcAssumption == NoProc \notin Procs

VARIABLES lock,      \* the frame that holds the inner sync.Mutex, or NoProc
          disabled   \* MutexWrap.disabled

mutexVars == <<lock, disabled>>

MutexTypeOK == /\ lock \in Procs \cup {NoProc}
               /\ disabled \in BOOLEAN

MutexInit == lock = NoProc /\ disabled = FALSE

\* mw.lock.Lock(), reached by a Lock() that read disabled = FALSE.
Acquire(p) == /\ lock = NoProc
              /\ lock' = p
              /\ UNCHANGED disabled

\* Unlock() reads the flag again: once it is set the inner mutex stays held.
Unlock == /\ lock' = IF disabled THEN lock ELSE NoProc
          /\ UNCHANGED disabled

Disable == disabled' = TRUE /\ UNCHANGED lock
==============================================================================
