------------------------------ MODULE AsyncHook ------------------------------
(***************************************************************************)
(* A hook that hands the *Entry to a worker of its own and returns: the    *)
(* worker calls entry.Bytes() or entry.String() later, while the logging   *)
(* call goes on with the same entry.  The formatters write to entry.Buffer *)
(* when it is set, and log() sets it after the hooks have been fired.      *)
(***************************************************************************)
EXTENDS Logger

CONSTANT MaxAsync   \* bound: lines the worker has in a buffer that is in use

ASSUME MaxAsyncAssumption == MaxAsync \in Nat

\* Format by the worker; without a buffer in the entry it uses one of its own.
AsyncFormat(e) ==
  /\ ~exited
  /\ heap[e].buffer # NoBuffer
  /\ Len(content[heap[e].buffer]) < MaxAsync
  /\ content' = [content EXCEPT ![heap[e].buffer] = Append(@, LineOf(heap[e]))]
  /\ Trims(e)
  /\ UNCHANGED <<mutexVars, configVars, poolVars, users, retained, pc, frame, calls,
                 sent, exited>>

AsyncNext == Next \/ \E e \in retained : AsyncFormat(e)

AsyncSpec == Init /\ [][AsyncNext]_vars

\* What a hook's worker does with its entry does not show in the output: a write to
\* Out is exactly one line (entry.go:50-53, hooks.go:5-9).
OneLinePerWrite ==
  \A i \in DOMAIN sent : sent[i].sink \in Outs => Len(sent[i].line) = 1
==============================================================================
