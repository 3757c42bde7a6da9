----------------------------- MODULE LogDelivery -----------------------------
(***************************************************************************)
(* What a Logger promises to its user, without entries, buffers, pools and *)
(* locks: a logging call, between its start and its return, hands its      *)
(* message to hooks and then at most once to a writer; nothing is          *)
(* delivered on behalf of a call that has not started or that has          *)
(* returned, and nothing once the program is over.                         *)
(***************************************************************************)
EXTENDS Naturals, Sequences

CONSTANTS Calls, Hooks, Outs

VARIABLES status,     \* [Calls -> {"new", "active", "returned"}]
          delivered,  \* what hooks and writers received: by, sink, msgs
          over        \* the program has exited

vars == <<status, delivered, over>>

Init == /\ status = [c \in Calls |-> "new"]
        /\ delivered = <<>>
        /\ over = FALSE

Start(c) == /\ ~over /\ status[c] = "new"
            /\ status' = [status EXCEPT ![c] = "active"]
            /\ UNCHANGED <<delivered, over>>

Written(c) == \E i \in DOMAIN delivered : delivered[i].by = c /\ delivered[i].sink \in Outs

\* One delivery: to a hook, or the one to a writer that ends them.
Deliver(c) == /\ ~over /\ status[c] = "active" /\ ~Written(c)
              /\ \E sink \in Hooks \cup Outs :
                   delivered' = Append(delivered, [by |-> c, sink |-> sink, msgs |-> <<c>>])
              /\ UNCHANGED <<status, over>>

Return(c) == /\ ~over /\ status[c] = "active"
             /\ status' = [status EXCEPT ![c] = "returned"]
             /\ UNCHANGED <<delivered, over>>

\* Only a call, of Fatal, ends the program; it is then at its end.
End(c) == /\ ~over /\ status[c] = "active"
          /\ status' = [status EXCEPT ![c] = "returned"]
          /\ over' = TRUE
          /\ UNCHANGED delivered

\* A hook that panics has received the message, and takes the call with it.
Break(c) == /\ ~over /\ status[c] = "active" /\ ~Written(c)
            /\ \E hook \in Hooks :
                 delivered' = Append(delivered, [by |-> c, sink |-> hook, msgs |-> <<c>>])
            /\ status' = [status EXCEPT ![c] = "returned"]
            /\ UNCHANGED over

Next == \E c \in Calls : Start(c) \/ Deliver(c) \/ Break(c) \/ Return(c) \/ End(c)

Spec == Init /\ [][Next]_vars
==============================================================================
