---------------------------- MODULE LoggerDelivery ----------------------------
(***************************************************************************)
(* The Logger implements LogDelivery: the mapping.                         *)
(***************************************************************************)
EXTENDS Logger

\* A call is active while a frame runs it.
StatusOf(c) == IF c > calls THEN "new"
               ELSE IF \E p \in Procs : frame[p].call = c THEN "active"
               ELSE "returned"

DeliveryOf(d) == [by |-> d.by, sink |-> d.sink,
                  msgs |-> [i \in DOMAIN d.line |-> d.line[i].msg]]

Status == [c \in 1..MaxCalls |-> StatusOf(c)]
Deliveries == [i \in DOMAIN sent |-> DeliveryOf(sent[i])]

LD == INSTANCE LogDelivery WITH
        Calls <- 1..MaxCalls,
        status <- Status,
        delivered <- Deliveries,
        over <- exited

\* Every behaviour of the logger is one its user may expect: hooks first, then at
\* most one write of the call's own message, and nothing after the call has returned
\* or the program has exited (entry.go log).
ImplementsDelivery == LD!Spec
==============================================================================
