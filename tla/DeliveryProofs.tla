---------------------------- MODULE DeliveryProofs ----------------------------
(***************************************************************************)
(* What a call delivers.  The Logger implements LogDelivery: the initial   *)
(* states map to initial states, and every step of a frame, a call or a    *)
(* setter to a step of the abstract specification or to a stutter.  And    *)
(* the levels: a call that returns has been written, and its hooks have    *)
(* fired, as the levels in force while it ran ask for.                     *)
(***************************************************************************)
EXTENDS LoggerDelivery, LineProofs

\* A frame has a call while it is not idle, and only a call exits.
CallOf(p) == /\ pc[p] = "idle" => frame[p].call = 0
             /\ frame[p].exits => frame[p].call > 0
             /\ pc[p] = "exit" => frame[p].exits

EndInv == calls <= MaxCalls /\ \A p \in Procs : CallOf(p)

------------------------------------------------------------------------------
(* The end of a call.                                                       *)

\* The frame of a call that starts.
LEMMA CallStarts ==
  ASSUME IInv, EndInv, NEW p \in Procs, Call(p)
  PROVE  /\ CallOf(p)' /\ calls' <= MaxCalls /\ exited' = exited /\ ~exited
<1>0. TypeOK
  BY DEF IInv
<1>1. ASSUME NEW kind, NEW level, NEW e, Begin(p, kind, level, e),
             pc'[p] \in {"checkConsole", "newEntry"}
      PROVE  CallOf(p)' /\ calls' <= MaxCalls /\ exited' = exited /\ ~exited
  <2> DEFINE r(x) == [IdleFrame EXCEPT !.kind = kind, !.level = level, !.call = calls + 1,
            !.ent = e, !.exits = x,
            !.seen = [console |-> {consoleLevel}, hook |-> {hookLevel}]]
  <2>1. PICK x \in BOOLEAN : frame' = [frame EXCEPT ![p] = r(x)]
    BY <1>1 DEF Begin
  <2>2. r(x).call = calls + 1
    BY DEF IdleFrame
  <2> HIDE DEF r
  <2>3. frame'[p] = r(x)
    BY <1>0, <2>1 DEF TypeOK
  <2>4. calls \in Nat /\ MaxCalls \in Nat /\ calls < MaxCalls /\ calls' = calls + 1
    BY <1>0, <1>1, ConstantsAssumption DEF TypeOK, Begin
  <2>5. calls' <= MaxCalls /\ frame'[p].call > 0
    BY <2>2, <2>3, <2>4
  <2>6. exited' = exited /\ ~exited
    BY <1>1 DEF Begin, Steps
  <2> QED BY <1>1, <2>5, <2>6 DEF CallOf
<1>2. CASE WithCall(p)
  <2>1. PICK e \in users \cup {NoEntry} :
          /\ frame' = [frame EXCEPT ![p] = [IdleFrame EXCEPT !.kind = "with", !.ent = e]]
          /\ pc' = [pc EXCEPT ![p] = IF e = NoEntry THEN "newEntry" ELSE "derive"]
    BY <1>2 DEF WithCall, GoTo
  <2>2. frame'[p] = [IdleFrame EXCEPT !.kind = "with", !.ent = e]
    BY <1>0, <2>1 DEF TypeOK
  <2>3. ~frame'[p].exits
    BY <2>2 DEF IdleFrame
  <2>4. pc'[p] \in {"newEntry", "derive"}
    BY <1>0, <2>1 DEF TypeOK
  <2>5. exited' = exited /\ ~exited /\ calls' = calls
    BY <1>2 DEF WithCall, Steps
  <2> QED BY <2>3, <2>4, <2>5 DEF CallOf, EndInv
<1>3. CASE LoggerCall(p) \/ PrintCall(p) \/ WarnfCall(p) \/ EntryCall(p)
  BY <1>0, <1>1, <1>3 DEF LoggerCall, PrintCall, WarnfCall, EntryCall, GoTo, TypeOK
<1> QED BY <1>2, <1>3 DEF Call

\* A step keeps the frame's call, or ends it.
LEMMA StepEnds ==
  ASSUME IInv, EndInv, NEW p \in Procs, Step(p)
  PROVE  /\ CallOf(p)' /\ ~exited
         /\ ~Exit(p) => exited' = exited
<1> USE DEF GoTo, Steps
<1>0. TypeOK /\ frame[p] \in Frame /\ CallOf(p)
  BY DEF IInv, TypeOK, EndInv
<1>1. ~exited /\ (~Exit(p) => exited' = exited)
  BY DEF Step, LoadConsole, LoadHook, NewEntry, Derive, Release, LockLog, WaitLog,
         Snapshot, Prepare, FireHook, GetBuffer, Format, LockOut, WaitOut, Write,
         PutBuffer, Exit, Lock
<1>2. CASE frame'[p] = IdleFrame /\ pc'[p] = "idle"
  BY <1>1, <1>2 DEF CallOf, IdleFrame
<1>3. CASE Return(p)
  BY <1>0, <1>2, <1>3 DEF Return, TypeOK
<1>4. CASE Finish(p) /\ ~Return(p)
  <2>1. /\ frame[p].exits
        /\ frame' = [frame EXCEPT ![p].ent = NoEntry, ![p].new = NoEntry,
                                  ![p].buf = NoBuffer]
        /\ pc'[p] = "exit"
    BY <1>0, <1>4 DEF Finish, TypeOK
  <2>2. frame'[p].exits /\ frame'[p].call = frame[p].call
    BY <1>0, <2>1 DEF TypeOK, Frame
  <2> QED BY <1>0, <1>1, <2>1, <2>2 DEF CallOf
<1>5. CASE /\ frame'[p].exits = frame[p].exits /\ frame'[p].call = frame[p].call
           /\ pc'[p] \notin {"idle", "exit"}
  BY <1>0, <1>1, <1>5 DEF CallOf
<1>6. CASE LoadConsole(p) \/ LoadHook(p)
  BY <1>0, <1>3, <1>4, <1>5, <1>6 DEF LoadConsole, LoadHook, Enabled, TypeOK
<1>7. CASE NewEntry(p)
  <2>1. pc'[p] \in {"lockLog", "derive", "checkConsole"}
    <3>1. CASE frame[p].kind = "logger"
      BY <1>0, <1>7, <3>1 DEF NewEntry, TypeOK
    <3>2. CASE frame[p].kind = "with"
      BY <1>0, <1>7, <3>2 DEF NewEntry, TypeOK
    <3>3. CASE frame[p].kind # "logger" /\ frame[p].kind # "with"
      BY <1>0, <1>7, <3>3 DEF NewEntry, TypeOK
    <3> QED BY <3>1, <3>2, <3>3
  <2>2. \E e : frame' = [frame EXCEPT ![p].ent = e]
    BY <1>7 DEF NewEntry
  <2> QED BY <1>0, <1>5, <2>1, <2>2 DEF TypeOK, Frame
<1>8. CASE Derive(p) \/ Release(p) \/ Exit(p)
  BY <1>0, <1>3, <1>4, <1>5, <1>8 DEF Derive, Release, Exit, TypeOK
<1>9. CASE LockLog(p) \/ WaitLog(p) \/ Snapshot(p) \/ Prepare(p)
  BY <1>0, <1>5, <1>9 DEF LockLog, WaitLog, Lock, Snapshot, Prepare, TypeOK, Frame
<1>10. CASE FireHook(p) /\ ~Return(p)
  <2>1. \E hs : frame' = [frame EXCEPT ![p].hooks = hs]
    BY <1>10 DEF FireHook
  <2>2. pc'[p] \in {"hook", "getBuffer"}
    BY <1>0, <1>10 DEF FireHook, TypeOK
  <2> QED BY <1>0, <1>5, <2>1, <2>2 DEF TypeOK, Frame
<1>11. CASE GetBuffer(p) \/ Format(p)
  <2>1. \/ \E b : frame' = [frame EXCEPT ![p].buf = b]
        \/ \E n : frame' = [frame EXCEPT ![p].size = n]
        \/ \E x : frame' = [frame EXCEPT ![p].panics = x]
    BY <1>11 DEF GetBuffer, Format
  <2>2. pc'[p] \in {"format", "putBuffer", "lockOut"}
    BY <1>0, <1>11 DEF GetBuffer, Format, TypeOK
  <2> QED BY <1>0, <1>5, <2>1, <2>2 DEF TypeOK, Frame
<1>12. CASE LockOut(p) \/ WaitOut(p) \/ Write(p)
  BY <1>0, <1>5, <1>12 DEF LockOut, WaitOut, Lock, Write, TypeOK, Frame
<1>13. CASE PutBuffer(p)
  BY <1>0, <1>3, <1>4, <1>5, <1>13 DEF PutBuffer, TypeOK, Frame
<1> QED BY <1>3, <1>6, <1>7, <1>8, <1>9, <1>10, <1>11, <1>12, <1>13 DEF Step

LEMMA EndInvariant == Spec => []EndInv
<1>1. Init => EndInv
  BY ConstantsAssumption DEF Init, EndInv, CallOf, IdleFrame
<1>2. RestingInv /\ EndInv /\ [Next]_vars => EndInv'
  <2> SUFFICES ASSUME RestingInv, EndInv, [Next]_vars PROVE EndInv'
    OBVIOUS
  <2>0. IInv
    BY DEF RestingInv
  <2>1. CASE UNCHANGED vars
    BY <2>1 DEF vars, EndInv, CallOf
  <2>2. ASSUME NEW p \in Procs, Call(p)
        PROVE  EndInv'
    BY <2>0, <2>2, CallStarts, OnlyMoves DEF EndInv, CallOf
  <2>3. ASSUME NEW p \in Procs, Step(p)
        PROVE  EndInv'
    BY <2>0, <2>3, StepEnds, StepCalls, OnlyMoves DEF EndInv, CallOf
  <2>4. CASE Config
    <3>1. pc' = pc /\ calls' = calls
      BY <2>0, <2>4, ConfigHeap
    <3>2. \A p \in Procs : frame'[p].call = frame[p].call /\ frame'[p].exits = frame[p].exits
      BY <2>0, <2>4, ConfigFrames
    <3> QED BY <3>1, <3>2 DEF EndInv, CallOf
  <2> QED BY <2>1, <2>2, <2>3, <2>4 DEF Next
<1> QED BY <1>1, <1>2, RestingInvariant, PTL DEF Spec

------------------------------------------------------------------------------
(* The mapping.                                                             *)

\* The status of the calls, when no frame changes its call, when one ends it, and when
\* one starts.
LEMMA StatusSame ==
  ASSUME calls' = calls, \A q \in Procs : frame'[q].call = frame[q].call
  PROVE  Status' = Status
  BY DEF Status, StatusOf

LEMMA StatusEnds ==
  ASSUME IInv, EndInv, NumberInv, NEW p \in Procs, NEW c, c = frame[p].call, c > 0,
         calls' = calls, frame'[p].call = 0,
         \A q \in Procs \ {p} : frame'[q].call = frame[q].call
  PROVE  /\ c \in 1..MaxCalls /\ Status[c] = "active"
         /\ Status' = [Status EXCEPT ![c] = "returned"]
<1>1. c \in Nat /\ c <= calls /\ calls \in Nat /\ MaxCalls \in Nat /\ calls <= MaxCalls
      /\ \A q \in Procs \ {p} : frame[q].call # c
  BY ConstantsAssumption DEF IInv, TypeOK, EndInv, NumberInv, Numbered
<1>2. c \in 1..MaxCalls /\ ~(c > calls)
  BY <1>1
<1>3. Status[c] = "active"
  BY <1>2 DEF Status, StatusOf
<1>4. StatusOf(c)' = "returned"
  <2>1. \A q \in Procs : frame'[q].call # c
    BY <1>1
  <2> QED BY <1>2, <2>1 DEF StatusOf
<1>5. ASSUME NEW d \in 1..MaxCalls, d # c
      PROVE  StatusOf(d)' = StatusOf(d)
  <2>1. (\E q \in Procs : frame'[q].call = d) <=> (\E q \in Procs : frame[q].call = d)
    BY <1>5
  <2> QED BY <2>1 DEF StatusOf
<1> QED BY <1>2, <1>3, <1>4, <1>5 DEF Status

LEMMA StatusStarts ==
  ASSUME IInv, EndInv, NEW p \in Procs, frame[p].call = 0, NEW c, c = calls + 1,
         calls' = c, calls' <= MaxCalls, frame'[p].call = c,
         \A q \in Procs \ {p} : frame'[q].call = frame[q].call
  PROVE  /\ c \in 1..MaxCalls /\ Status[c] = "new"
         /\ Status' = [Status EXCEPT ![c] = "active"]
<1>1. calls \in Nat /\ MaxCalls \in Nat
  BY ConstantsAssumption DEF IInv, TypeOK
<1>2. c \in 1..MaxCalls /\ c > calls /\ ~(c > calls')
  BY <1>1
<1>3. Status[c] = "new"
  BY <1>2 DEF Status, StatusOf
<1>4. StatusOf(c)' = "active"
  BY <1>2 DEF StatusOf
<1>5. ASSUME NEW d \in 1..MaxCalls, d # c
      PROVE  StatusOf(d)' = StatusOf(d)
  <2>1. (\E q \in Procs : frame'[q].call = d) <=> (\E q \in Procs : frame[q].call = d)
    BY <1>1, <1>5
  <2>2. d > calls' <=> d > calls
    BY <1>1, <1>5
  <2> QED BY <2>1, <2>2 DEF StatusOf
<1> QED BY <1>2, <1>3, <1>4, <1>5 DEF Status

\* A delivery, as the user sees it.
LEMMA DeliveriesAppend ==
  ASSUME TypeOK, NEW d, sent' = Append(sent, d)
  PROVE  Deliveries' = Append(Deliveries, DeliveryOf(d))
<1> DEFINE n == Len(sent)
           D == Deliveries
           x == DeliveryOf(d)
           S == {D[i] : i \in 1..n} \cup {x}
<1>1. /\ n \in Nat /\ DOMAIN sent = 1..n /\ DOMAIN sent' = 1..(n + 1)
      /\ \A i \in 1..n : sent'[i] = sent[i]
      /\ sent'[n + 1] = d
  BY SentAppend
<1>2. D = [i \in 1..n |-> DeliveryOf(sent[i])]
  BY <1>1 DEF Deliveries
<1>3. Deliveries' = [i \in 1..(n + 1) |-> DeliveryOf(sent'[i])]
  BY <1>1 DEF Deliveries
<1>4. x \in S
  OBVIOUS
<1> HIDE DEF n, x
<1>5. D \in Seq(S) /\ Len(D) = n
  BY <1>1, <1>2
<1> HIDE DEF D, S
<1>6. /\ Append(D, x) \in Seq(S) /\ Len(Append(D, x)) = n + 1
      /\ \A i \in 1..n : Append(D, x)[i] = D[i]
      /\ Append(D, x)[n + 1] = x
  BY <1>4, <1>5, AppendProperties
<1>7. /\ \A i \in 1..n : Deliveries'[i] = D[i] /\ D[i] \in S
      /\ Deliveries'[n + 1] = x
  <2>1. 1..n \subseteq 1..(n + 1) /\ n + 1 \in 1..(n + 1)
    BY <1>1
  <2>2. \A i \in 1..n : D[i] \in S
    BY DEF S
  <2> QED BY <1>1, <1>2, <1>3, <2>1, <2>2 DEF x
<1>8. Deliveries' \in Seq(S) /\ Len(Deliveries') = n + 1
  <2>1. \A i \in 1..(n + 1) : Deliveries'[i] \in S
    <3> SUFFICES ASSUME NEW i \in 1..(n + 1) PROVE Deliveries'[i] \in S
      OBVIOUS
    <3>1. CASE i = n + 1
      BY <1>4, <1>7, <3>1
    <3>2. CASE i # n + 1
      <4>1. i \in 1..n
        BY <1>1, <3>2
      <4> QED BY <1>7, <4>1
    <3> QED BY <3>1, <3>2
  <2>2. Deliveries' \in [1..(n + 1) -> S] /\ n + 1 \in Nat
    BY <1>1, <1>3, <2>1
  <2> QED BY <2>2
<1>9. \A i \in 1..(n + 1) : Deliveries'[i] = Append(D, x)[i]
  <2> SUFFICES ASSUME NEW i \in 1..(n + 1) PROVE Deliveries'[i] = Append(D, x)[i]
    OBVIOUS
  <2>1. CASE i = n + 1
    BY <1>6, <1>7, <2>1
  <2>2. CASE i # n + 1
    <3>1. i \in 1..n
      BY <1>1, <2>2
    <3> QED BY <1>6, <1>7, <3>1
  <2> QED BY <2>1, <2>2
<1>10. Deliveries' = Append(D, x)
  BY <1>6, <1>8, <1>9, SeqEqual
<1> QED BY <1>10 DEF D, x

LEMMA WrittenSinks ==
  ASSUME NEW c
  PROVE  LD!Written(c) <=> SinksOf(c) \cap Outs # {}
<1>1. DOMAIN Deliveries = DOMAIN sent
  BY DEF Deliveries
<1>2. \A i \in DOMAIN sent : /\ Deliveries[i].by = sent[i].by
                             /\ Deliveries[i].sink = sent[i].sink
  BY DEF Deliveries, DeliveryOf
<1> QED BY <1>1, <1>2 DEF LD!Written, SinksOf

\* The message of a delivered line is that of its call.
LEMMA DeliveryOfLine ==
  ASSUME NEW d, NEW c, NEW l, d.by = c, d.line = <<l>>, l.msg = c
  PROVE  DeliveryOf(d) = [by |-> c, sink |-> d.sink, msgs |-> <<c>>]
<1>1. [i \in DOMAIN <<l>> |-> <<l>>[i].msg] = <<c>>
  OBVIOUS
<1> QED BY <1>1 DEF DeliveryOf

------------------------------------------------------------------------------
(* The steps.                                                               *)

\* A hook receives the message of the call; if it panics, the call is over.
LEMMA FireSimulates ==
  ASSUME RestingInv, LineInv, EndInv, NEW p \in Procs, FireHook(p)
  PROVE  LD!Next
<1> DEFINE e == frame[p].new
           h == Head(frame[p].hooks)
           l == LineOf(heap[e])
           d == [by |-> frame[p].call, sink |-> h, user |-> ~Pooled(p), line |-> <<l>>]
<1>0. IInv /\ TypeOK /\ NumberInv /\ DataInv /\ DeliveredInv /\ Step(p)
  BY DEF RestingInv, LineInv, IInv, Step
<1>1. /\ sent' = Append(sent, d) /\ h \in Hooks /\ pc[p] = "hook"
  BY <1>0, FireSends
<1>2. PICK c \in Nat : c = frame[p].call /\ c > 0 /\ c <= calls
  BY <1>0, <1>1 DEF NumberInv, Numbered, Logging, HasNew
<1>3. heap[e].msg = c
  BY <1>0, <1>1, <1>2 DEF DataInv, LineData, HasNew
<1>4. d.by = c /\ d.line = <<l>> /\ l.msg = c /\ d.sink = h
  BY <1>2, <1>3 DEF LineOf
<1> HIDE DEF d, l, h
<1>5. Deliveries' = Append(Deliveries, [by |-> c, sink |-> h, msgs |-> <<c>>])
  BY <1>0, <1>1, <1>4, DeliveriesAppend, DeliveryOfLine
<1>6. ~LD!Written(c)
  BY <1>0, <1>1, <1>2, WrittenSinks DEF DeliveredInv, Delivered, HasNew
<1>7. exited' = exited /\ ~exited /\ calls' = calls
  BY <1>0, StepEnds, StepCalls DEF FireHook, EndInv
<1>8. \A q \in Procs \ {p} : frame'[q].call = frame[q].call
  BY <1>0, OnlyMoves
<1>9. c \in 1..MaxCalls /\ Status[c] = "active"
  <2>1. c <= MaxCalls
    BY <1>0, <1>2, ConstantsAssumption DEF EndInv, TypeOK
  <2> QED BY <1>0, <1>2, <2>1, ConstantsAssumption DEF Status, StatusOf, TypeOK
<1>10. CASE frame'[p].call = frame[p].call
  <2>1. Status' = Status
    BY <1>7, <1>8, <1>10, StatusSame
  <2>2. LD!Deliver(c)
    BY <1>1, <1>5, <1>6, <1>7, <1>9, <2>1 DEF LD!Deliver
  <2> QED BY <1>9, <2>2 DEF LD!Next
<1>11. CASE frame'[p].call # frame[p].call
  <2>1. frame'[p].call = 0
    BY <1>0, <1>11, StepCalls DEF IdleFrame
  <2>2. Status' = [Status EXCEPT ![c] = "returned"]
    BY <1>0, <1>2, <1>7, <1>8, <2>1, StatusEnds
  <2>3. LD!Break(c)
    BY <1>1, <1>5, <1>6, <1>7, <1>9, <2>2 DEF LD!Break
  <2> QED BY <1>9, <2>3 DEF LD!Next
<1> QED BY <1>10, <1>11

\* Out receives the message of the call, which it has not been given before.
LEMMA WriteSimulates ==
  ASSUME RestingInv, LineInv, EndInv, NEW p \in Procs, Write(p)
  PROVE  [LD!Next]_LD!vars
<1> DEFINE e == frame[p].new
           l == LineOf(heap[e])
           d == [by |-> frame[p].call, sink |-> frame[p].out, user |-> ~Pooled(p),
                 line |-> Serialized(p)]
<1>0. IInv /\ TypeOK /\ NumberInv /\ DataInv /\ DeliveredInv /\ Step(p)
  BY DEF RestingInv, LineInv, IInv, Step
<1>1. /\ frame[p].out \in Outs /\ pc[p] = "write" /\ pc'[p] = "putBuffer"
      /\ sent' = sent \/ sent' = Append(sent, d)
  BY <1>0, WriteSends
<1>2. PICK c \in Nat : c = frame[p].call /\ c > 0 /\ c <= calls
  BY <1>0, <1>1 DEF NumberInv, Numbered, Logging, HasNew
<1>3. heap[e].msg = c
  BY <1>0, <1>1, <1>2 DEF DataInv, LineData, HasNew
<1>4. Serialized(p) = <<l>>
  BY <1>0, WrittenLine
<1>5. d.by = c /\ d.line = <<l>> /\ l.msg = c /\ d.sink = frame[p].out
  BY <1>2, <1>3, <1>4 DEF LineOf
<1> HIDE DEF d, l
<1>6. ~LD!Written(c)
  BY <1>0, <1>1, <1>2, WrittenSinks DEF DeliveredInv, Delivered, HasNew
<1>7. exited' = exited /\ ~exited /\ calls' = calls
  BY <1>0, StepEnds, StepCalls DEF Write
<1>8. \A q \in Procs : frame'[q].call = frame[q].call
  BY <1>0, <1>1, OnlyMoves, StepCalls
<1>9. c \in 1..MaxCalls /\ Status[c] = "active"
  <2>1. c <= MaxCalls
    BY <1>0, <1>2, ConstantsAssumption DEF EndInv, TypeOK
  <2> QED BY <1>0, <1>2, <2>1, ConstantsAssumption DEF Status, StatusOf, TypeOK
<1>10. Status' = Status
  BY <1>7, <1>8, StatusSame
<1>11. CASE sent' = sent
  BY <1>7, <1>10, <1>11 DEF LD!vars, Deliveries
<1>12. CASE sent' = Append(sent, d)
  <2>1. Deliveries' = Append(Deliveries, [by |-> c, sink |-> frame[p].out, msgs |-> <<c>>])
    BY <1>0, <1>5, <1>12, DeliveriesAppend, DeliveryOfLine
  <2>2. LD!Deliver(c)
    BY <1>1, <1>6, <1>7, <1>9, <1>10, <2>1 DEF LD!Deliver
  <2> QED BY <1>9, <2>2 DEF LD!Next
<1> QED BY <1>1, <1>11, <1>12

\* The other steps deliver nothing; one of them ends the call.
LEMMA StepSimulates ==
  ASSUME RestingInv, LineInv, EndInv, NEW p \in Procs, Step(p)
  PROVE  [LD!Next]_LD!vars
<1>0. IInv /\ TypeOK /\ NumberInv /\ ~exited
  BY StepEnds DEF RestingInv, LineInv, IInv
<1>1. CASE FireHook(p)
  BY <1>1, FireSimulates
<1>2. CASE Write(p)
  BY <1>2, WriteSimulates
<1>3. CASE ~FireHook(p) /\ ~Write(p)
  <2>1. sent' = sent /\ calls' = calls
    BY <1>0, <1>3, OthersSendNothing, StepCalls
  <2>2. Deliveries' = Deliveries
    BY <2>1 DEF Deliveries
  <2>3. \A q \in Procs \ {p} : frame'[q].call = frame[q].call
    BY <1>0, OnlyMoves
  <2>4. CASE frame'[p].call = frame[p].call
    <3>1. Status' = Status
      BY <2>1, <2>3, <2>4, StatusSame
    <3>2. exited' = exited
      <4>1. ~Exit(p)
        <5> SUFFICES ASSUME Exit(p) PROVE FALSE
          OBVIOUS
        <5>1. pc[p] = "exit" /\ frame'[p] = IdleFrame
          BY <1>0 DEF Exit, Steps, Return, TypeOK
        <5>2. frame[p].call > 0 /\ frame[p].call \in Nat
          BY <1>0, <5>1 DEF EndInv, CallOf, NumberInv, Numbered
        <5> QED BY <2>4, <5>1, <5>2 DEF IdleFrame
      <4> QED BY <1>0, <4>1, StepEnds
    <3> QED BY <2>2, <3>1, <3>2 DEF LD!vars
  <2>5. CASE frame'[p].call # frame[p].call
    <3>1. frame'[p].call = 0
      BY <1>0, <2>5, StepCalls DEF IdleFrame
    <3>2. PICK c \in Nat : c = frame[p].call /\ c > 0
      BY <1>0, <2>5, <3>1 DEF NumberInv, Numbered
    <3>3. /\ c \in 1..MaxCalls /\ Status[c] = "active"
          /\ Status' = [Status EXCEPT ![c] = "returned"]
      BY <1>0, <2>1, <2>3, <3>1, <3>2, StatusEnds
    <3>4. CASE exited' = exited
      <4>1. LD!Return(c)
        BY <1>0, <2>2, <3>3, <3>4 DEF LD!Return
      <4> QED BY <3>3, <4>1 DEF LD!Next
    <3>5. CASE exited' # exited
      <4>1. exited' = TRUE
        <5>1. Exit(p)
          BY <1>0, <3>5, StepEnds
        <5>2. exited' \in BOOLEAN /\ exited = FALSE
          BY <1>0, <5>1 DEF Exit, TypeOK
        <5> QED BY <3>5, <5>2
      <4>2. LD!End(c)
        BY <1>0, <2>2, <3>3, <4>1 DEF LD!End
      <4> QED BY <3>3, <4>2 DEF LD!Next
    <3> QED BY <3>4, <3>5
  <2> QED BY <2>4, <2>5
<1> QED BY <1>1, <1>2, <1>3

\* A logging method starts a call; WithField and a setter do nothing the user sees.
LEMMA CallSimulates ==
  ASSUME RestingInv, EndInv, NEW p \in Procs, Call(p)
  PROVE  [LD!Next]_LD!vars
<1>0. IInv
  BY DEF RestingInv
<1>1. Deliveries' = Deliveries /\ exited' = exited /\ ~exited
  BY <1>0, CallHeap, CallStarts DEF Deliveries
<1>2. \A q \in Procs \ {p} : frame'[q].call = frame[q].call
  BY <1>0, OnlyMoves
<1>3. frame[p].call = 0
  BY <1>0, CallFrame DEF EndInv, CallOf
<1>4. CASE calls' = calls /\ frame'[p].call = 0
  <2>1. Status' = Status
    BY <1>2, <1>3, <1>4, StatusSame
  <2> QED BY <1>1, <2>1 DEF LD!vars
<1>5. CASE calls' = calls + 1 /\ frame'[p].call = calls + 1
  <2> DEFINE c == calls + 1
  <2>1. calls' = c /\ frame'[p].call = c /\ calls' <= MaxCalls
    BY <1>0, <1>5, CallStarts
  <2>2. PICK b : b = calls + 1
    OBVIOUS
  <2>3. /\ b \in 1..MaxCalls /\ Status[b] = "new"
        /\ Status' = [Status EXCEPT ![b] = "active"]
    BY <1>0, <1>2, <1>3, <2>1, <2>2, StatusStarts
  <2>4. LD!Start(b)
    BY <1>1, <2>3 DEF LD!Start
  <2> QED BY <2>3, <2>4 DEF LD!Next
<1> QED BY <1>0, <1>4, <1>5, CallFrame

LEMMA ConfigSimulates ==
  ASSUME RestingInv, Config
  PROVE  UNCHANGED LD!vars
<1>0. IInv
  BY DEF RestingInv
<1>1. sent' = sent /\ calls' = calls /\ \A q \in Procs : frame'[q].call = frame[q].call
  BY <1>0, ConfigHeap, ConfigFrames
<1>2. exited' = exited
  BY DEF Config, SetLevel, StoreHookLevel, AddHook, ReplaceHooks, SetBufferPool,
         SetReportCaller, SetOutput, SetNoLock, LockedSetter, Configure
<1>3. Status' = Status /\ Deliveries' = Deliveries
  BY <1>1, StatusSame DEF Deliveries
<1> QED BY <1>2, <1>3 DEF LD!vars

\* For any number of goroutines, calls, hooks, writers and failures, the logger delivers
\* as LogDelivery allows: every delivery carries the message of a call that has started
\* and not returned, hooks first and then at most one write, and none after the program
\* has exited (entry.go log, alt_exit.go Exit).
THEOREM DeliversAsPromised == Spec => ImplementsDelivery
<1>1. Init => LD!Init
  <2> SUFFICES ASSUME Init PROVE LD!Init
    OBVIOUS
  <2>1. calls = 0 /\ sent = <<>> /\ exited = FALSE
    BY DEF Init
  <2>2. Deliveries = <<>>
    BY <2>1 DEF Deliveries
  <2>3. Status = [c \in 1..MaxCalls |-> "new"]
    <3>1. \A c \in 1..MaxCalls : c > calls
      BY <2>1, ConstantsAssumption
    <3> QED BY <3>1 DEF Status, StatusOf
  <2> QED BY <2>1, <2>2, <2>3 DEF LD!Init
<1>2. RestingInv /\ LineInv /\ EndInv /\ [Next]_vars => [LD!Next]_LD!vars
  <2> SUFFICES ASSUME RestingInv, LineInv, EndInv, [Next]_vars
               PROVE  [LD!Next]_LD!vars
    OBVIOUS
  <2>1. CASE UNCHANGED vars
    BY <2>1 DEF vars, LD!vars, Status, StatusOf, Deliveries
  <2>2. CASE Next
    BY <2>2, CallSimulates, StepSimulates, ConfigSimulates DEF Next
  <2> QED BY <2>1, <2>2
<1> QED BY <1>1, <1>2, RestingInvariant, LineInvariant, EndInvariant, PTL
        DEF Spec, ImplementsDelivery, LD!Spec

------------------------------------------------------------------------------
(* The levels.  Of a call that returns, in a run where nothing fails.       *)

\* The levels that a call has seen, and its own.
Some(levels, l) == \E s \in levels : s >= l
SomeNot(levels, l) == \E s \in levels : s < l

\* The levels of now are among those that a call has seen, and so is the level that its
\* entry was given, which decides in the end; the way a call has gone shows in the levels.
SeenInv(p) ==
  LET f == frame[p] IN
  /\ pc[p] # "idle" /\ f.kind # "with" =>
       consoleLevel \in f.seen.console /\ hookLevel \in f.seen.hook
  /\ pc[p] \in Logging /\ f.kind # "with" /\ f.ent \in Entries /\ heap[f.ent].pooled =>
       heap[f.ent].consoleLevel \in f.seen.console
  /\ pc[p] \in HasNew => heap[f.new].consoleLevel \in f.seen.console
  /\ pc[p] = "checkHook" => SomeNot(f.seen.console, f.level)
  /\ pc[p] \in {"prepare", "hook"} /\ f.observed => Some(f.seen.hook, f.level)
  /\ pc[p] \in {"format", "lockOut", "waitOut", "write"} => Some(f.seen.console, f.level)
  /\ pc[p] = "derive" => f.kind = "with"

\* Nobody gets a line of a call that has never seen its level enabled.
NotSent(p, c) ==
  LET f == frame[p] IN
  /\ SinksOf(c) \cap Outs # {} => Some(f.seen.console, f.level)
  /\ SinksOf(c) \cap Hooks # {} => Some(f.seen.hook, f.level)

\* A call that has always seen it enabled has been written when it comes to its end, and
\* its hooks have fired, or will.
DidWrite(p, c) ==
  pc[p] \in {"putBuffer", "release"} /\ frame[p].kind # "with" =>
    SomeNot(frame[p].seen.console, frame[p].level) \/ SinksOf(c) \cap Outs # {}

DidFire(p, c) ==
  LET f == frame[p] IN
  /\ pc[p] \in HasNew \cup {"prepare", "release"} /\ f.kind # "with"
  /\ ~SomeNot(f.seen.hook, f.level)
  => \A i \in DOMAIN hooks[f.level] :
       \/ hooks[f.level][i] \in SinksOf(c)
       \/ /\ pc[p] \in {"prepare", "hook"}
          /\ \E j \in DOMAIN f.hooks : f.hooks[j] = hooks[f.level][i]

LevelInv == \A p \in Procs :
              /\ SeenInv(p)
              /\ \A c \in Nat : c > 0 /\ frame[p].call = c =>
                   NotSent(p, c) /\ DidWrite(p, c)

FiredInv == \A p \in Procs : \A c \in Nat : c > 0 /\ frame[p].call = c => DidFire(p, c)

------------------------------------------------------------------------------
(* What a step does to the level of an entry.                               *)

LEMMA StepConfig ==
  ASSUME NEW p \in Procs, Step(p)
  PROVE  /\ UNCHANGED <<consoleLevel, hookLevel, hooks>>
         /\ pc[p] # "idle"
  BY DEF Step, LoadConsole, LoadHook, NewEntry, Derive, Release, LockLog, WaitLog,
         Snapshot, Prepare, FireHook, GetBuffer, Format, LockOut, WaitOut, Write,
         PutBuffer, Exit, Lock, Steps, configVars

\* Where the steps lead.
LEMMA StepTo ==
  ASSUME TypeOK, NEW p \in Procs, Step(p)
  PROVE  /\ pc'[p] = "checkHook" => LoadConsole(p)
         /\ pc'[p] = "derive" => NewEntry(p) /\ frame[p].kind = "with"
         /\ pc'[p] = "prepare" => Snapshot(p)
         /\ pc'[p] = "hook" => Prepare(p) \/ FireHook(p)
         /\ pc'[p] = "format" => GetBuffer(p)
         /\ pc'[p] = "lockOut" => Format(p)
         /\ pc'[p] \in {"waitOut", "write"} => LockOut(p) \/ WaitOut(p)
         /\ pc'[p] = "putBuffer" => GetBuffer(p) \/ Format(p) \/ Write(p)
         /\ pc'[p] = "release" => LoadHook(p) \/ Derive(p) \/ PutBuffer(p)
         /\ pc'[p] = "idle" => frame'[p] = IdleFrame
<1> USE DEF GoTo, Steps, TypeOK
<1>1. CASE Return(p)
  BY <1>1 DEF Return
<1>2. CASE Finish(p) /\ ~Return(p)
  BY <1>2 DEF Finish
<1>3. CASE LoadConsole(p)
  <2>1. pc'[p] \in {"checkHook", "newEntry", "lockLog"}
    BY <1>3 DEF LoadConsole, Enabled
  <2> QED BY <1>3, <2>1
<1>4. CASE LoadHook(p)
  <2>1. pc'[p] \in {"newEntry", "lockLog", "release"} \/ Finish(p)
    BY <1>4 DEF LoadHook, Enabled
  <2> QED BY <1>1, <1>2, <1>4, <2>1
<1>5. CASE NewEntry(p)
  <2>1. CASE frame[p].kind = "with"
    BY <1>5, <2>1 DEF NewEntry
  <2>2. CASE frame[p].kind # "with"
    <3>1. pc'[p] \in {"lockLog", "checkConsole"}
      BY <1>5, <2>2 DEF NewEntry
    <3> QED BY <3>1
  <2> QED BY <2>1, <2>2
<1>6. CASE Derive(p) \/ Release(p) \/ Exit(p)
  BY <1>1, <1>2, <1>6 DEF Derive, Release, Exit
<1>7. CASE LockLog(p) \/ WaitLog(p) \/ Snapshot(p) \/ Prepare(p)
  <2>1. CASE Prepare(p)
    <3>1. pc'[p] \in {"hook", "getBuffer"}
      BY <2>1 DEF Prepare
    <3> QED BY <2>1, <3>1
  <2> QED BY <1>7, <2>1 DEF LockLog, WaitLog, Lock, Snapshot
<1>8. CASE FireHook(p)
  <2>1. pc'[p] \in {"hook", "getBuffer"} \/ Return(p)
    BY <1>8 DEF FireHook
  <2> QED BY <1>1, <1>8, <2>1
<1>9. CASE GetBuffer(p) \/ Format(p)
  <2>1. CASE GetBuffer(p)
    <3>1. pc'[p] \in {"format", "putBuffer"}
      BY <2>1 DEF GetBuffer
    <3> QED BY <2>1, <3>1
  <2>2. CASE Format(p)
    <3>1. pc'[p] \in {"lockOut", "putBuffer"}
      BY <2>2 DEF Format
    <3> QED BY <2>2, <3>1
  <2> QED BY <1>9, <2>1, <2>2
<1>10. CASE LockOut(p) \/ WaitOut(p) \/ Write(p)
  BY <1>10 DEF LockOut, WaitOut, Lock, Write
<1>11. CASE PutBuffer(p)
  <2>1. pc'[p] = "release" \/ Finish(p) \/ Return(p)
    BY <1>11 DEF PutBuffer
  <2> QED BY <1>1, <1>2, <1>11, <2>1
<1> QED BY <1>3, <1>4, <1>5, <1>6, <1>7, <1>8, <1>9, <1>10, <1>11 DEF Step

\* Firing a hook, taking a buffer and clearing leave the level of an entry.
LEMMA SameLevel ==
  ASSUME IInv, NEW p \in Procs, Step(p), ~NewEntry(p), ~Prepare(p), ~Derive(p),
         NEW e \in Entries
  PROVE  heap'[e].consoleLevel = heap[e].consoleLevel /\ heap'[e].pooled = heap[e].pooled
<1>0. TypeOK /\ heap[e] \in Entry
  BY DEF IInv, TypeOK
<1> DEFINE z(b) == [heap[e] EXCEPT !.buffer = b]
           y == [heap[e] EXCEPT !.data = @ \cup {"hook"}]
           x == Cleared(heap[e])
<1>1. \/ heap' = heap \/ Format(p)
      \/ \E d \in Entries : \/ \E b : heap' = [heap EXCEPT ![d].buffer = b]
                            \/ heap' = [heap EXCEPT ![d].data = @ \cup {"hook"}]
                            \/ heap' = [heap EXCEPT ![d] = Cleared(@)]
  <2>1. CASE FireHook(p) \/ GetBuffer(p) \/ PutBuffer(p)
    <3>1. frame[p].new \in Entries
      BY <2>1 DEF IInv, LocalInv, Local, HasNew, FireHook, GetBuffer, PutBuffer, Steps
    <3> QED BY <2>1, <3>1 DEF FireHook, GetBuffer, PutBuffer
  <2>2. CASE Release(p)
    <3>1. frame[p].ent \in Entries
      BY <2>2 DEF IInv, LocalInv, Local, HasEnt, Release, Steps
    <3> QED BY <2>2, <3>1 DEF Release
  <2>3. CASE ~(FireHook(p) \/ GetBuffer(p) \/ PutBuffer(p) \/ Release(p))
    BY <2>3 DEF Step, LoadConsole, LoadHook, LockLog, WaitLog, Snapshot, LockOut, WaitOut,
                Write, Exit
  <2> QED BY <2>1, <2>2, <2>3
<1>2. \/ heap'[e] = heap[e] \/ (\E b : heap'[e] = z(b)) \/ heap'[e] = y \/ heap'[e] = x
      \/ Format(p)
  BY <1>0, <1>1 DEF TypeOK
<1>3. /\ \A b : z(b).consoleLevel = heap[e].consoleLevel /\ z(b).pooled = heap[e].pooled
      /\ y.consoleLevel = heap[e].consoleLevel /\ y.pooled = heap[e].pooled
      /\ x.consoleLevel = heap[e].consoleLevel /\ x.pooled = heap[e].pooled
  BY <1>0 DEF Entry, Cleared
<1> HIDE DEF x, y, z
<1>4. CASE Format(p)
  BY <1>4, FormatOnly
<1> QED BY <1>2, <1>3, <1>4

\* A call that goes on has the entry it had, but for the one that newEntry gives it.
LEMMA StepEnt ==
  ASSUME IInv, NEW p \in Procs, Step(p), ~NewEntry(p), pc'[p] \in Logging
  PROVE  frame'[p].ent = frame[p].ent
<1> USE DEF GoTo, Steps
<1>0. TypeOK /\ frame[p] \in Frame
  BY DEF IInv, TypeOK
<1>1. ~Return(p) /\ ~Finish(p)
  BY <1>0 DEF Return, Finish, TypeOK, Logging, Before, HasNew
<1>2. CASE LoadConsole(p) \/ LoadHook(p) \/ Derive(p) \/ Release(p) \/ Exit(p)
  BY <1>0, <1>1, <1>2 DEF LoadConsole, LoadHook, Enabled, Derive, Release, Exit
<1>3. CASE LockLog(p) \/ WaitLog(p) \/ Snapshot(p) \/ Prepare(p)
  BY <1>0, <1>3 DEF LockLog, WaitLog, Snapshot, Prepare, TypeOK, Frame
<1>4. CASE pc[p] \in HasNew
  <2>1. CASE pc'[p] \in HasNew
    BY <1>4, <2>1, LineFrame
  <2>2. CASE pc'[p] \notin HasNew
    BY <1>4, <2>2, StepLabels DEF Logging, Before, HasNew
  <2> QED BY <2>1, <2>2
<1>5. CASE FireHook(p) \/ GetBuffer(p) \/ Format(p) \/ LockOut(p) \/ WaitOut(p) \/ Write(p)
           \/ PutBuffer(p)
  BY <1>4, <1>5 DEF FireHook, GetBuffer, Format, LockOut, WaitOut, Write, PutBuffer, Lock,
                    HasNew
<1> QED BY <1>2, <1>3, <1>5 DEF Step

\* The entry that newEntry gives has the level of now, and so has a copy.
LEMMA NewEntryLevel ==
  ASSUME IInv, NEW p \in Procs, NewEntry(p)
  PROVE  frame'[p].ent \in Entries /\ heap'[frame'[p].ent].consoleLevel = consoleLevel
<1>0. TypeOK /\ frame[p] \in Frame
  BY DEF IInv, TypeOK
<1>1. PICK e \in Entries : /\ heap' = [heap EXCEPT ![e] = Handed(e)]
                           /\ frame' = [frame EXCEPT ![p].ent = e]
  BY <1>0, FreshIn DEF NewEntry, UnusedEntries, TypeOK
<1>2. Handed(e).consoleLevel = consoleLevel
  <2>1. heap[e] \in Entry /\ ZeroEntry \in Entry
    BY <1>0, ZeroEntryType DEF TypeOK
  <2> QED BY <2>1 DEF Handed, Entry
<1> QED BY <1>0, <1>1, <1>2 DEF TypeOK, Frame

LEMMA PrepareLevel ==
  ASSUME IInv, NEW p \in Procs, Prepare(p)
  PROVE  /\ frame[p].ent \in Entries /\ frame'[p].new \in Entries
         /\ \/ heap'[frame'[p].new].consoleLevel = consoleLevel
            \/ /\ heap[frame[p].ent].pooled
               /\ heap'[frame'[p].new].consoleLevel = heap[frame[p].ent].consoleLevel
         /\ heap'[frame[p].ent].consoleLevel = heap[frame[p].ent].consoleLevel
         /\ heap'[frame[p].ent].pooled = heap[frame[p].ent].pooled
<1> DEFINE ent == frame[p].ent
<1>0. TypeOK /\ frame[p] \in Frame
  BY DEF IInv, TypeOK
<1>1. pc[p] = "prepare" /\ ent \in Entries /\ heap[ent] \in Entry
  BY DEF Prepare, Steps, IInv, LocalInv, Local, HasEnt, TypeOK
<1>2. PICK e \in Entries :
        /\ heap' = [heap EXCEPT ![e] = Stamped(IF e = ent THEN heap[e] ELSE Dup(heap[ent]), p)]
        /\ frame' = [frame EXCEPT ![p].new = e]
        /\ (e = ent /\ InPlace(p)) \/ e \in UnusedEntries
  BY <1>1, FreshIn DEF Prepare, UnusedEntries
<1>3. frame'[p].new = e
  BY <1>0, <1>2 DEF TypeOK, Frame
<1>4. \A x \in Entry : /\ Stamped(x, p).consoleLevel = x.consoleLevel
                       /\ Stamped(x, p).pooled = x.pooled
  BY DEF Stamped, Entry
<1>5. CASE e = ent /\ InPlace(p)
  <2>1. heap' = [heap EXCEPT ![ent] = Stamped(heap[ent], p)]
    BY <1>2, <1>5
  <2>2. heap'[ent] = Stamped(heap[ent], p)
    BY <1>0, <1>1, <2>1 DEF TypeOK
  <2>3. heap[ent].pooled
    BY <1>5 DEF InPlace, Pooled
  <2> QED BY <1>1, <1>3, <1>4, <1>5, <2>2, <2>3
<1>6. CASE e \in UnusedEntries
  <2>1. e # ent
    BY <1>6 DEF UnusedEntries
  <2>2. heap' = [heap EXCEPT ![e] = Stamped(Dup(heap[ent]), p)]
    BY <1>2, <2>1
  <2>3. Dup(heap[ent]) \in Entry /\ Dup(heap[ent]).consoleLevel = consoleLevel
    BY <1>0, <1>1, ZeroEntryType DEF Dup, Entry, TypeOK
  <2>4. heap'[e] = Stamped(Dup(heap[ent]), p) /\ heap'[ent] = heap[ent]
    BY <1>0, <1>1, <2>1, <2>2 DEF TypeOK
  <2> QED BY <1>1, <1>3, <1>4, <2>3, <2>4
<1> QED BY <1>2, <1>5, <1>6

------------------------------------------------------------------------------
(* The levels that a call has seen.                                         *)

LEMMA OthersSeen ==
  ASSUME IInv, NEW p \in Procs, Step(p), NEW q \in Procs \ {p}, SeenInv(q)
  PROVE  SeenInv(q)'
<1>1. pc'[q] = pc[q] /\ frame'[q] = frame[q] /\ UNCHANGED <<consoleLevel, hookLevel>>
  BY OnlyMoves, StepConfig
<1>2. frame[q].ent \in Entries => heap'[frame[q].ent] = heap[frame[q].ent]
  BY HeapKept DEF Holds
<1>3. pc[q] \in HasNew => heap'[frame[q].new] = heap[frame[q].new]
  BY HeapKept DEF IInv, LocalInv, Local, Holds
<1> QED BY <1>1, <1>2, <1>3 DEF SeenInv

\* The way of a call, by the label it comes to.
LEMMA StepSeen ==
  ASSUME IInv, NumberInv, NEW p \in Procs, Step(p), SeenInv(p)
  PROVE  SeenInv(p)'
<1> USE DEF GoTo, Steps
<1>0. TypeOK /\ LocalInv /\ frame[p] \in Frame
  BY DEF IInv, TypeOK
<1> DEFINE seen == frame[p].seen
           level == frame[p].level
<1>1. CASE frame'[p] = IdleFrame /\ pc'[p] = "idle"
  BY <1>1 DEF SeenInv, Logging, Before, HasNew
<1>2. CASE /\ frame'[p].kind = frame[p].kind /\ frame'[p].level = level
           /\ frame'[p].seen = seen /\ pc'[p] # "idle"
  <2>0. UNCHANGED <<consoleLevel, hookLevel>> /\ pc[p] # "idle"
    BY StepConfig
  <2>1. pc[p] # "idle" /\ frame[p].kind # "with" =>
          consoleLevel \in seen.console /\ hookLevel \in seen.hook
    BY DEF SeenInv
  <2>2. ASSUME pc'[p] \in Logging, frame[p].kind # "with", frame'[p].ent \in Entries,
               heap'[frame'[p].ent].pooled
        PROVE  heap'[frame'[p].ent].consoleLevel \in seen.console
    <3>1. CASE NewEntry(p)
      BY <2>0, <2>1, <2>2, <3>1, NewEntryLevel
    <3>2. CASE ~NewEntry(p)
      <4>1. frame'[p].ent = frame[p].ent /\ pc[p] \in Logging
        BY <2>2, <3>2, StepEnt, StepLabels
      <4>2. /\ heap'[frame[p].ent].consoleLevel = heap[frame[p].ent].consoleLevel
            /\ heap'[frame[p].ent].pooled = heap[frame[p].ent].pooled
        <5>1. CASE Derive(p)
          <6>1. pc'[p] \in {"release", "idle"}
            BY <1>0, <5>1 DEF Derive, Return, TypeOK
          <6> QED BY <2>2, <6>1 DEF Logging, Before, HasNew
        <5>2. CASE Prepare(p)
          BY <5>2, PrepareLevel
        <5> QED BY <2>2, <3>2, <4>1, <5>1, <5>2, SameLevel
      <4> QED BY <2>2, <4>1, <4>2 DEF SeenInv
    <3> QED BY <3>1, <3>2
  <2>3. ASSUME pc'[p] \in HasNew
        PROVE  heap'[frame'[p].new].consoleLevel \in seen.console
    <3>1. CASE Prepare(p)
      <4>1. pc[p] = "prepare"
        BY <3>1 DEF Prepare
      <4>2. frame[p].kind # "with" /\ pc[p] \in Logging
        BY <4>1 DEF NumberInv, Numbered, Logging, Before
      <4> QED BY <2>0, <2>1, <3>1, <4>2, PrepareLevel DEF SeenInv
    <3>2. CASE ~Prepare(p)
      <4>1. pc[p] \in HasNew
        BY <2>3, <3>2, StepLabels
      <4>2. frame'[p].new = frame[p].new /\ frame[p].new \in Entries
        BY <1>0, <2>3, <4>1, LineFrame DEF LocalInv, Local
      <4>3. ~NewEntry(p) /\ ~Derive(p)
        BY <4>1 DEF NewEntry, Derive, HasNew
      <4> QED BY <3>2, <4>1, <4>2, <4>3, SameLevel DEF SeenInv
    <3> QED BY <3>1, <3>2
  <2>4. pc'[p] = "checkHook" => SomeNot(seen.console, level)
    <3>1. CASE LoadConsole(p)
      <4>1. pc'[p] = "checkHook" => ~(consoleLevel >= level)
        BY <1>0, <3>1 DEF LoadConsole, Enabled, TypeOK
      <4>2. pc[p] = "checkConsole"
        BY <3>1 DEF LoadConsole
      <4>3. consoleLevel \in seen.console
        BY <2>1, <4>2 DEF NumberInv, Numbered, Logging, Before
      <4>4. consoleLevel \in Int /\ level \in Int
        BY <1>0 DEF TypeOK, Frame, Levels
      <4> QED BY <4>1, <4>3, <4>4 DEF SomeNot
    <3>2. CASE ~LoadConsole(p)
      <4>1. pc'[p] # "checkHook"
        BY <1>0, <3>2, StepTo DEF Labels
      <4> QED BY <4>1
    <3> QED BY <3>1, <3>2
  <2>5. pc'[p] \in {"prepare", "hook"} /\ frame'[p].observed => Some(seen.hook, level)
    <3>1. CASE Snapshot(p)
      <4>1. pc[p] = "snapshot" /\ frame'[p].observed = Observed(p)
        BY <1>0, <3>1 DEF Snapshot, TypeOK, Frame
      <4>2. hookLevel \in seen.hook
        BY <2>1, <4>1 DEF NumberInv, Numbered, Logging, Before
      <4> QED BY <4>1, <4>2 DEF Observed, Some
    <3>2. CASE Prepare(p)
      <4>1. pc[p] = "prepare" /\ frame'[p].observed = frame[p].observed
        BY <1>0, <3>2 DEF Prepare, TypeOK, Frame
      <4> QED BY <4>1 DEF SeenInv
    <3>3. CASE FireHook(p)
      <4>1. pc[p] = "hook"
        BY <3>3 DEF FireHook
      <4>2. CASE Return(p)
        BY <1>0, <1>2, <4>2 DEF Return, TypeOK
      <4>3. CASE \E hs : frame' = [frame EXCEPT ![p].hooks = hs]
        <5>1. frame'[p].observed = frame[p].observed
          BY <1>0, <4>3 DEF TypeOK, Frame
        <5> QED BY <4>1, <5>1 DEF SeenInv
      <4> QED BY <3>3, <4>2, <4>3 DEF FireHook
    <3>4. CASE ~Snapshot(p) /\ ~Prepare(p) /\ ~FireHook(p)
      BY <1>0, <3>4, StepTo
    <3> QED BY <3>1, <3>2, <3>3, <3>4
  <2>6. pc'[p] \in {"format", "lockOut", "waitOut", "write"} => Some(seen.console, level)
    <3>1. CASE GetBuffer(p)
      <4>1. pc[p] = "getBuffer"
            /\ (pc'[p] = "format" => heap[frame[p].new].consoleLevel >= level)
            /\ pc'[p] \in {"format", "putBuffer"}
        BY <1>0, <3>1 DEF GetBuffer, TypeOK
      <4>2. heap[frame[p].new].consoleLevel \in seen.console
        BY <4>1 DEF SeenInv, HasNew
      <4> QED BY <4>1, <4>2 DEF Some
    <3>2. CASE Format(p) \/ LockOut(p) \/ WaitOut(p)
      BY <3>2 DEF Format, LockOut, WaitOut, Lock, SeenInv
    <3>3. CASE ~GetBuffer(p) /\ ~Format(p) /\ ~LockOut(p) /\ ~WaitOut(p)
      BY <1>0, <3>3, StepTo
    <3> QED BY <3>1, <3>2, <3>3
  <2>7. pc'[p] = "derive" => frame[p].kind = "with"
    <3>1. CASE NewEntry(p)
      BY <1>0, <3>1, StepTo
    <3>2. CASE ~NewEntry(p)
      BY <1>0, <3>2, StepTo
    <3> QED BY <3>1, <3>2
  <2> HIDE DEF seen, level
  <2> QED BY <1>2, <2>0, <2>1, <2>2, <2>3, <2>4, <2>5, <2>6, <2>7 DEF SeenInv, seen, level
<1>3. pc'[p] = "idle" => frame'[p] = IdleFrame
  BY <1>0, StepTo
<1> QED BY <1>1, <1>2, <1>3, StepCalls

------------------------------------------------------------------------------
(* What has been delivered.                                                 *)

\* A frame that keeps its call, its level and what it has seen.
Goes(p) == /\ frame'[p].kind = frame[p].kind /\ frame'[p].level = frame[p].level
           /\ frame'[p].seen = frame[p].seen

LEMMA StepNotSent ==
  ASSUME IInv, NumberInv, NEW p \in Procs, Step(p), SeenInv(p), Goes(p),
         NEW c \in Nat, c > 0, frame[p].call = c, NotSent(p, c)
  PROVE  NotSent(p, c)'
<1>0. TypeOK /\ LocalInv
  BY DEF IInv
<1>1. CASE sent' = sent
  <2>1. SinksOf(c)' = SinksOf(c)
    BY <1>1 DEF SinksOf
  <2> QED BY <2>1 DEF NotSent, Goes
<1>2. ASSUME NEW d, d.by = c, sent' = Append(sent, d),
             \/ d.sink \in Hooks /\ Some(frame[p].seen.hook, frame[p].level)
             \/ d.sink \in Outs /\ Some(frame[p].seen.console, frame[p].level)
      PROVE  NotSent(p, c)'
  <2>1. SinksOf(c)' = SinksOf(c) \cup {d.sink}
    BY <1>0, <1>2, SinksAppend
  <2>2. Hooks \cap Outs = {}
    BY ConstantsAssumption
  <2> QED BY <1>2, <2>1, <2>2 DEF NotSent, Goes
<1>3. CASE FireHook(p)
  <2> DEFINE h == Head(frame[p].hooks)
             d == [by |-> frame[p].call, sink |-> h, user |-> ~Pooled(p),
                   line |-> <<LineOf(heap[frame[p].new])>>]
  <2>1. sent' = Append(sent, d) /\ h \in Hooks /\ pc[p] = "hook"
    BY <1>3, FireSends
  <2>2. frame[p].observed
    BY <1>0, <2>1 DEF LocalInv, Local
  <2>3. Some(frame[p].seen.hook, frame[p].level)
    BY <2>1, <2>2 DEF SeenInv
  <2>4. d.by = c /\ d.sink = h
    OBVIOUS
  <2> HIDE DEF d, h
  <2> QED BY <1>2, <2>1, <2>3, <2>4
<1>4. CASE Write(p)
  <2>1. Some(frame[p].seen.console, frame[p].level)
    BY <1>4 DEF Write, Steps, SeenInv
  <2> QED BY <1>1, <1>2, <1>4, <2>1, WriteSends
<1> QED BY <1>1, <1>3, <1>4, OthersSendNothing

\* With writers and formatters that succeed, a call comes to its end with its line
\* written, unless its level was found disabled.
LEMMA StepDidWrite ==
  ASSUME Outcomes \subseteq {"ok"}, IInv, NEW p \in Procs, Step(p), SeenInv(p), Goes(p),
         NEW c \in Nat, c > 0, frame[p].call = c, DidWrite(p, c)
  PROVE  DidWrite(p, c)'
<1> USE DEF GoTo, Steps
<1>0. TypeOK /\ LocalInv
  BY DEF IInv
<1>1. SinksOf(c) \subseteq SinksOf(c)'
  <2>1. CASE sent' = sent
    BY <2>1 DEF SinksOf
  <2>2. CASE \E d : sent' = Append(sent, d)
    BY <1>0, <2>2, SinksAppend
  <2> QED BY <2>1, <2>2, FireSends, WriteSends, OthersSendNothing
<1>2. CASE pc'[p] \notin {"putBuffer", "release"}
  BY <1>2 DEF DidWrite
<1>3. CASE GetBuffer(p) /\ pc'[p] = "putBuffer"
  <2>1. pc[p] = "getBuffer" /\ ~(heap[frame[p].new].consoleLevel >= frame[p].level)
    BY <1>0, <1>3 DEF GetBuffer, TypeOK
  <2>2. /\ heap[frame[p].new].consoleLevel \in frame[p].seen.console
        /\ heap[frame[p].new].consoleLevel \in Int /\ frame[p].level \in Int
    <3>1. frame[p].new \in Entries
      BY <1>0, <2>1 DEF LocalInv, Local, HasNew
    <3>2. heap[frame[p].new] \in Entry /\ frame[p] \in Frame
      BY <1>0, <3>1 DEF TypeOK
    <3> QED BY <2>1, <3>2 DEF SeenInv, HasNew, Entry, Frame, Levels
  <2> QED BY <2>1, <2>2 DEF DidWrite, SomeNot, Goes
<1>4. CASE Format(p) /\ pc'[p] = "putBuffer"
  BY <1>0, <1>4 DEF Format, TypeOK
<1>5. CASE Write(p)
  <2> DEFINE d == [by |-> frame[p].call, sink |-> frame[p].out, user |-> ~Pooled(p),
                   line |-> Serialized(p)]
  <2>1. sent' = Append(sent, d)
    BY <1>5 DEF Write
  <2>2. frame[p].out \in Outs /\ d.by = c /\ d.sink = frame[p].out
    BY <1>5, WriteSends
  <2> HIDE DEF d
  <2>3. SinksOf(c)' = SinksOf(c) \cup {d.sink}
    BY <1>0, <2>1, <2>2, SinksAppend
  <2> QED BY <2>2, <2>3 DEF DidWrite
<1>6. CASE LoadHook(p)
  BY <1>6 DEF LoadHook, SeenInv, DidWrite, Goes
<1>7. CASE Derive(p)
  BY <1>7 DEF Derive, SeenInv, DidWrite, Goes
<1>8. CASE PutBuffer(p)
  BY <1>1, <1>8 DEF PutBuffer, DidWrite, Goes
<1> QED BY <1>0, <1>2, <1>3, <1>4, <1>5, <1>6, <1>7, <1>8, StepTo

\* And with its hooks fired, if they stay registered.
LEMMA StepDidFire ==
  ASSUME Outcomes \subseteq {"ok"}, IInv, NumberInv, NEW p \in Procs, Step(p), SeenInv(p),
         Goes(p), NEW c \in Nat, c > 0, frame[p].call = c, DidFire(p, c)
  PROVE  DidFire(p, c)'
<1> USE DEF GoTo, Steps
<1> DEFINE f == frame[p]
           hs == hooks[f.level]
<1>0. TypeOK /\ LocalInv /\ f \in Frame
  BY DEF IInv, TypeOK
<1>1. hooks' = hooks /\ pc[p] # "idle"
  BY StepConfig
<1>2. SinksOf(c) \subseteq SinksOf(c)'
  <2>1. CASE sent' = sent
    BY <2>1 DEF SinksOf
  <2>2. CASE \E d : sent' = Append(sent, d)
    BY <1>0, <2>2, SinksAppend
  <2> QED BY <2>1, <2>2, FireSends, WriteSends, OthersSendNothing
<1> SUFFICES ASSUME pc'[p] \in HasNew \cup {"prepare", "release"}, f.kind # "with",
                    ~SomeNot(f.seen.hook, f.level), NEW i \in DOMAIN hs
             PROVE  \/ hs[i] \in SinksOf(c)'
                    \/ /\ pc'[p] \in {"prepare", "hook"}
                       /\ \E j \in DOMAIN frame'[p].hooks : frame'[p].hooks[j] = hs[i]
  BY <1>1 DEF DidFire, Goes
<1>3. CASE Snapshot(p)
  <2>1. /\ pc[p] = "snapshot" /\ pc'[p] = "prepare"
        /\ frame'[p].hooks = IF Observed(p) THEN hs ELSE <<>>
    BY <1>0, <1>3 DEF Snapshot, TypeOK, Frame
  <2>2. hookLevel \in f.seen.hook /\ hookLevel \in Int /\ f.level \in Levels /\ f.level \in Int
    BY <1>0, <1>1 DEF SeenInv, TypeOK, Frame, Levels
  <2>3. hookLevel >= f.level
    BY <2>2 DEF SomeNot
  <2>4. hooks # NoHooks
    <3>1. hooks = NoHooks => hs = <<>>
      BY <2>2 DEF NoHooks
    <3>2. DOMAIN <<>> = {}
      OBVIOUS
    <3> QED BY <3>1, <3>2
  <2>5. frame'[p].hooks = hs
    BY <2>1, <2>3, <2>4 DEF Observed
  <2> QED BY <2>1, <2>5
<1>4. CASE Prepare(p)
  <2>1. /\ pc[p] = "prepare" /\ frame'[p].hooks = f.hooks
        /\ pc'[p] = IF f.hooks = <<>> THEN "getBuffer" ELSE "hook"
    BY <1>0, <1>4 DEF Prepare, TypeOK, Frame
  <2>2. hs[i] \in SinksOf(c) \/ \E j \in DOMAIN f.hooks : f.hooks[j] = hs[i]
    BY <2>1 DEF DidFire
  <2>3. f.hooks = <<>> => DOMAIN f.hooks = {}
    OBVIOUS
  <2> QED BY <1>2, <2>1, <2>2, <2>3
<1>5. CASE FireHook(p)
  <2> DEFINE h == Head(f.hooks)
             d == [by |-> f.call, sink |-> h, user |-> ~Pooled(p),
                   line |-> <<LineOf(heap[f.new])>>]
  <2>1. /\ pc[p] = "hook" /\ sent' = Append(sent, d)
        /\ pc'[p] = IF Len(f.hooks) = 1 THEN "getBuffer" ELSE "hook"
        /\ frame' = [frame EXCEPT ![p].hooks = Tail(@)]
    BY <1>0, <1>5 DEF FireHook, TypeOK
  <2>2. f.hooks \in Seq(Hooks) /\ f.hooks # <<>> /\ frame'[p].hooks = Tail(f.hooks)
    BY <1>0, <2>1 DEF LocalInv, Local, TypeOK, Frame
  <2>3. d.by = c /\ d.sink = h
    OBVIOUS
  <2> HIDE DEF d
  <2>4. h \in SinksOf(c)'
    BY <1>0, <2>1, <2>3, SinksAppend
  <2>5. hs[i] \in SinksOf(c) \/ \E j \in DOMAIN f.hooks : f.hooks[j] = hs[i]
    BY <2>1 DEF DidFire, HasNew
  <2>6. ASSUME NEW j \in DOMAIN f.hooks, f.hooks[j] = hs[i], j # 1
        PROVE  /\ Len(f.hooks) # 1
               /\ \E k \in DOMAIN frame'[p].hooks : frame'[p].hooks[k] = hs[i]
    <3>1. j \in 1..Len(f.hooks) /\ Len(f.hooks) \in Nat
      BY <2>2, <2>6, LenProperties
    <3>2. Len(f.hooks) # 1 /\ j - 1 \in 1..(Len(f.hooks) - 1)
      BY <2>6, <3>1
    <3>3. /\ Tail(f.hooks) \in Seq(Hooks) /\ Len(Tail(f.hooks)) = Len(f.hooks) - 1
          /\ \A k \in 1..Len(Tail(f.hooks)) : Tail(f.hooks)[k] = f.hooks[k + 1]
      BY <2>2, HeadTailProperties
    <3>4. DOMAIN Tail(f.hooks) = 1..Len(Tail(f.hooks))
      BY <3>3, LenProperties
    <3>5. j - 1 \in DOMAIN Tail(f.hooks) /\ Tail(f.hooks)[j - 1] = f.hooks[j]
      BY <3>1, <3>2, <3>3, <3>4
    <3> QED BY <2>2, <2>6, <3>2, <3>5
  <2>7. f.hooks[1] = h
    BY <2>2
  <2> QED BY <1>2, <2>1, <2>4, <2>5, <2>6, <2>7
<1>6. CASE LoadHook(p)
  <2>1. pc[p] = "checkHook" /\ pc'[p] = "release" => ~(hookLevel >= f.level)
    BY <1>0, <1>6 DEF LoadHook, Enabled, TypeOK
  <2>2. pc[p] = "checkHook" /\ pc'[p] = "release"
    <3>1. pc'[p] \in {"newEntry", "lockLog", "release"} \/ Finish(p)
      BY <1>0, <1>6 DEF LoadHook, Enabled, TypeOK
    <3>2. Finish(p) => pc'[p] \in {"idle", "exit"}
      BY <1>0 DEF Finish, Return, TypeOK
    <3> QED BY <1>6, <3>1, <3>2 DEF LoadHook, HasNew
  <2>3. hookLevel \in f.seen.hook /\ hookLevel \in Int /\ f.level \in Int
    BY <1>0, <1>1 DEF SeenInv, TypeOK, Frame, Levels
  <2> QED BY <2>1, <2>2, <2>3 DEF SomeNot
<1>7. CASE Derive(p)
  BY <1>7 DEF Derive, SeenInv
<1>8. CASE pc[p] \in HasNew \ {"hook"}
  <2>1. hs[i] \in SinksOf(c)
    BY <1>8 DEF DidFire, HasNew
  <2> QED BY <1>2, <2>1
<1>9. pc[p] \in HasNew \ {"hook"} \/ Snapshot(p) \/ Prepare(p) \/ FireHook(p) \/ LoadHook(p)
      \/ Derive(p)
  <2>1. pc'[p] = "getBuffer" => Prepare(p) \/ FireHook(p)
    <3>1. pc'[p] = "getBuffer" => pc[p] \in HasNew \/ Prepare(p)
      BY StepLabels DEF HasNew
    <3>2. pc[p] \in HasNew \ {"hook"} /\ pc'[p] = "getBuffer" => FALSE
      <4> SUFFICES ASSUME pc[p] \in HasNew \ {"hook"}, pc'[p] = "getBuffer" PROVE FALSE
        OBVIOUS
      <4>1. ~Return(p) /\ ~Finish(p)
        BY <1>0 DEF Return, Finish, TypeOK
      <4>2. GetBuffer(p) \/ Format(p) \/ LockOut(p) \/ WaitOut(p) \/ Write(p) \/ PutBuffer(p)
        BY DEF HasNew, Step, LoadConsole, LoadHook, NewEntry, Derive, Release, LockLog,
               WaitLog, Lock, Snapshot, Prepare, FireHook, Exit
      <4>3. CASE GetBuffer(p)
        BY <1>0, <4>3 DEF GetBuffer, TypeOK
      <4>4. CASE Format(p)
        BY <1>0, <4>4 DEF Format, TypeOK
      <4>5. CASE LockOut(p) \/ WaitOut(p) \/ Write(p)
        BY <1>0, <4>5 DEF LockOut, WaitOut, Lock, Write, TypeOK
      <4>6. CASE PutBuffer(p)
        BY <1>0, <4>1, <4>6 DEF PutBuffer, TypeOK
      <4> QED BY <4>2, <4>3, <4>4, <4>5, <4>6
    <3>3. pc[p] = "hook" => FireHook(p)
      BY DEF Step, LoadConsole, LoadHook, NewEntry, Derive, Release, LockLog, WaitLog, Lock,
             Snapshot, Prepare, GetBuffer, Format, LockOut, WaitOut, Write, PutBuffer, Exit
    <3> QED BY <3>1, <3>2, <3>3
  <2>2. GetBuffer(p) \/ Format(p) \/ LockOut(p) \/ WaitOut(p) \/ Write(p) \/ PutBuffer(p)
          => pc[p] \in HasNew \ {"hook"}
    BY DEF GetBuffer, Format, LockOut, WaitOut, Lock, Write, PutBuffer, HasNew
  <2> QED BY <1>0, <2>1, <2>2, StepTo DEF HasNew
<1> QED BY <1>3, <1>4, <1>5, <1>6, <1>7, <1>8, <1>9

------------------------------------------------------------------------------
(* Calls and setters.                                                       *)

LEMMA CallSeen ==
  ASSUME IInv, SentInv, LevelInv, NEW p \in Procs, Call(p)
  PROVE  LevelInv' /\ (FiredInv => FiredInv')
<1>1. UNCHANGED <<heap, sent, users, consoleLevel, hookLevel, hooks>>
  BY CallHeap DEF Call, LoggerCall, PrintCall, WarnfCall, EntryCall, WithCall, Begin,
                  configVars
<1>2. \A q \in Procs \ {p} : pc'[q] = pc[q] /\ frame'[q] = frame[q]
  BY OnlyMoves
<1>3. \A c : SinksOf(c)' = SinksOf(c)
  BY <1>1 DEF SinksOf
<1>4. ASSUME NEW q \in Procs \ {p}
      PROVE  /\ SeenInv(q)'
             /\ \A c \in Nat : c > 0 /\ frame'[q].call = c =>
                  NotSent(q, c)' /\ DidWrite(q, c)' /\ (FiredInv => DidFire(q, c)')
  <2>1. SeenInv(q) /\ \A c \in Nat : c > 0 /\ frame[q].call = c =>
          NotSent(q, c) /\ DidWrite(q, c) /\ (FiredInv => DidFire(q, c))
    BY DEF LevelInv, FiredInv
  <2>2. SeenInv(q)'
    BY <1>1, <1>2, <2>1 DEF SeenInv
  <2>3. ASSUME NEW c \in Nat, c > 0, frame'[q].call = c
        PROVE  NotSent(q, c)' /\ DidWrite(q, c)' /\ (FiredInv => DidFire(q, c)')
    <3>1. /\ NotSent(q, c) /\ DidWrite(q, c) /\ (FiredInv => DidFire(q, c))
          /\ SinksOf(c)' = SinksOf(c)
      BY <1>2, <1>3, <2>1, <2>3
    <3> QED BY <1>1, <1>2, <3>1 DEF NotSent, DidWrite, DidFire
  <2> QED BY <2>2, <2>3
<1>5. pc'[p] \in {"checkConsole", "newEntry", "derive"}
  BY CallFrame
<1>6. SeenInv(p)'
  <2>1. frame'[p].ent \in Entries => ~heap[frame'[p].ent].pooled
    BY CallFrame, ConstantsAssumption DEF IInv, OwnInv
  <2>2. frame'[p].kind = "with" \/ frame'[p].seen = [console |-> {consoleLevel}, hook |-> {hookLevel}]
    BY CallFrame
  <2>3. pc'[p] = "derive" => frame'[p].kind = "with"
    BY CallFrame
  <2> QED BY <1>1, <1>5, <2>1, <2>2, <2>3 DEF SeenInv, HasNew
<1>7. ASSUME NEW c \in Nat, c > 0, frame'[p].call = c
      PROVE  NotSent(p, c)' /\ DidWrite(p, c)' /\ DidFire(p, c)'
  <2>1. c = calls + 1
    BY <1>7, CallFrame
  <2>2. SinksOf(c) = {}
    BY <2>1 DEF IInv, TypeOK, SentInv, SinksOf
  <2>3. SinksOf(c)' = {}
    BY <1>3, <2>2
  <2> QED BY <1>5, <2>3 DEF NotSent, DidWrite, DidFire, HasNew
<1> QED BY <1>4, <1>6, <1>7, SMTT(30) DEF LevelInv, FiredInv

\* A setter of levels tells all calls in progress; the others leave the levels alone.
LEMMA ConfigSees ==
  ASSUME IInv, Config, NEW q \in Procs
  PROVE  /\ frame'[q].level = frame[q].level /\ frame'[q].hooks = frame[q].hooks
         /\ frame'[q].observed = frame[q].observed
         /\ frame[q].seen.console \subseteq frame'[q].seen.console
         /\ frame[q].seen.hook \subseteq frame'[q].seen.hook
         /\ \/ UNCHANGED <<consoleLevel, hookLevel>>
            \/ pc[q] = "idle"
            \/ consoleLevel' \in frame'[q].seen.console /\ hookLevel' \in frame'[q].seen.hook
<1>0. TypeOK /\ frame[q] \in Frame
  BY DEF IInv, TypeOK
<1>1. \/ UNCHANGED <<consoleLevel, hookLevel, frame>>
      \/ Witness(consoleLevel', hookLevel')
  <2>1. CASE SetLevel
    BY <2>1 DEF SetLevel
  <2>2. CASE StoreHookLevel
    BY <2>2 DEF StoreHookLevel
  <2>3. CASE ~SetLevel /\ ~StoreHookLevel
    BY <2>3 DEF Config, AddHook, ReplaceHooks, SetBufferPool, SetReportCaller, SetOutput,
                SetNoLock, LockedSetter, configVars
  <2> QED BY <2>1, <2>2, <2>3
<1>2. CASE UNCHANGED <<consoleLevel, hookLevel, frame>>
  BY <1>2
<1>3. CASE Witness(consoleLevel', hookLevel')
  <2> DEFINE s == [frame[q] EXCEPT !.seen.console = @ \cup {consoleLevel'},
                                   !.seen.hook = @ \cup {hookLevel'}]
  <2>1. frame'[q] = IF pc[q] = "idle" THEN frame[q] ELSE s
    BY <1>3 DEF Witness
  <2>2. /\ s.level = frame[q].level /\ s.hooks = frame[q].hooks
        /\ s.observed = frame[q].observed
        /\ s.seen.console = frame[q].seen.console \cup {consoleLevel'}
        /\ s.seen.hook = frame[q].seen.hook \cup {hookLevel'}
    BY <1>0 DEF Frame
  <2> HIDE DEF s
  <2> QED BY <2>1, <2>2
<1> QED BY <1>1, <1>2, <1>3

LEMMA ConfigSeen ==
  ASSUME IInv, LevelInv, Config
  PROVE  LevelInv'
<1>1. UNCHANGED <<heap, sent, pc>>
  BY ConfigHeap
<1>2. \A c : SinksOf(c)' = SinksOf(c)
  BY <1>1 DEF SinksOf
<1> SUFFICES ASSUME NEW q \in Procs
             PROVE  /\ SeenInv(q)'
                    /\ \A c \in Nat : c > 0 /\ frame'[q].call = c =>
                         NotSent(q, c)' /\ DidWrite(q, c)'
  BY DEF LevelInv
<1>3. /\ frame'[q].ent = frame[q].ent /\ frame'[q].new = frame[q].new
      /\ frame'[q].call = frame[q].call /\ frame'[q].kind = frame[q].kind
  BY ConfigFrames
<1>4. /\ frame'[q].level = frame[q].level /\ frame'[q].observed = frame[q].observed
      /\ frame[q].seen.console \subseteq frame'[q].seen.console
      /\ frame[q].seen.hook \subseteq frame'[q].seen.hook
      /\ \/ UNCHANGED <<consoleLevel, hookLevel>>
         \/ pc[q] = "idle"
         \/ consoleLevel' \in frame'[q].seen.console /\ hookLevel' \in frame'[q].seen.hook
  BY ConfigSees
<1>5. /\ \A l : Some(frame[q].seen.console, l) => Some(frame'[q].seen.console, l)
      /\ \A l : Some(frame[q].seen.hook, l) => Some(frame'[q].seen.hook, l)
      /\ \A l : SomeNot(frame[q].seen.console, l) => SomeNot(frame'[q].seen.console, l)
  BY <1>4 DEF Some, SomeNot
<1>6. SeenInv(q)'
  <2>1. SeenInv(q)
    BY DEF LevelInv
  <2> QED BY <1>1, <1>3, <1>4, <1>5, <2>1 DEF SeenInv
<1>7. ASSUME NEW c \in Nat, c > 0, frame'[q].call = c
      PROVE  NotSent(q, c)' /\ DidWrite(q, c)'
  <2>1. NotSent(q, c) /\ DidWrite(q, c) /\ SinksOf(c)' = SinksOf(c)
    BY <1>2, <1>3, <1>7 DEF LevelInv
  <2> QED BY <1>1, <1>3, <1>4, <1>5, <2>1 DEF NotSent, DidWrite
<1> QED BY <1>6, <1>7

LEMMA ConfigFires ==
  ASSUME {"addHook", "replaceHooks"} \cap ConfigOps = {}, IInv, FiredInv, Config
  PROVE  FiredInv'
<1>1. UNCHANGED <<sent, pc>>
  BY ConfigHeap
<1>2. hooks' = hooks
  BY DEF Config, SetLevel, StoreHookLevel, AddHook, ReplaceHooks, SetBufferPool,
         SetReportCaller, SetOutput, SetNoLock, LockedSetter, Configure, configVars
<1> SUFFICES ASSUME NEW q \in Procs, NEW c \in Nat, c > 0, frame'[q].call = c
             PROVE  DidFire(q, c)'
  BY DEF FiredInv
<1>3. frame'[q].call = frame[q].call /\ frame'[q].kind = frame[q].kind
  BY ConfigFrames
<1>4. /\ frame'[q].level = frame[q].level /\ frame'[q].hooks = frame[q].hooks
      /\ frame[q].seen.hook \subseteq frame'[q].seen.hook
  BY ConfigSees
<1>5. DidFire(q, c) /\ SinksOf(c)' = SinksOf(c)
  BY <1>1, <1>3 DEF FiredInv, SinksOf
<1>6. \A l : SomeNot(frame[q].seen.hook, l) => SomeNot(frame'[q].seen.hook, l)
  BY <1>4 DEF SomeNot
<1> QED BY <1>1, <1>2, <1>3, <1>4, <1>5, <1>6 DEF DidFire

\* The steps of one frame, for all frames.
LEMMA StepLevel ==
  ASSUME Outcomes \subseteq {"ok"}, IInv, NumberInv, LevelInv, NEW p \in Procs, Step(p)
  PROVE  LevelInv'
<1> SUFFICES ASSUME NEW q \in Procs
             PROVE  /\ SeenInv(q)'
                    /\ \A c \in Nat : c > 0 /\ frame'[q].call = c =>
                         NotSent(q, c)' /\ DidWrite(q, c)'
  BY DEF LevelInv
<1>1. SeenInv(q)'
  BY OthersSeen, StepSeen DEF LevelInv
<1>2. ASSUME NEW c \in Nat, c > 0, frame'[q].call = c
      PROVE  NotSent(q, c)' /\ DidWrite(q, c)'
  <2>1. CASE q = p
    <3>1. Goes(p) /\ frame[p].call = c
      BY <1>2, <2>1, StepCalls DEF Goes, IdleFrame
    <3>2. SeenInv(p) /\ NotSent(p, c) /\ DidWrite(p, c)
      BY <1>2, <3>1 DEF LevelInv
    <3>3. NotSent(p, c)'
      BY <1>2, <3>1, <3>2, StepNotSent
    <3>4. DidWrite(p, c)'
      BY <1>2, <3>1, <3>2, StepDidWrite
    <3> QED BY <2>1, <3>3, <3>4
  <2>2. CASE q # p
    <3>1. pc'[q] = pc[q] /\ frame'[q] = frame[q]
      BY <2>2, OnlyMoves
    <3>2. SinksOf(c)' = SinksOf(c)
      BY <1>2, <2>2, <3>1, OthersSinks
    <3>3. NotSent(q, c) /\ DidWrite(q, c)
      BY <1>2, <3>1 DEF LevelInv
    <3> QED BY <3>1, <3>2, <3>3 DEF NotSent, DidWrite
  <2> QED BY <2>1, <2>2
<1> QED BY <1>1, <1>2

LEMMA StepFires ==
  ASSUME Outcomes \subseteq {"ok"}, IInv, NumberInv, LevelInv, FiredInv, NEW p \in Procs,
         Step(p)
  PROVE  FiredInv'
<1> SUFFICES ASSUME NEW q \in Procs, NEW c \in Nat, c > 0, frame'[q].call = c
             PROVE  DidFire(q, c)'
  BY DEF FiredInv
<1>1. CASE q = p
  <2>1. Goes(p) /\ frame[p].call = c
    BY <1>1, StepCalls DEF Goes, IdleFrame
  <2> QED BY <1>1, <2>1, StepDidFire DEF LevelInv, FiredInv
<1>2. CASE q # p
  <2>1. pc'[q] = pc[q] /\ frame'[q] = frame[q] /\ hooks' = hooks
    BY <1>2, OnlyMoves, StepConfig
  <2>2. SinksOf(c)' = SinksOf(c)
    BY <1>2, <2>1, OthersSinks
  <2>3. DidFire(q, c)
    BY <2>1 DEF FiredInv
  <2> QED BY <2>1, <2>2, <2>3 DEF DidFire
<1> QED BY <1>1, <1>2

LEMMA StaySeen ==
  ASSUME LevelInv, UNCHANGED vars
  PROVE  LevelInv' /\ (FiredInv => FiredInv')
<1>1. UNCHANGED <<consoleLevel, hookLevel, hooks, heap, pc, frame, sent>>
  BY DEF vars, configVars
<1>2. \A c : SinksOf(c)' = SinksOf(c)
  BY <1>1 DEF SinksOf
<1>3. LevelInv'
  BY <1>1, <1>2 DEF LevelInv, SeenInv, NotSent, DidWrite
<1>4. FiredInv => FiredInv'
  BY <1>1, <1>2 DEF FiredInv, DidFire
<1> QED BY <1>3, <1>4

------------------------------------------------------------------------------
(* The theorems.                                                            *)

LEMMA InitLevels == Init => LevelInv /\ FiredInv
<1> SUFFICES ASSUME Init PROVE LevelInv /\ FiredInv
  OBVIOUS
<1>1. \A p \in Procs : pc[p] = "idle" /\ frame[p].call = 0
  BY DEF Init, IdleFrame
<1>2. \A p \in Procs : SeenInv(p)
  BY <1>1 DEF SeenInv, Logging, Before, HasNew
<1> QED BY <1>1, <1>2 DEF LevelInv, FiredInv

\* Without failures LevelInv is invariant; the hooks also have to stay registered for
\* FiredInv.
LEMMA LevelsInvariant ==
  ASSUME Outcomes \subseteq {"ok"}
  PROVE  Spec => []LevelInv
<1>1. Init => LevelInv
  BY InitLevels
<1>2. RestingInv /\ LineInv /\ LevelInv /\ [Next]_vars => LevelInv'
  <2> SUFFICES ASSUME RestingInv, LineInv, LevelInv, [Next]_vars PROVE LevelInv'
    OBVIOUS
  <2>0. IInv /\ NumberInv /\ SentInv
    BY DEF RestingInv, LineInv
  <2>1. CASE UNCHANGED vars
    BY <2>1, StaySeen
  <2>2. ASSUME NEW p \in Procs, Call(p) PROVE LevelInv'
    BY <2>0, <2>2, CallSeen
  <2>3. ASSUME NEW p \in Procs, Step(p) PROVE LevelInv'
    BY <2>0, <2>3, StepLevel
  <2>4. CASE Config
    BY <2>0, <2>4, ConfigSeen
  <2> QED BY <2>1, <2>2, <2>3, <2>4 DEF Next
<1> QED BY <1>1, <1>2, RestingInvariant, LineInvariant, PTL DEF Spec

LEMMA FiresInvariant ==
  ASSUME Outcomes \subseteq {"ok"}, {"addHook", "replaceHooks"} \cap ConfigOps = {}
  PROVE  Spec => []FiredInv
<1>1. Init => FiredInv
  BY InitLevels
<1>2. RestingInv /\ LineInv /\ LevelInv /\ FiredInv /\ [Next]_vars => FiredInv'
  <2> SUFFICES ASSUME RestingInv, LineInv, LevelInv, FiredInv, [Next]_vars PROVE FiredInv'
    OBVIOUS
  <2>0. IInv /\ NumberInv /\ SentInv
    BY DEF RestingInv, LineInv
  <2>1. CASE UNCHANGED vars
    BY <2>1, StaySeen
  <2>2. ASSUME NEW p \in Procs, Call(p) PROVE FiredInv'
    BY <2>0, <2>2, CallSeen
  <2>3. ASSUME NEW p \in Procs, Step(p) PROVE FiredInv'
    BY <2>0, <2>3, StepFires
  <2>4. CASE Config
    BY <2>0, <2>4, ConfigFires
  <2> QED BY <2>1, <2>2, <2>3, <2>4 DEF Next
<1> QED BY <1>1, <1>2, RestingInvariant, LineInvariant, LevelsInvariant, PTL DEF Spec

\* The last step of a call that has a number.
LEMMA Completing ==
  ASSUME Outcomes \subseteq {"ok"}, IInv, NumberInv, LevelInv, Next, NEW p \in Procs,
         Completes(p), frame[p].kind # "with"
  PROVE  /\ pc[p] \in {"putBuffer", "release", "checkHook"}
         /\ pc[p] = "checkHook" => /\ SomeNot(frame[p].seen.console, frame[p].level)
                                   /\ SomeNot(frame[p].seen.hook, frame[p].level)
         /\ frame[p].call \in Nat
<1> USE DEF GoTo, Steps
<1>0. TypeOK /\ SeenInv(p)
  BY DEF IInv, LevelInv
<1>1. Step(p)
  <2>1. ASSUME NEW q \in Procs, q # p, Call(q) \/ Step(q) PROVE FALSE
    <3>1. pc'[p] = pc[p]
      BY <2>1, OnlyMoves
    <3> QED BY <3>1 DEF Completes
  <2>2. ~Config
    BY ConfigHeap DEF Completes
  <2>3. ~Call(p)
    BY CallFrame DEF Completes
  <2> QED BY <2>1, <2>2, <2>3 DEF Next
<1>2. LoadHook(p) \/ Derive(p) \/ Release(p) \/ PutBuffer(p) \/ FireHook(p) \/ Exit(p)
  <2>1. ~NewEntry(p)
    <3>1. CASE frame[p].kind = "logger"
      BY <1>0, <3>1 DEF NewEntry, TypeOK, Completes
    <3>2. CASE frame[p].kind # "logger"
      BY <1>0, <3>2 DEF NewEntry, TypeOK, Completes
    <3> QED BY <3>1, <3>2
  <2>2. ~LoadConsole(p)
    BY <1>0 DEF LoadConsole, Enabled, TypeOK, Completes
  <2>3. ~(LockLog(p) \/ WaitLog(p) \/ Snapshot(p) \/ Prepare(p))
    BY <1>0 DEF LockLog, WaitLog, Lock, Snapshot, Prepare, TypeOK, Completes
  <2>4. ~(GetBuffer(p) \/ Format(p) \/ LockOut(p) \/ WaitOut(p) \/ Write(p))
    BY <1>0 DEF GetBuffer, Format, LockOut, WaitOut, Lock, Write, TypeOK, Completes
  <2> QED BY <1>1, <2>1, <2>2, <2>3, <2>4 DEF Step
<1>3. ~Derive(p) /\ ~Exit(p)
  BY <1>0 DEF Derive, Exit, SeenInv, Completes
<1>4. ~FireHook(p)
  <2> SUFFICES ASSUME FireHook(p) PROVE FALSE
    OBVIOUS
  <2>1. pc'[p] \in {"hook", "getBuffer"}
    BY <1>0 DEF FireHook, TypeOK
  <2> QED BY <2>1 DEF Completes
<1>5. CASE LoadHook(p)
  <2>1. pc[p] = "checkHook" /\ ~(hookLevel >= frame[p].level)
    BY <1>0, <1>5 DEF LoadHook, Enabled, TypeOK, Completes
  <2>2. hookLevel \in frame[p].seen.hook
    BY <1>0, <2>1 DEF SeenInv
  <2>3. hookLevel \in Int /\ frame[p].level \in Int
    BY <1>0 DEF TypeOK, Frame, Levels
  <2> QED BY <1>0, <2>1, <2>2, <2>3 DEF SeenInv, SomeNot, NumberInv, Numbered
<1>6. CASE Release(p) \/ PutBuffer(p)
  BY <1>6 DEF Release, PutBuffer, NumberInv, Numbered
<1> QED BY <1>2, <1>3, <1>4, <1>5, <1>6

\* A call that ends has a number: only WithField has none.
LEMMA CompletingCall ==
  ASSUME NumberInv, NEW p \in Procs, Completes(p), frame[p].kind # "with"
  PROVE  frame[p].call \in Nat /\ frame[p].call > 0
  BY DEF Completes, NumberInv, Numbered

\* A call that returns has written its line if its level was enabled for the console all
\* along and nothing if it never was, and has fired no hook if its level never was enabled
\* for hooks: for any number of calls and changes of the levels, with hooks, formatters and
\* writers that succeed (logger.go SetLevel and IsLevelEnabled, entry.go log).
THEOREM LevelsAreHonoured ==
  ASSUME Outcomes \subseteq {"ok"}
  PROVE  Spec => LevelsHonoured
<1>1. RestingInv /\ LineInv /\ LevelInv /\ [Next]_vars
        => [\A p \in Procs : Completes(p) /\ frame[p].kind # "with" => Honoured(p)]_vars
  <2> SUFFICES ASSUME RestingInv, LineInv, LevelInv, Next, NEW p \in Procs, Completes(p),
                      frame[p].kind # "with"
               PROVE  Honoured(p)
    OBVIOUS
  <2>0. IInv /\ NumberInv /\ frame[p] \in Frame
    BY DEF RestingInv, LineInv, IInv, TypeOK
  <2> DEFINE f == frame[p]
  <2>1. /\ pc[p] \in {"putBuffer", "release", "checkHook"}
        /\ pc[p] = "checkHook" => SomeNot(f.seen.console, f.level)
    BY <2>0, Completing
  <2>2. PICK c \in Nat : c = f.call /\ c > 0
    BY <2>0, <2>1, CompletingCall
  <2>3. NotSent(p, c) /\ DidWrite(p, c)
    BY <2>2 DEF LevelInv
  <2>4. /\ \A l \in f.seen.console : l \in Int
        /\ \A l \in f.seen.hook : l \in Int
        /\ f.level \in Int
    BY <2>0 DEF Frame, Levels
  <2>5. (\A l \in f.seen.console : l >= f.level) => SinksOf(f.call) \cap Outs # {}
    BY <2>1, <2>2, <2>3, <2>4 DEF DidWrite, SomeNot
  <2>6. (\A l \in f.seen.console : l < f.level) => SinksOf(f.call) \cap Outs = {}
    BY <2>2, <2>3, <2>4 DEF NotSent, Some
  <2>7. (\A l \in f.seen.hook : l < f.level) => SinksOf(f.call) \cap Hooks = {}
    BY <2>2, <2>3, <2>4 DEF NotSent, Some
  <2> QED BY <2>5, <2>6, <2>7 DEF Honoured
<1> QED BY <1>1, RestingInvariant, LineInvariant, LevelsInvariant, PTL
        DEF Spec, LevelsHonoured

\* With its level enabled for hooks all along, every hook registered for it has fired when
\* a call returns; the hooks are those registered before the calls (entry.go log).
THEOREM HooksAreHonoured ==
  ASSUME Outcomes \subseteq {"ok"}, {"addHook", "replaceHooks"} \cap ConfigOps = {}
  PROVE  Spec => HooksHonoured
<1>1. RestingInv /\ LineInv /\ LevelInv /\ FiredInv /\ [Next]_vars
        => [\A p \in Procs :
              Completes(p) /\ frame[p].kind # "with"
                /\ (\A l \in frame[p].seen.hook : l >= frame[p].level)
              => LET hs == hooks[frame[p].level] IN
                 \A i \in DOMAIN hs : hs[i] \in SinksOf(frame[p].call)]_vars
  <2> SUFFICES ASSUME RestingInv, LineInv, LevelInv, FiredInv, Next, NEW p \in Procs,
                      Completes(p), frame[p].kind # "with",
                      \A l \in frame[p].seen.hook : l >= frame[p].level,
                      NEW i \in DOMAIN hooks[frame[p].level]
               PROVE  hooks[frame[p].level][i] \in SinksOf(frame[p].call)
    OBVIOUS
  <2>0. IInv /\ NumberInv /\ frame[p] \in Frame
    BY DEF RestingInv, LineInv, IInv, TypeOK
  <2>1. ~SomeNot(frame[p].seen.hook, frame[p].level)
    BY <2>0 DEF Frame, Levels, SomeNot
  <2>2. pc[p] \in {"putBuffer", "release"}
    BY <2>0, <2>1, Completing
  <2>3. PICK c \in Nat : c = frame[p].call /\ c > 0
    BY <2>0, <2>2, CompletingCall
  <2>4. DidFire(p, c)
    BY <2>3 DEF FiredInv
  <2> QED BY <2>1, <2>2, <2>3, <2>4 DEF DidFire, HasNew
<1> QED BY <1>1, RestingInvariant, LineInvariant, LevelsInvariant, FiresInvariant, PTL
        DEF Spec, HooksHonoured
==============================================================================
