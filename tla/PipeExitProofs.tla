---------------------------- MODULE PipeExitProofs ----------------------------
(***************************************************************************)
(* Proofs about the pipe writer and the exit handlers, alone and together: *)
(* the handlers that run are those registered, in their order, and the     *)
(* lines that are printed are the text that was written.                   *)
(***************************************************************************)
EXTENDS PipeExit, FiniteSetTheorems, SequenceTheorems, WellFoundedInduction, TLAPS

------------------------------------------------------------------------------
(* The stack of calls of runHandlers on a goroutine.                        *)

LEMMA TopOf ==
  ASSUME NEW S, NEW s \in Seq(S), s # <<>>
  PROVE  /\ Last(s) \in S /\ Last(s) = s[Len(s)] /\ Len(s) \in Nat \ {0}
         /\ Front(s) \in Seq(S) /\ Len(Front(s)) = Len(s) - 1
<1>1. Len(s) \in Nat /\ Len(s) # 0
  BY EmptySeq, LenProperties
<1>2. Last(s) \in S
  BY <1>1, ElementOfSeq DEF Last
<1>3. Front(s) \in Seq(S) /\ Len(Front(s)) = Len(s) - 1
  <2>1. /\ 1 \in Int /\ Len(s) - 1 \in Int /\ (1 <= Len(s) - 1 \/ Len(s) - 1 = 0)
        /\ 1..Len(s) - 1 \subseteq 1..Len(s) /\ Len(s) - 1 - 1 + 1 = Len(s) - 1
    BY <1>1
  <2>2. \A i \in 1..Len(s) - 1 : s[i] \in S
    BY <2>1, ElementOfSeq
  <2>3. /\ SubSeq(s, 1, Len(s) - 1) \in Seq(S)
        /\ Len(SubSeq(s, 1, Len(s) - 1)) =
             IF 1 <= Len(s) - 1 THEN Len(s) - 1 - 1 + 1 ELSE 0
    BY <2>1, <2>2, SubSeqProperties
  <2> QED BY <1>1, <2>1, <2>3 DEF Front
<1> QED BY <1>1, <1>2, <1>3 DEF Last

LEMMA PushOf ==
  ASSUME NEW S, NEW s \in Seq(S), NEW x \in S
  PROVE  Append(s, x) \in Seq(S) /\ Append(s, x) # <<>> /\ Last(Append(s, x)) = x
<1>1. /\ Append(s, x) \in Seq(S) /\ Len(Append(s, x)) = Len(s) + 1
      /\ Append(s, x)[Len(s) + 1] = x /\ Len(s) \in Nat
  BY AppendProperties, LenProperties
<1> QED BY <1>1, EmptySeq DEF Last

------------------------------------------------------------------------------
(* The order of the handlers.                                               *)

Registrations == Seq([handler : Handlers, first : BOOLEAN])

\* One registration more.
LEMMA Longer ==
  ASSUME NEW history \in Registrations, NEW r \in [handler : Handlers, first : BOOLEAN]
  PROVE  /\ Append(history, r) \in Registrations
         /\ DOMAIN Append(history, r) = 1..(Len(history) + 1)
         /\ DOMAIN history = 1..Len(history)
         /\ Len(history) \in Nat /\ Len(Append(history, r)) = Len(history) + 1
         /\ Append(history, r)[Len(history) + 1] = r
         /\ \A i \in DOMAIN history : Append(history, r)[i] = history[i]
  BY AppendProperties, LenProperties DEF Registrations

LEMMA UpTo ==
  ASSUME NEW n \in Nat
  PROVE  IsFiniteSet(1..n) /\ Cardinality(1..n) = n
<1>1. /\ IsFiniteSet(1..n)
      /\ Cardinality(1..n) = IF 1 > n THEN 0 ELSE n - 1 + 1
  BY FS_Interval
<1>2. (IF 1 > n THEN 0 ELSE n - 1 + 1) = n
  OBVIOUS
<1> QED BY <1>1, <1>2

LEMMA AheadFinite ==
  ASSUME NEW history \in Registrations, NEW i
  PROVE  /\ IsFiniteSet(Ahead(history, i)) /\ Cardinality(Ahead(history, i)) \in Nat
         /\ Cardinality(Ahead(history, i)) <= Len(history)
<1>1. DOMAIN history = 1..Len(history) /\ Len(history) \in Nat
  BY LenProperties DEF Registrations
<1>2. IsFiniteSet(1..Len(history)) /\ Cardinality(1..Len(history)) = Len(history)
  BY <1>1, UpTo
<1>3. Ahead(history, i) \subseteq 1..Len(history)
  BY <1>1 DEF Ahead
<1> QED BY <1>1, <1>2, <1>3, FS_Subset, FS_CardinalityType

\* DeferExitHandler puts its handler ahead of all others, RegisterExitHandler behind.
LEMMA OrderKept ==
  ASSUME NEW list \in Seq(Handlers), NEW history \in Registrations,
         InOrder(list, history), NEW h \in Handlers, NEW first \in BOOLEAN
  PROVE  InOrder(IF first THEN <<h>> \o list ELSE Append(list, h),
                 Append(history, [handler |-> h, first |-> first]))
<1> DEFINE r == [handler |-> h, first |-> first]
           after == Append(history, r)
           n == Len(history)
<1>1. r \in [handler : Handlers, first : BOOLEAN] /\ r.handler = h /\ r.first = first
  OBVIOUS
<1> HIDE DEF r
<1>2. /\ after \in Registrations /\ DOMAIN after = 1..(n + 1) /\ DOMAIN history = 1..n
      /\ n \in Nat /\ Len(after) = n + 1 /\ after[n + 1] = r
      /\ \A i \in 1..n : after[i] = history[i]
  BY <1>1, Longer
<1>3. Len(list) = n
  BY DEF InOrder
<1> HIDE DEF after, n
<1>4. \A i \in 1..n : list[Cardinality(Ahead(history, i)) + 1] = history[i].handler
  BY <1>2 DEF InOrder
<1>5. \A i \in 1..n : /\ Cardinality(Ahead(history, i)) \in Nat
                      /\ IsFiniteSet(Ahead(history, i))
                      /\ Ahead(history, i) \subseteq 1..n
  BY <1>2, AheadFinite DEF Ahead
<1>6. \A i \in 1..n : Cardinality(Ahead(history, i)) < n
  <2> SUFFICES ASSUME NEW i \in 1..n
               PROVE  Cardinality(Ahead(history, i)) < n
    OBVIOUS
  <2>1. i \notin Ahead(history, i)
    BY DEF Ahead
  <2>2. IsFiniteSet(1..n) /\ Cardinality(1..n) = n
    BY <1>2, UpTo
  <2>3. Ahead(history, i) # 1..n
    BY <2>1
  <2> QED BY <1>2, <1>5, <2>2, <2>3, FS_Subset
<1>7. CASE first = TRUE
  <2> DEFINE longer == <<h>> \o list
  <2>0. after[n + 1].first = TRUE /\ after[n + 1].handler = h
    BY <1>1, <1>2, <1>7
  <2>1. <<h>> \in Seq(Handlers) /\ Len(<<h>>) = 1 /\ <<h>>[1] = h
    OBVIOUS
  <2>2. /\ Len(longer) = n + 1 /\ longer[1] = h
        /\ \A i \in 1..n : longer[i + 1] = list[i]
    <3>1. /\ Len(longer) = Len(<<h>>) + Len(list)
          /\ \A i \in 1..(Len(<<h>>) + Len(list)) :
               longer[i] = IF i <= Len(<<h>>) THEN <<h>>[i] ELSE list[i - Len(<<h>>)]
      BY <2>1, ConcatProperties
    <3>2. \A i \in 1..n : /\ i + 1 \in 1..(n + 1) /\ ~(i + 1 <= 1) /\ i + 1 - 1 = i
      BY <1>2
    <3>3. 1 \in 1..(n + 1) /\ 1 <= 1 /\ 1 + n = n + 1
      BY <1>2
    <3> HIDE DEF longer
    <3> QED BY <1>2, <1>3, <2>1, <3>1, <3>2, <3>3
  <2> HIDE DEF longer
  <2>3. ASSUME NEW i \in 1..n
        PROVE  longer[Cardinality(Ahead(after, i)) + 1] = after[i].handler
    <3>1. n + 1 \notin Ahead(history, i) /\ i # n + 1
      BY <1>2, <1>5
    <3>2. Ahead(after, i) = Ahead(history, i) \cup {n + 1}
      <4>1. ASSUME NEW j \in 1..n PROVE j \in Ahead(after, i) <=> j \in Ahead(history, i)
        BY <1>2, <4>1 DEF Ahead
      <4>2. n + 1 \in Ahead(after, i)
        BY <1>2, <2>0 DEF Ahead
      <4>3. Ahead(after, i) \subseteq 1..(n + 1)
        BY <1>2 DEF Ahead
      <4> QED BY <1>2, <1>5, <4>1, <4>2, <4>3
    <3>3. Cardinality(Ahead(after, i)) = Cardinality(Ahead(history, i)) + 1
      BY <1>5, <3>1, <3>2, FS_AddElement
    <3> DEFINE k == Cardinality(Ahead(history, i))
    <3>4. k \in Nat /\ k < n /\ k + 1 \in 1..n
      BY <1>2, <1>5, <1>6
    <3>5. longer[k + 1 + 1] = list[k + 1] /\ list[k + 1] = history[i].handler
      BY <1>4, <2>2, <3>4
    <3> QED BY <1>2, <3>3, <3>5
  <2>4. longer[Cardinality(Ahead(after, n + 1)) + 1] = after[n + 1].handler
    <3>1. Ahead(after, n + 1) = {}
      <4>1. ASSUME NEW j \in Ahead(after, n + 1) PROVE FALSE
        BY <1>2, <2>0, <4>1 DEF Ahead
      <4> QED BY <4>1
    <3>2. Cardinality(Ahead(after, n + 1)) = 0
      BY <3>1, FS_EmptySet
    <3> QED BY <1>1, <1>2, <2>2, <3>2
  <2>5. InOrder(longer, after)
    <3>1. \A i \in 1..(n + 1) : i \in 1..n \/ i = n + 1
      BY <1>2
    <3> QED BY <1>2, <2>2, <2>3, <2>4, <3>1 DEF InOrder
  <2> QED BY <1>7, <2>5 DEF longer, after, r
<1>8. CASE first = FALSE
  <2> DEFINE longer == Append(list, h)
  <2>0. after[n + 1].first = FALSE /\ after[n + 1].handler = h
    BY <1>1, <1>2, <1>8
  <2>1. /\ Len(longer) = n + 1 /\ longer[n + 1] = h
        /\ \A i \in 1..n : longer[i] = list[i]
    BY <1>3, AppendProperties
  <2> HIDE DEF longer
  <2>2. ASSUME NEW i \in 1..n
        PROVE  longer[Cardinality(Ahead(after, i)) + 1] = after[i].handler
    <3>1. Ahead(after, i) = Ahead(history, i)
      <4>1. ASSUME NEW j \in 1..n PROVE j \in Ahead(after, i) <=> j \in Ahead(history, i)
        BY <1>2, <4>1 DEF Ahead
      <4>2. n + 1 \notin Ahead(after, i)
        BY <1>2, <2>0 DEF Ahead
      <4>3. Ahead(after, i) \subseteq 1..(n + 1)
        BY <1>2 DEF Ahead
      <4>4. \A j \in 1..(n + 1) : j \in 1..n \/ j = n + 1
        BY <1>2
      <4>5. Ahead(after, i) \subseteq 1..n /\ Ahead(history, i) \subseteq 1..n
        BY <1>5, <4>2, <4>3, <4>4
      <4> QED BY <4>1, <4>5
    <3> DEFINE k == Cardinality(Ahead(history, i))
    <3>2. k \in Nat /\ k < n /\ k + 1 \in 1..n
      BY <1>2, <1>5, <1>6
    <3>3. longer[k + 1] = list[k + 1] /\ list[k + 1] = history[i].handler
      BY <1>4, <2>1, <3>2
    <3> QED BY <1>2, <3>1, <3>3
  <2>3. longer[Cardinality(Ahead(after, n + 1)) + 1] = after[n + 1].handler
    <3>1. Ahead(after, n + 1) = 1..n
      <4>1. ASSUME NEW j \in 1..n PROVE j \in Ahead(after, n + 1)
        BY <1>2, <2>0, <4>1 DEF Ahead
      <4>2. ASSUME NEW j \in Ahead(after, n + 1) PROVE j \in 1..n
        <5>1. j \in 1..(n + 1)
          BY <1>2 DEF Ahead
        <5>2. j # n + 1
          BY <1>2, <2>0 DEF Ahead
        <5> QED BY <1>2, <5>1, <5>2
      <4> QED BY <4>1, <4>2
    <3>2. Cardinality(Ahead(after, n + 1)) = n
      BY <1>2, <3>1, UpTo
    <3> QED BY <1>1, <1>2, <2>1, <3>2
  <2>4. InOrder(longer, after)
    <3>1. \A i \in 1..(n + 1) : i \in 1..n \/ i = n + 1
      BY <1>2
    <3> QED BY <1>2, <2>1, <2>2, <2>3, <3>1 DEF InOrder
  <2> QED BY <1>8, <2>4 DEF longer, after, r
<1> QED BY <1>7, <1>8

------------------------------------------------------------------------------
(* The exit handlers.                                                       *)

\* A call of runHandlers: it knows the handlers of the time it began, in their order, and
\* has run a beginning of them.
Calls == [all : Seq(Handlers), next : Nat \ {0}, pc : {"loop", "body"},
          ran : Seq(Handlers), exitFunc : ExitFuncs, known : Nat]

Good(history) ==
  {f \in Calls : /\ f.next <= Len(f.all) + 1
                 /\ f.pc = "body" => f.next <= Len(f.all)
                 /\ f.ran = SubSeq(f.all, 1, f.next - 1)
                 /\ f.known <= Len(history)
                 /\ InOrder(f.all, SubSeq(history, 1, f.known))}

ExitInv ==
  /\ handlers \in Seq(Handlers) /\ registered \in Registrations
  /\ InOrder(handlers, registered)
  /\ frames \in [Threads -> Seq(Good(registered))]
  /\ gone \subseteq Threads
  /\ ended.how \in {"no", "exit", "panic", "overflow"}
  /\ ended.how = "exit" => /\ ended.frame \in Good(registered)
                           /\ ended.frame.next > Len(ended.frame.all)
  /\ ended.how = "panic" => ended.frame = NoFrame

LEMMA PrefixOf ==
  ASSUME NEW S, NEW s \in Seq(S), NEW n \in 0..Len(s)
  PROVE  /\ SubSeq(s, 1, n) \in Seq(S) /\ Len(SubSeq(s, 1, n)) = n
         /\ \A i \in 1..n : SubSeq(s, 1, n)[i] = s[i]
         /\ SubSeq(s, 1, Len(s)) = s
<1>1. Len(s) \in Nat /\ n \in Nat /\ n <= Len(s) /\ 1..n \subseteq 1..Len(s)
  BY LenProperties
<1>2. \A i \in 1..n : s[i] \in S
  BY <1>1, ElementOfSeq
<1>3. /\ SubSeq(s, 1, n) \in Seq(S)
      /\ Len(SubSeq(s, 1, n)) = IF 1 <= n THEN n - 1 + 1 ELSE 0
      /\ \A i \in 1..(n - 1 + 1) : SubSeq(s, 1, n)[i] = s[1 + i - 1]
  BY <1>1, <1>2, SubSeqProperties
<1>4. Len(SubSeq(s, 1, n)) = n /\ n - 1 + 1 = n /\ \A i \in 1..n : 1 + i - 1 = i
  BY <1>1, <1>3
<1> QED BY <1>3, <1>4, SubSeqFull

\* What a call knows stays right when handlers are registered.
LEMMA GoodStays ==
  ASSUME NEW history \in Registrations, NEW r \in [handler : Handlers, first : BOOLEAN]
  PROVE  Good(history) \subseteq Good(Append(history, r))
<1> SUFFICES ASSUME NEW f \in Good(history)
             PROVE  f \in Good(Append(history, r))
  OBVIOUS
<1>1. f \in Calls /\ f.known \in Nat /\ f.known <= Len(history)
  BY DEF Good, Calls
<1> DEFINE n == f.known
           after == Append(history, r)
<1>2. /\ after \in Registrations /\ Len(after) = Len(history) + 1 /\ Len(history) \in Nat
      /\ DOMAIN history = 1..Len(history)
      /\ \A i \in DOMAIN history : after[i] = history[i]
  BY Longer
<1> HIDE DEF after
<1>3. n \in 0..Len(history) /\ n \in 0..Len(after)
  BY <1>1, <1>2
<1>4. /\ SubSeq(history, 1, n) \in Registrations /\ Len(SubSeq(history, 1, n)) = n
      /\ \A i \in 1..n : SubSeq(history, 1, n)[i] = history[i]
  BY <1>3, PrefixOf DEF Registrations
<1>5. /\ SubSeq(after, 1, n) \in Registrations /\ Len(SubSeq(after, 1, n)) = n
      /\ \A i \in 1..n : SubSeq(after, 1, n)[i] = after[i]
  BY <1>2, <1>3, PrefixOf DEF Registrations
<1>6. SubSeq(after, 1, n) = SubSeq(history, 1, n)
  <2>1. \A i \in 1..n : SubSeq(after, 1, n)[i] = SubSeq(history, 1, n)[i]
    BY <1>1, <1>2, <1>4, <1>5
  <2> HIDE DEF n
  <2> QED BY <1>4, <1>5, <2>1, SeqEqual DEF Registrations
<1>7. n <= Len(after)
  BY <1>1, <1>2
<1> QED BY <1>6, <1>7 DEF Good, after

LEMMA RegisterKeeps ==
  ASSUME ExitInv, NEW t, NEW h \in Handlers, NEW first \in BOOLEAN, Register(t, h, first)
  PROVE  ExitInv'
<1> DEFINE r == [handler |-> h, first |-> first]
<1>1. /\ handlers' = IF first THEN <<h>> \o handlers ELSE Append(handlers, h)
      /\ registered' = Append(registered, r)
      /\ UNCHANGED <<frames, gone, ended>>
  BY DEF Register, Prepended
<1>2. handlers' \in Seq(Handlers)
  <2>1. <<h>> \in Seq(Handlers)
    OBVIOUS
  <2> QED BY <1>1, <2>1, ConcatProperties, AppendProperties DEF ExitInv
<1>3. InOrder(handlers', registered')
  BY <1>1, OrderKept DEF ExitInv
<1>4. r \in [handler : Handlers, first : BOOLEAN]
  OBVIOUS
<1>5. registered' \in Registrations /\ Good(registered) \subseteq Good(registered')
  <2> HIDE DEF r
  <2> QED BY <1>1, <1>4, Longer, GoodStays DEF ExitInv
<1>6. frames' \in [Threads -> Seq(Good(registered'))]
  <2>1. \A s \in Seq(Good(registered)) : s \in Seq(Good(registered'))
    BY <1>5, SeqMonotonic
  <2> QED BY <1>1, <2>1 DEF ExitInv
<1> QED BY <1>1, <1>2, <1>3, <1>5, <1>6 DEF ExitInv

LEMMA ExitKeeps ==
  ASSUME ExitInv, NEW t \in Threads, Exit(t)
  PROVE  ExitInv' /\ frames'[t] # <<>> /\ Last(frames'[t]).pc = "loop"
<1>1. PICK f \in ExitFuncs : frames' = [frames EXCEPT ![t] = Append(@, Frame(handlers, f))]
  BY DEF Exit
<1> DEFINE call == Frame(handlers, f)
<1>2. /\ call.all = handlers /\ call.next = 1 /\ call.pc = "loop" /\ call.ran = <<>>
      /\ call.known = Len(registered) /\ call.exitFunc = f
  BY DEF Frame
<1>3. Len(registered) \in Nat /\ Len(handlers) \in Nat
  BY LenProperties DEF ExitInv, Registrations
<1>4. call \in Calls
  BY <1>3 DEF Calls, Frame, ExitInv
<1>5. SubSeq(registered, 1, Len(registered)) = registered
  BY SubSeqFull DEF ExitInv, Registrations
<1>6. SubSeq(handlers, 1, 1 - 1) = <<>>
  BY SubSeqEmpty
<1> HIDE DEF call
<1>7. call \in Good(registered)
  <2>1. call.next <= Len(call.all) + 1 /\ call.pc # "body" /\ call.known <= Len(registered)
    BY <1>2, <1>3
  <2>2. call.ran = SubSeq(call.all, 1, call.next - 1)
    BY <1>2, <1>6
  <2>3. InOrder(call.all, SubSeq(registered, 1, call.known))
    BY <1>2, <1>5 DEF ExitInv
  <2> QED BY <1>4, <2>1, <2>2, <2>3 DEF Good
<1>8. frames' = [frames EXCEPT ![t] = Append(frames[t], call)]
  BY <1>1 DEF call
<1>9. /\ Append(frames[t], call) \in Seq(Good(registered)) /\ Append(frames[t], call) # <<>>
      /\ Last(Append(frames[t], call)) = call
  BY <1>7, PushOf DEF ExitInv
<1>10. UNCHANGED <<handlers, registered, gone, ended>>
  BY DEF Exit
<1> QED BY <1>2, <1>8, <1>9, <1>10 DEF ExitInv

\* The innermost call goes on.
LEMMA TopKeeps ==
  ASSUME ExitInv, NEW t \in Threads, frames[t] # <<>>, NEW f \in Good(registered),
         SetTop(t, f), UNCHANGED <<handlers, registered, gone, ended>>
  PROVE  ExitInv' /\ frames'[t] # <<>> /\ Last(frames'[t]) = f
<1>1. Front(frames[t]) \in Seq(Good(registered))
  BY TopOf DEF ExitInv
<1>2. /\ Append(Front(frames[t]), f) \in Seq(Good(registered))
      /\ Append(Front(frames[t]), f) # <<>> /\ Last(Append(Front(frames[t]), f)) = f
  BY <1>1, PushOf
<1>3. frames' = [frames EXCEPT ![t] = Append(Front(frames[t]), f)]
  BY DEF SetTop
<1> QED BY <1>2, <1>3 DEF ExitInv

LEMMA StartKeeps ==
  ASSUME ExitInv, NEW t \in Threads, StartHandler(t)
  PROVE  ExitInv' /\ frames[t] # <<>> /\ frames'[t] # <<>> /\ InHandler(t)' /\ ~InHandler(t)
<1> DEFINE top == Last(frames[t])
           f == [top EXCEPT !.pc = "body"]
<1>1. /\ frames[t] # <<>> /\ top.pc = "loop" /\ top.next <= Len(top.all)
      /\ SetTop(t, f) /\ UNCHANGED <<handlers, registered, gone, ended>>
  BY DEF StartHandler
<1>2. top \in Good(registered)
  BY <1>1, TopOf DEF ExitInv
<1>3. f \in Good(registered) /\ f.pc = "body"
  <2>1. top \in Calls
    BY <1>2 DEF Good
  <2>2. /\ f \in Calls /\ f.pc = "body" /\ f.next = top.next /\ f.all = top.all
        /\ f.ran = top.ran /\ f.known = top.known
    BY <2>1 DEF Calls
  <2> HIDE DEF f, top
  <2> QED BY <1>1, <1>2, <2>2 DEF Good
<1> HIDE DEF f
<1> QED BY <1>1, <1>3, TopKeeps DEF InHandler

\* A handler that has ended is the next of those that have run.
LEMMA EndKeeps ==
  ASSUME ExitInv, NEW t \in Threads, NEW how, EndHandler(t, how)
  PROVE  ExitInv' /\ frames'[t] # <<>> /\ InHandler(t)
<1> DEFINE top == Last(frames[t])
           f == [top EXCEPT !.pc = "loop", !.next = @ + 1,
                            !.ran = Append(@, top.all[top.next])]
<1>1. /\ InHandler(t) /\ frames[t] # <<>> /\ top.pc = "body"
      /\ SetTop(t, f) /\ UNCHANGED <<handlers, registered, gone, ended>>
  BY DEF EndHandler, InHandler, Recovered
<1>2. top \in Good(registered)
  BY <1>1, TopOf DEF ExitInv
<1>3. /\ top \in Calls /\ top.all \in Seq(Handlers) /\ top.ran \in Seq(Handlers)
      /\ top.next \in Nat \ {0} /\ top.next <= Len(top.all) /\ Len(top.all) \in Nat
      /\ top.ran = SubSeq(top.all, 1, top.next - 1)
  BY <1>1, <1>2, LenProperties DEF Good, Calls
<1>4. top.all[top.next] \in Handlers
  BY <1>3, ElementOfSeq
<1>5. Append(top.ran, top.all[top.next]) \in Seq(Handlers)
  BY <1>3, <1>4, AppendProperties
<1>6. /\ f \in Calls /\ f.pc = "loop" /\ f.next = top.next + 1 /\ f.all = top.all
      /\ f.ran = Append(top.ran, top.all[top.next]) /\ f.known = top.known
  <2> DEFINE r == Append(top.ran, top.all[top.next])
             m == top.next + 1
             g == [top EXCEPT !.pc = "loop", !.next = m, !.ran = r]
  <2>1. m \in Nat \ {0} /\ r \in Seq(Handlers) /\ f = g
    BY <1>3, <1>5
  <2> HIDE DEF r, m, top
  <2>2. /\ g \in Calls /\ g.pc = "loop" /\ g.next = m /\ g.all = top.all /\ g.ran = r
        /\ g.known = top.known
    BY <1>3, <2>1 DEF Calls
  <2> QED BY <2>1, <2>2 DEF r, m
<1> HIDE DEF f
<1>7. f.ran = SubSeq(f.all, 1, f.next - 1)
  <2> DEFINE n == top.next
             s == top.all
  <2>1. n - 1 \in 0..Len(s) /\ n \in 0..Len(s) /\ n + 1 - 1 = n /\ n - 1 + 1 = n
    BY <1>3
  <2>2. /\ SubSeq(s, 1, n - 1) \in Seq(Handlers) /\ Len(SubSeq(s, 1, n - 1)) = n - 1
        /\ \A i \in 1..(n - 1) : SubSeq(s, 1, n - 1)[i] = s[i]
    BY <1>3, <2>1, PrefixOf
  <2>3. /\ SubSeq(s, 1, n) \in Seq(Handlers) /\ Len(SubSeq(s, 1, n)) = n
        /\ \A i \in 1..n : SubSeq(s, 1, n)[i] = s[i]
    BY <1>3, <2>1, PrefixOf
  <2> HIDE DEF n, s
  <2>4. /\ Append(SubSeq(s, 1, n - 1), s[n]) \in Seq(Handlers)
        /\ Len(Append(SubSeq(s, 1, n - 1), s[n])) = n
        /\ \A i \in 1..(n - 1) : Append(SubSeq(s, 1, n - 1), s[n])[i] = s[i]
        /\ Append(SubSeq(s, 1, n - 1), s[n])[n] = s[n]
    <3>1. s[n] \in Handlers
      BY <1>4 DEF s, n
    <3> QED BY <2>1, <2>2, <3>1, AppendProperties
  <2>5. \A i \in 1..n : i \in 1..(n - 1) \/ i = n
    BY <2>1
  <2>6. Append(SubSeq(s, 1, n - 1), s[n]) = SubSeq(s, 1, n)
    BY <2>3, <2>4, <2>5, SeqEqual
  <2> QED BY <1>3, <1>6, <2>1, <2>6 DEF n, s
<1>8. f.next <= Len(f.all) + 1
  BY <1>3, <1>6
<1>9. f \in Good(registered)
  BY <1>2, <1>6, <1>7, <1>8 DEF Good
<1> HIDE DEF top
<1> QED BY <1>1, <1>9, TopKeeps

LEMMA GoexitKeeps ==
  ASSUME ExitInv, NEW t \in Threads, Goexit(t)
  PROVE  ExitInv' /\ t \in gone'
<1>1. <<>> \in Seq(Good(registered))
  OBVIOUS
<1> QED BY <1>1 DEF ExitInv, Goexit

LEMMA FinishKeeps ==
  ASSUME ExitInv, NEW t \in Threads, Finish(t)
  PROVE  ExitInv' /\ frames[t] # <<>> /\ ~InHandler(t)
<1> DEFINE top == Last(frames[t])
<1>1. /\ frames[t] # <<>> /\ top.pc = "loop" /\ top.next > Len(top.all)
      /\ UNCHANGED <<handlers, registered, gone>>
      /\ \/ /\ ended' = [how |-> "exit", frame |-> top] /\ frames' = frames
         \/ frames' = [frames EXCEPT ![t] = Front(@)] /\ UNCHANGED ended
  BY DEF Finish
<1>2. top \in Good(registered) /\ Front(frames[t]) \in Seq(Good(registered))
  BY <1>1, TopOf DEF ExitInv
<1> HIDE DEF top
<1>3. CASE ended' = [how |-> "exit", frame |-> top] /\ frames' = frames
  BY <1>1, <1>2, <1>3 DEF ExitInv, InHandler, top
<1>4. CASE frames' = [frames EXCEPT ![t] = Front(@)] /\ UNCHANGED ended
  BY <1>1, <1>2, <1>4 DEF ExitInv, InHandler, top
<1> QED BY <1>1, <1>3, <1>4

------------------------------------------------------------------------------
(* The text of lines.                                                       *)

\* Induction over the natural numbers, for a set.
LEMMA SetInduction ==
  ASSUME NEW T \in SUBSET Nat, 0 \in T, \A n \in T : n + 1 \in T
  PROVE  T = Nat
<1> DEFINE R == OpToRel(<, Nat)
           U == Nat \ T
<1> SUFFICES ASSUME U # {} PROVE FALSE
  OBVIOUS
<1>1. IsWellFoundedOn(R, Nat)
  BY NatLessThanWellFounded
<1>2. U \subseteq Nat
  OBVIOUS
<1>3. \A x, y \in Nat : x < y => <<x, y>> \in R
  BY DEF OpToRel
<1> HIDE DEF R
<1>4. PICK x \in U : \A y \in U : ~(<<y, x>> \in R)
  BY <1>1, <1>2, WFMin
<1>5. x # 0
  OBVIOUS
<1>6. x - 1 \in Nat /\ x - 1 < x /\ x - 1 + 1 = x
  BY <1>5
<1>7. x - 1 \in U
  BY <1>6
<1> QED BY <1>3, <1>4, <1>6, <1>7

\* The recursion of FlattenSeq.
Flattens(f, t, n) == f = [i \in 1..n |-> IF i = 1 THEN t[i] ELSE f[i - 1] \o t[i]]

LEMMA FlattensAt ==
  ASSUME NEW t, NEW n \in Nat, NEW f, Flattens(f, t, n), NEW i \in 1..n
  PROVE  /\ f[i] = IF i = 1 THEN t[i] ELSE f[i - 1] \o t[i]
         /\ i = 1 \/ i - 1 \in 1..n
<1> DEFINE e(h) == [j \in 1..n |-> IF j = 1 THEN t[j] ELSE h[j - 1] \o t[j]]
<1>1. f = e(f)
  BY DEF Flattens
<1>2. ASSUME NEW h PROVE e(h)[i] = IF i = 1 THEN t[i] ELSE h[i - 1] \o t[i]
  OBVIOUS
<1> HIDE DEF e
<1>3. f[i] = e(f)[i]
  BY <1>1
<1> QED BY <1>2, <1>3

LEMMA FlattensExists ==
  ASSUME NEW t, NEW m \in Nat
  PROVE  \E f : Flattens(f, t, m)
<1> DEFINE T == {n \in Nat : \E f : Flattens(f, t, n)}
<1>1. 0 \in T
  <2> DEFINE e == [i \in 1..0 |-> {}]
  <2>1. 1..0 = {}
    OBVIOUS
  <2>2. Flattens(e, t, 0)
    BY <2>1 DEF Flattens
  <2> QED BY <2>2
<1>2. ASSUME NEW n \in T PROVE n + 1 \in T
  <2>1. PICK f : Flattens(f, t, n)
    OBVIOUS
  <2> DEFINE g == [i \in 1..(n + 1) |->
                     IF i <= n THEN f[i] ELSE IF i = 1 THEN t[i] ELSE f[i - 1] \o t[i]]
  <2>2. n \in Nat /\ n + 1 \in Nat
    OBVIOUS
  <2>3. ASSUME NEW i \in 1..(n + 1)
        PROVE  g[i] = IF i = 1 THEN t[i] ELSE g[i - 1] \o t[i]
    <3>1. CASE i <= n
      <4>1. i \in 1..n
        BY <2>2, <3>1
      <4>2. /\ f[i] = IF i = 1 THEN t[i] ELSE f[i - 1] \o t[i]
            /\ i = 1 \/ i - 1 \in 1..n
        BY <2>1, <2>2, <4>1, FlattensAt
      <4>3. i # 1 => i - 1 \in 1..(n + 1) /\ i - 1 <= n
        BY <2>2, <4>2
      <4>4. i # 1 => g[i - 1] = f[i - 1]
        BY <4>3
      <4>5. g[i] = f[i]
        BY <3>1
      <4> HIDE DEF g
      <4> QED BY <4>2, <4>4, <4>5
    <3>2. CASE ~(i <= n)
      <4>1. i # 1 => i - 1 \in 1..(n + 1) /\ i - 1 <= n
        BY <2>2, <3>2
      <4>2. i # 1 => g[i - 1] = f[i - 1]
        BY <4>1
      <4>3. g[i] = IF i = 1 THEN t[i] ELSE f[i - 1] \o t[i]
        BY <3>2
      <4> HIDE DEF g
      <4> QED BY <4>2, <4>3
    <3> QED BY <3>1, <3>2
  <2>4. g = [i \in 1..(n + 1) |-> g[i]]
    OBVIOUS
  <2> HIDE DEF g
  <2>5. Flattens(g, t, n + 1)
    BY <2>3, <2>4 DEF Flattens
  <2> QED BY <2>2, <2>5
<1> HIDE DEF T
<1>3. T = Nat
  BY <1>1, <1>2, SetInduction DEF T
<1> QED BY <1>3 DEF T

\* Sequences that begin alike are flattened alike.
LEMMA FlattensUnique ==
  ASSUME NEW t, NEW u, NEW f, NEW g, NEW m \in Nat, NEW n \in Nat, m <= n,
         \A i \in 1..m : t[i] = u[i], Flattens(f, t, m), Flattens(g, u, n)
  PROVE  \A i \in 1..m : f[i] = g[i]
<1> DEFINE T == {k \in Nat : k \in 1..m => f[k] = g[k]}
<1>1. 0 \in T
  OBVIOUS
<1>2. ASSUME NEW k \in T PROVE k + 1 \in T
  <2> SUFFICES ASSUME k + 1 \in 1..m PROVE f[k + 1] = g[k + 1]
    OBVIOUS
  <2>1. /\ f[k + 1] = IF k + 1 = 1 THEN t[k + 1] ELSE f[k + 1 - 1] \o t[k + 1]
        /\ k + 1 = 1 \/ k + 1 - 1 \in 1..m
    BY FlattensAt
  <2>2. k + 1 \in 1..n
    OBVIOUS
  <2>3. g[k + 1] = IF k + 1 = 1 THEN u[k + 1] ELSE g[k + 1 - 1] \o u[k + 1]
    BY <2>2, FlattensAt
  <2>4. k + 1 - 1 = k /\ t[k + 1] = u[k + 1]
    OBVIOUS
  <2>5. k \in 1..m => f[k] = g[k]
    OBVIOUS
  <2> HIDE DEF T
  <2> QED BY <2>1, <2>3, <2>4, <2>5
<1>3. T = Nat
  <2> HIDE DEF T
  <2> QED BY <1>1, <1>2, SetInduction DEF T
<1> QED BY <1>3

LEMMA FlattenIs ==
  ASSUME NEW t, Len(t) \in Nat, Len(t) # 0
  PROVE  \E f : Flattens(f, t, Len(t)) /\ FlattenSeq(t) = f[Len(t)]
<1> DEFINE f == CHOOSE f : Flattens(f, t, Len(t))
<1>1. Flattens(f, t, Len(t))
  BY FlattensExists
<1>2. FlattenSeq(t) = f[Len(t)]
  BY DEF FlattenSeq, Flattens
<1> QED BY <1>1, <1>2

LEMMA FlattenAppend ==
  ASSUME NEW S, NEW t \in Seq(Seq(S)), NEW x \in Seq(S)
  PROVE  FlattenSeq(Append(t, x)) = FlattenSeq(t) \o x
<1> DEFINE u == Append(t, x)
           n == Len(t)
<1>1. /\ n \in Nat /\ Len(u) = n + 1 /\ u[n + 1] = x
      /\ \A i \in 1..n : t[i] = u[i]
  BY LenProperties, AppendProperties
<1> HIDE DEF u
<1>2. PICK g : Flattens(g, u, n + 1) /\ FlattenSeq(u) = g[n + 1]
  BY <1>1, FlattenIs
<1>3. /\ g[n + 1] = IF n + 1 = 1 THEN x ELSE g[n + 1 - 1] \o x
      /\ n + 1 - 1 = n
  BY <1>1, <1>2, FlattensAt
<1>4. CASE n = 0
  <2>1. t = <<>> /\ FlattenSeq(t) = t
    BY <1>4, EmptySeq DEF FlattenSeq
  <2>2. <<>> \o x = x
    BY ConcatEmptySeq
  <2> QED BY <1>2, <1>3, <1>4, <2>1, <2>2 DEF u
<1>5. CASE n # 0
  <2>1. PICK f : Flattens(f, t, n) /\ FlattenSeq(t) = f[n]
    BY <1>1, <1>5, FlattenIs
  <2>2. n <= n + 1 /\ n + 1 \in Nat /\ n \in 1..n
    BY <1>1, <1>5
  <2>3. f[n] = g[n]
    <3> HIDE DEF n
    <3>0. /\ n \in Nat /\ n + 1 \in Nat /\ n <= n + 1 /\ \A i \in 1..n : t[i] = u[i]
          /\ Flattens(f, t, n) /\ Flattens(g, u, n + 1)
      BY <1>1, <1>2, <2>1, <2>2
    <3>1. \A i \in 1..n : f[i] = g[i]
      BY <3>0, FlattensUnique
    <3> QED BY <2>2, <3>1
  <2> QED BY <1>1, <1>2, <1>3, <1>5, <2>1, <2>3 DEF u
<1> QED BY <1>4, <1>5

Text == Seq({"x", "nl"})

\* One line more, and none.
LEMMA UnlinesAppend ==
  ASSUME NEW list \in Seq(Text), NEW line \in Text
  PROVE  Unlines(Append(list, line)) = Unlines(list) \o Append(line, "nl")
<1> DEFINE t == [i \in DOMAIN list |-> Append(list[i], "nl")]
           u == [i \in DOMAIN Append(list, line) |-> Append(Append(list, line)[i], "nl")]
           n == Len(list)
           x == Append(line, "nl")
<1>1. /\ n \in Nat /\ DOMAIN list = 1..n /\ DOMAIN Append(list, line) = 1..(n + 1)
      /\ Append(list, line)[n + 1] = line
      /\ \A i \in 1..n : Append(list, line)[i] = list[i] /\ list[i] \in Text
  BY LenProperties, AppendProperties, ElementOfSeq
<1>2. \A y \in Text : Append(y, "nl") \in Text
  BY AppendProperties DEF Text
<1>3. t \in Seq(Text) /\ Len(t) = n
  <2>1. t = [i \in 1..n |-> Append(list[i], "nl")]
    BY <1>1
  <2>2. \A i \in 1..n : Append(list[i], "nl") \in Text
    BY <1>1, <1>2
  <2> QED BY <1>1, <2>1, <2>2, IsASeq
<1>4. x \in Text
  BY <1>2
<1>5. u = Append(t, x)
  <2>1. Append(t, x) \in Seq(Text) /\ Len(Append(t, x)) = n + 1
        /\ (\A i \in 1..n : Append(t, x)[i] = t[i]) /\ Append(t, x)[n + 1] = x
    <3> HIDE DEF t, x, n
    <3> QED BY <1>3, <1>4, AppendProperties
  <2>2. Append(t, x) = [i \in 1..(n + 1) |-> Append(t, x)[i]]
    <3> HIDE DEF t, x
    <3> QED BY <2>1, LenProperties
  <2>3. ASSUME NEW i \in 1..(n + 1) PROVE u[i] = Append(t, x)[i]
    <3>1. CASE i \in 1..n
      <4>1. u[i] = Append(list[i], "nl") /\ t[i] = Append(list[i], "nl")
        BY <1>1, <3>1
      <4> QED BY <2>1, <3>1, <4>1
    <3>2. CASE i = n + 1
      <4>1. u[i] = Append(line, "nl")
        BY <1>1, <3>2
      <4> QED BY <2>1, <3>2, <4>1
    <3> QED BY <1>1, <3>1, <3>2
  <2>4. u = [i \in 1..(n + 1) |-> u[i]]
    BY <1>1
  <2> HIDE DEF u, t, x
  <2> QED BY <2>2, <2>3, <2>4
<1>6. FlattenSeq(Append(t, x)) = FlattenSeq(t) \o x
  <2> HIDE DEF t, x
  <2> QED BY <1>3, <1>4, FlattenAppend DEF Text
<1>7. Unlines(Append(list, line)) = FlattenSeq(u) /\ Unlines(list) = FlattenSeq(t)
  BY DEF Unlines
<1> QED BY <1>5, <1>6, <1>7

LEMMA UnlinesNone == Unlines(<<>>) = <<>>
<1>1. [i \in DOMAIN <<>> |-> Append(<<>>[i], "nl")] = <<>>
  OBVIOUS
<1> QED BY <1>1 DEF Unlines, FlattenSeq

------------------------------------------------------------------------------
(* The pipe and its scanner.                                                *)

Offers == [pc : {"idle", "wait", "offer"}, rest : Text]
Scans  == [pc : {"read", "split", "print", "exiting", "stop", "close", "ended"},
           buf : Text, err : {"no", "eof", "long", "progress"}, empties : Nat, line : Text]

PipeTyped ==
  /\ wrMu \in Producers \cup {NoProducer} /\ chunks \in 0..MaxChunks
  /\ offer \in [Producers -> Offers] /\ scan \in Scans
  /\ \A p \in Producers : offer[p].pc = "offer" => wrMu = p
  /\ Len(scan.buf) <= Limit /\ scan.empties <= EmptyReads
  /\ taken \in Text /\ printed \in Seq(Text) /\ Unlines(printed) \in Text

\* How the scanner comes to its end.
ScanInv ==
  /\ scan.pc = "read" => scan.err = "no"
  /\ scan.err = "eof" => "writer" \in closed
  /\ scan.pc \in {"stop", "close", "ended"} =>
       scan.err # "no" /\ (scan.err = "eof" => scan.buf = <<>>)
  /\ scan.pc \in {"close", "ended"} => complained \/ scan.err = "eof"
  /\ complained => scan.pc \in {"close", "ended"}
  /\ "reader" \in closed => scan.pc = "ended"
  /\ refused => scan.pc = "ended" \/ "writer" \in closed
  /\ closed \subseteq {"reader", "writer"}

\* What is printed and held is what was taken, until an unfinished last line is ended by a
\* line feed of its own: then nothing is held any more and nothing will be taken.
Held == IF scan.pc = "print" THEN scan.line \o <<"nl">> \o scan.buf ELSE scan.buf
TextInv ==
  \/ Unlines(printed) \o Held = taken
  \/ /\ Unlines(printed) \o Held = Append(taken, "nl")
     /\ scan.err # "no" /\ scan.buf = <<>>

PipeInv == PipeTyped /\ ScanInv /\ TextInv

LEMMA Joined ==
  ASSUME NEW a \in Text, NEW b \in Text
  PROVE  /\ a \o b \in Text /\ a \o <<>> = a /\ Append(a, "nl") = a \o <<"nl">>
         /\ Append(a, "nl") \in Text /\ <<"nl">> \in Text /\ <<>> \in Text
<1> USE DEF Text
<1>1. <<"nl">> \in Seq({"x", "nl"}) /\ <<>> \in Seq({"x", "nl"}) /\ "nl" \in {"x", "nl"}
  OBVIOUS
<1>2. a \o b \in Text
  BY ConcatProperties
<1>3. a \o <<>> = a
  BY ConcatEmptySeq
<1>4. Append(a, "nl") = a \o <<"nl">>
  BY <1>1, AppendIsConcat
<1>5. Append(a, "nl") \in Text
  BY <1>1, AppendProperties
<1> QED BY <1>1, <1>2, <1>3, <1>4, <1>5

LEMMA Associated ==
  ASSUME NEW a \in Text, NEW b \in Text, NEW c \in Text
  PROVE  (a \o b) \o c = a \o (b \o c)
  BY ConcatAssociative DEF Text

\* A part of a text.
LEMMA PartOf ==
  ASSUME NEW a \in Text, NEW m \in Nat \ {0}, NEW n \in Nat, n <= Len(a)
  PROVE  /\ SubSeq(a, m, n) \in Text
         /\ Len(SubSeq(a, m, n)) = IF m <= n THEN n - m + 1 ELSE 0
         /\ \A i \in 1..(n - m + 1) : SubSeq(a, m, n)[i] = a[m + i - 1]
<1>1. Len(a) \in Nat
  BY LenProperties DEF Text
<1>2. \A i \in m..n : i \in 1..Len(a)
  BY <1>1
<1>3. \A i \in m..n : a[i] \in {"x", "nl"}
  BY <1>2, ElementOfSeq DEF Text
<1> QED BY <1>3, SubSeqProperties DEF Text

\* ScanLines: a line, its line feed and the rest are the text.
LEMMA SplitText ==
  ASSUME NEW a \in Text, NEW end, end = LineEnd(a), end # 0
  PROVE  /\ SubSeq(a, 1, end - 1) \in Text /\ SubSeq(a, end + 1, Len(a)) \in Text
         /\ a = SubSeq(a, 1, end - 1) \o (<<"nl">> \o SubSeq(a, end + 1, Len(a)))
         /\ Len(SubSeq(a, end + 1, Len(a))) <= Len(a)
<1>1. Len(a) \in Nat /\ DOMAIN a = 1..Len(a)
  BY LenProperties DEF Text
<1>2. end \in 1..Len(a) /\ a[end] = "nl"
  <2> DEFINE E(i) == i \in DOMAIN a /\ a[i] = "nl" /\ \A j \in 1..(i - 1) : a[j] # "nl"
  <2>1. end = CHOOSE i \in DOMAIN a : a[i] = "nl" /\ \A j \in 1..(i - 1) : a[j] # "nl"
    BY DEF LineEnd
  <2>2. \E i \in DOMAIN a : a[i] = "nl" /\ \A j \in 1..(i - 1) : a[j] # "nl"
    <3> DEFINE T == {k \in Nat : \A i \in 1..k : i <= Len(a) => a[i] # "nl"}
    <3> SUFFICES ASSUME ~ \E i \in DOMAIN a : /\ a[i] = "nl"
                                              /\ \A j \in 1..(i - 1) : a[j] # "nl"
                 PROVE  FALSE
      OBVIOUS
    <3>1. PICK k \in DOMAIN a : a[k] = "nl"
      BY DEF LineEnd
    <3>2. 0 \in T
      OBVIOUS
    <3>3. ASSUME NEW m \in T PROVE m + 1 \in T
      <4> SUFFICES ASSUME NEW i \in 1..(m + 1), i <= Len(a) PROVE a[i] # "nl"
        OBVIOUS
      <4>1. \A j \in 1..(i - 1) : j \in 1..m /\ j <= Len(a)
        BY <1>1
      <4>2. \A j \in 1..(i - 1) : a[j] # "nl"
        BY <4>1
      <4>3. i \in DOMAIN a
        BY <1>1
      <4> QED BY <4>2, <4>3
    <3>4. T = Nat
      <4> HIDE DEF T
      <4> QED BY <3>2, <3>3, SetInduction DEF T
    <3>5. k \in T /\ k \in 1..k /\ k <= Len(a)
      BY <1>1, <3>4
    <3> QED BY <3>1, <3>5
  <2> QED BY <1>1, <2>1, <2>2
<1> DEFINE line == SubSeq(a, 1, end - 1)
           rest == SubSeq(a, end + 1, Len(a))
           n == Len(a)
<1>3. /\ end - 1 \in Nat /\ end + 1 \in Nat \ {0} /\ end - 1 <= n
      /\ end - 1 - 1 + 1 = end - 1 /\ (1 <= end - 1 \/ end - 1 = 0)
      /\ end + 1 <= n \/ n = end
      /\ n - (end + 1) + 1 = n - end /\ n - end \in Nat
  BY <1>1, <1>2
<1>4. /\ line \in Text /\ Len(line) = end - 1
      /\ \A i \in 1..(end - 1) : line[i] = a[i]
  <2>1. /\ line \in Text /\ Len(line) = IF 1 <= end - 1 THEN end - 1 - 1 + 1 ELSE 0
        /\ \A i \in 1..(end - 1 - 1 + 1) : line[i] = a[1 + i - 1]
    BY <1>1, <1>3, PartOf
  <2>2. \A i \in 1..(end - 1) : 1 + i - 1 = i
    BY <1>3
  <2> HIDE DEF line
  <2> QED BY <1>3, <2>1, <2>2
<1>5. /\ rest \in Text /\ Len(rest) = n - end
      /\ \A i \in 1..(n - end) : rest[i] = a[end + i]
  <2>1. /\ rest \in Text /\ Len(rest) = IF end + 1 <= n THEN n - (end + 1) + 1 ELSE 0
        /\ \A i \in 1..(n - (end + 1) + 1) : rest[i] = a[end + 1 + i - 1]
    BY <1>1, <1>3, PartOf
  <2>2. \A i \in 1..(n - end) : end + 1 + i - 1 = end + i
    BY <1>2, <1>3
  <2> HIDE DEF rest
  <2> QED BY <1>3, <2>1, <2>2
<1> HIDE DEF line, rest
<1>6. <<"nl">> \in Text /\ Len(<<"nl">>) = 1 /\ <<"nl">>[1] = "nl"
  BY DEF Text
<1> DEFINE tail == <<"nl">> \o rest
<1>7. /\ tail \in Text /\ Len(tail) = n - end + 1 /\ tail[1] = "nl"
      /\ \A i \in 1..(n - end) : tail[i + 1] = rest[i]
  <2>1. /\ tail \in Text /\ Len(tail) = 1 + (n - end)
        /\ \A i \in 1..(1 + (n - end)) :
             tail[i] = IF i <= 1 THEN <<"nl">>[i] ELSE rest[i - 1]
    BY <1>5, <1>6, ConcatProperties DEF Text
  <2>2. /\ 1 \in 1..(1 + (n - end)) /\ 1 <= 1 /\ 1 + (n - end) = n - end + 1
        /\ \A i \in 1..(n - end) : /\ i + 1 \in 1..(1 + (n - end)) /\ ~(i + 1 <= 1)
                                   /\ i + 1 - 1 = i
    BY <1>3
  <2> HIDE DEF tail
  <2> QED BY <1>6, <2>1, <2>2
<1> HIDE DEF tail
<1> DEFINE whole == line \o tail
<1>8. whole \in Text /\ Len(whole) = n /\ \A i \in 1..n : whole[i] = a[i]
  <2>1. /\ whole \in Text /\ Len(whole) = end - 1 + (n - end + 1)
        /\ \A i \in 1..(end - 1 + (n - end + 1)) :
             whole[i] = IF i <= end - 1 THEN line[i] ELSE tail[i - (end - 1)]
    <3>1. /\ whole \in Text /\ Len(whole) = Len(line) + Len(tail)
          /\ \A i \in 1..(Len(line) + Len(tail)) :
               whole[i] = IF i <= Len(line) THEN line[i] ELSE tail[i - Len(line)]
      BY <1>4, <1>7, ConcatProperties DEF Text
    <3> HIDE DEF whole
    <3> QED BY <1>4, <1>7, <3>1
  <2>2. end - 1 + (n - end + 1) = n
    BY <1>1, <1>2
  <2> HIDE DEF whole
  <2>3. ASSUME NEW i \in 1..n PROVE whole[i] = a[i]
    <3>1. CASE i <= end - 1
      <4>1. i \in 1..(end - 1)
        BY <1>1, <1>2, <3>1
      <4> QED BY <1>4, <2>1, <2>2, <3>1, <4>1
    <3>2. CASE i = end
      <4>1. ~(i <= end - 1) /\ i - (end - 1) = 1
        BY <1>1, <1>2, <3>2
      <4> QED BY <1>2, <1>7, <2>1, <2>2, <3>2, <4>1
    <3>3. CASE i > end
      <4>1. /\ ~(i <= end - 1) /\ i - end \in 1..(n - end)
            /\ i - (end - 1) = i - end + 1 /\ end + (i - end) = i
        BY <1>1, <1>2, <3>3
      <4> QED BY <1>5, <1>7, <2>1, <2>2, <4>1
    <3> QED BY <1>1, <1>2, <3>1, <3>2, <3>3
  <2> QED BY <2>1, <2>2, <2>3
<1>9. whole = a
  <2> HIDE DEF whole, n
  <2> QED BY <1>8, SeqEqual DEF Text, n
<1>10. n - end <= n
  BY <1>1, <1>2
<1> QED BY <1>4, <1>5, <1>9, <1>10 DEF line, rest, tail

\* What the writers do.
LEMMA WritersKeep ==
  ASSUME PipeInv, NEW p \in Producers,
         \/ \E c \in Chunks : Write(p, c)
         \/ LockPipe(p) \/ WriteFails(p) \/ CloseWriter
  PROVE  PipeInv'
<1>0. /\ UNCHANGED <<scan, taken, printed, complained>> /\ closed \subseteq closed'
      /\ "reader" \in closed' => "reader" \in closed
  BY DEF Write, LockPipe, WriteFails, CloseWriter
<1>1. PipeTyped'
  <2>1. NoOffer \in Offers /\ NoOffer.pc = "idle"
    BY DEF NoOffer, Offers, Text
  <2>2. offer[p] \in Offers
    BY DEF PipeInv, PipeTyped
  <2>3. CASE \E c \in Chunks : Write(p, c)
    <3>1. PICK c \in Chunks : Write(p, c)
      BY <2>3
    <3> DEFINE o == [pc |-> "wait", rest |-> c]
    <3>2. o \in Offers /\ o.pc = "wait"
      BY PipeAssumption DEF Offers, Text
    <3>3. offer' = [offer EXCEPT ![p] = o] /\ wrMu' = wrMu
      BY <3>1 DEF Write
    <3>4. chunks' \in 0..MaxChunks
      BY <3>1, PipeAssumption DEF Write, PipeInv, PipeTyped
    <3> HIDE DEF o
    <3> QED BY <1>0, <3>2, <3>3, <3>4 DEF PipeInv, PipeTyped
  <2>4. CASE LockPipe(p)
    <3> DEFINE o == [offer[p] EXCEPT !.pc = "offer"]
    <3>1. o \in Offers
      BY <2>2 DEF Offers
    <3>2. /\ offer' = [offer EXCEPT ![p] = o] /\ wrMu' = p /\ wrMu = NoProducer
          /\ chunks' = chunks
      BY <2>4 DEF LockPipe
    <3>3. \A q \in Producers : offer[q].pc # "offer"
      BY <3>2, PipeAssumption DEF PipeInv, PipeTyped
    <3> HIDE DEF o
    <3>4. \A q \in Producers \ {p} : offer'[q] = offer[q]
      BY <3>2 DEF PipeInv, PipeTyped
    <3> QED BY <1>0, <3>1, <3>2, <3>3, <3>4 DEF PipeInv, PipeTyped
  <2>5. CASE WriteFails(p)
    <3>1. offer' = [offer EXCEPT ![p] = NoOffer] /\ wrMu' = Freed(p) /\ chunks' = chunks
      BY <2>5 DEF WriteFails
    <3>2. \A q \in Producers : offer'[q].pc = "offer" => q # p /\ offer[q].pc = "offer"
      BY <2>1, <3>1 DEF PipeInv, PipeTyped
    <3>3. \A q \in Producers : offer'[q].pc = "offer" => wrMu' = q
      BY <3>1, <3>2 DEF PipeInv, PipeTyped, Freed
    <3>4. wrMu' \in Producers \cup {NoProducer}
      BY <3>1 DEF PipeInv, PipeTyped, Freed
    <3> QED BY <1>0, <2>1, <3>1, <3>3, <3>4 DEF PipeInv, PipeTyped
  <2>6. CASE CloseWriter
    BY <1>0, <2>6 DEF CloseWriter, PipeInv, PipeTyped
  <2> QED BY <2>3, <2>4, <2>5, <2>6
<1>2. ScanInv'
  <2>1. refused' => scan.pc = "ended" \/ "writer" \in closed'
    <3>1. CASE WriteFails(p)
      <4>1. refused' = (refused \/ "writer" \notin closed) /\ closed' = closed /\ closed # {}
        BY <3>1 DEF WriteFails
      <4>2. closed \subseteq {"reader", "writer"}
        BY DEF PipeInv, ScanInv
      <4> QED BY <4>1, <4>2 DEF PipeInv, ScanInv
    <3>2. CASE ~WriteFails(p)
      <4>1. refused' = refused
        BY <3>2 DEF Write, LockPipe, CloseWriter
      <4> QED BY <1>0, <4>1 DEF PipeInv, ScanInv
    <3> QED BY <3>1, <3>2
  <2>2. closed' \subseteq {"reader", "writer"}
    BY DEF PipeInv, ScanInv, Write, LockPipe, WriteFails, CloseWriter
  <2> QED BY <1>0, <2>1, <2>2 DEF PipeInv, ScanInv
<1>3. TextInv'
  BY <1>0 DEF PipeInv, TextInv, Held
<1> QED BY <1>1, <1>2, <1>3 DEF PipeInv

\* A read takes a beginning of what is offered, as far as there is room for it.
LEMMA ReadPiece ==
  ASSUME NEW rest \in Text, NEW room \in Nat
  PROVE  LET piece == SubSeq(rest, 1, Min({room, Len(rest)})) IN
         /\ piece \in Text /\ Len(piece) <= room
         /\ SubSeq(rest, Len(piece) + 1, Len(rest)) \in Text
<1> DEFINE n == Min({room, Len(rest)})
           piece == SubSeq(rest, 1, n)
<1>1. Len(rest) \in Nat
  BY LenProperties DEF Text
<1>2. n \in Nat /\ n <= room /\ n <= Len(rest)
  <2>1. \E x \in {room, Len(rest)} : \A y \in {room, Len(rest)} : x <= y
    BY <1>1
  <2>2. n \in {room, Len(rest)} /\ \A y \in {room, Len(rest)} : n <= y
    BY <2>1 DEF Min
  <2> QED BY <1>1, <2>2
<1> HIDE DEF n
<1>3. piece \in Text /\ Len(piece) = n
  <2>1. piece \in Text /\ Len(piece) = IF 1 <= n THEN n - 1 + 1 ELSE 0
    BY <1>2, PartOf
  <2>2. (IF 1 <= n THEN n - 1 + 1 ELSE 0) = n
    BY <1>2
  <2> HIDE DEF piece
  <2> QED BY <2>1, <2>2
<1> HIDE DEF piece
<1>4. SubSeq(rest, Len(piece) + 1, Len(rest)) \in Text
  <2>1. Len(piece) + 1 \in Nat \ {0} /\ Len(rest) <= Len(rest)
    BY <1>1, <1>2, <1>3
  <2> QED BY <1>1, <2>1, PartOf
<1>5. piece \in Text /\ Len(piece) <= room
  BY <1>2, <1>3
<1> QED BY <1>4, <1>5 DEF piece, n

LEMMA ReadKeeps ==
  ASSUME PipeInv, NEW p \in Producers, Read(p)
  PROVE  PipeInv' /\ scan'.pc \in {"read", "split"}
<1> DEFINE rest == offer[p].rest
           piece == SubSeq(rest, 1, Min({Room, Len(rest)}))
           left == SubSeq(rest, Len(piece) + 1, Len(rest))
           more == [scan EXCEPT !.buf = @ \o piece, !.pc = "split", !.empties = 0]
           none == [scan EXCEPT !.empties = @ + 1]
           over == [scan EXCEPT !.err = "progress", !.pc = "split"]
<1>1. /\ scan.pc = "read" /\ closed = {} /\ offer[p].pc = "offer"
      /\ taken' = taken \o piece
      /\ offer' = [offer EXCEPT ![p] = IF left = <<>> THEN NoOffer
                                       ELSE [offer[p] EXCEPT !.rest = left]]
      /\ wrMu' = IF left = <<>> THEN NoProducer ELSE p
      /\ scan' = IF piece # <<>> THEN more
                 ELSE IF scan.empties < EmptyReads THEN none ELSE over
      /\ UNCHANGED <<closed, printed, complained, chunks, refused>>
  BY DEF Read
<1>2. /\ scan \in Scans /\ scan.buf \in Text /\ scan.empties \in Nat /\ scan.err = "no"
      /\ Len(scan.buf) \in Nat /\ Len(scan.buf) <= Limit /\ scan.empties <= EmptyReads
      /\ offer[p] \in Offers /\ rest \in Text
      /\ taken \in Text /\ printed \in Seq(Text) /\ Unlines(printed) \in Text
  BY <1>1, LenProperties DEF PipeInv, PipeTyped, ScanInv, Scans, Offers, Text
<1>3. Room \in Nat /\ Len(scan.buf) + Room = Limit
  BY <1>2, PipeAssumption DEF Room
<1>4. piece \in Text /\ Len(piece) <= Room /\ left \in Text
  BY <1>2, <1>3, ReadPiece
<1> HIDE DEF piece, left, rest
<1>5. /\ scan.buf \o piece \in Text /\ Len(scan.buf \o piece) <= Limit
  <2>1. scan.buf \o piece \in Text /\ Len(scan.buf \o piece) = Len(scan.buf) + Len(piece)
    BY <1>2, <1>4, ConcatProperties DEF Text
  <2>2. Len(piece) \in Nat
    BY <1>4, LenProperties DEF Text
  <2> QED BY <1>2, <1>3, <1>4, <2>1, <2>2
<1>6. /\ more \in Scans /\ more.buf = scan.buf \o piece /\ more.pc = "split"
      /\ more.empties = 0 /\ more.err = "no"
      /\ none \in Scans /\ none.buf = scan.buf /\ none.pc = "read" /\ none.err = "no"
      /\ none.empties = scan.empties + 1
      /\ over \in Scans /\ over.buf = scan.buf /\ over.pc = "split"
      /\ over.err = "progress" /\ over.empties = scan.empties
  <2> DEFINE b == scan.buf \o piece
  <2>1. b \in Text
    BY <1>5
  <2> HIDE DEF b
  <2>2. more = [scan EXCEPT !.buf = b, !.pc = "split", !.empties = 0]
    BY DEF b
  <2>3. /\ more \in Scans /\ more.buf = b /\ more.pc = "split"
        /\ more.empties = 0 /\ more.err = "no"
    BY <1>2, <2>1, <2>2 DEF Scans
  <2>4. /\ none \in Scans /\ none.buf = scan.buf /\ none.pc = "read" /\ none.err = "no"
        /\ none.empties = scan.empties + 1
    BY <1>1, <1>2 DEF Scans
  <2>5. /\ over \in Scans /\ over.buf = scan.buf /\ over.pc = "split"
        /\ over.err = "progress" /\ over.empties = scan.empties
    BY <1>2 DEF Scans
  <2> QED BY <2>3, <2>4, <2>5 DEF b
<1> HIDE DEF more, none, over
<1>7. /\ scan' \in Scans /\ Len(scan'.buf) <= Limit /\ scan'.empties <= EmptyReads
      /\ scan'.pc \in {"read", "split"} /\ scan'.err \in {"no", "progress"}
      /\ scan'.pc = "read" => scan'.err = "no"
  <2>1. 0 <= EmptyReads /\ (scan.empties < EmptyReads => scan.empties + 1 <= EmptyReads)
    BY <1>2, PipeAssumption
  <2> QED BY <1>1, <1>2, <1>5, <1>6, <2>1
<1>8. scan'.buf = scan.buf \o piece
  <2>1. scan.buf \o <<>> = scan.buf
    BY <1>2, Joined
  <2> QED BY <1>1, <1>6, <2>1
<1>9. PipeTyped'
  <2>1. taken' \in Text
    BY <1>1, <1>2, <1>4, Joined
  <2>2. NoOffer \in Offers /\ [offer[p] EXCEPT !.rest = left] \in Offers
        /\ NoOffer.pc = "idle"
    <3>1. NoOffer \in Offers /\ NoOffer.pc = "idle"
      BY DEF NoOffer, Offers, Text
    <3>2. [offer[p] EXCEPT !.rest = left] \in Offers
      BY <1>2, <1>4 DEF Offers
    <3> QED BY <3>1, <3>2
  <2>3. offer' \in [Producers -> Offers]
    BY <1>1, <2>2 DEF PipeInv, PipeTyped
  <2>4. wrMu = p /\ \A q \in Producers \ {p} : offer'[q] = offer[q]
    BY <1>1 DEF PipeInv, PipeTyped
  <2>5. \A q \in Producers : offer'[q].pc = "offer" => wrMu' = q
    <3>1. \A q \in Producers \ {p} : offer[q].pc # "offer"
      BY <2>4 DEF PipeInv, PipeTyped
    <3>2. left = <<>> => offer'[p].pc = "idle"
      BY <1>1, <2>2 DEF PipeInv, PipeTyped
    <3> QED BY <1>1, <2>4, <3>1, <3>2
  <2>6. wrMu' \in Producers \cup {NoProducer}
    BY <1>1
  <2> QED BY <1>1, <1>7, <2>1, <2>3, <2>5, <2>6 DEF PipeInv, PipeTyped
<1>10. ScanInv'
  BY <1>1, <1>7 DEF PipeInv, ScanInv
<1>11. TextInv'
  <2>1. Unlines(printed) \o scan.buf = taken
    BY <1>1, <1>2 DEF PipeInv, TextInv, Held
  <2>2. Held' = scan.buf \o piece
    BY <1>7, <1>8 DEF Held
  <2>3. Unlines(printed) \o (scan.buf \o piece) = taken \o piece
    <3>1. (Unlines(printed) \o scan.buf) \o piece = Unlines(printed) \o (scan.buf \o piece)
      BY <1>2, <1>4, Associated
    <3> QED BY <2>1, <3>1
  <2> QED BY <1>1, <2>2, <2>3 DEF TextInv
<1> QED BY <1>7, <1>9, <1>10, <1>11 DEF PipeInv

\* A step of the scanner that takes and prints nothing.
LEMMA ScanKeeps ==
  ASSUME PipeInv, UNCHANGED <<wrMu, offer, taken, printed, chunks>>,
         scan' \in Scans, Len(scan'.buf) <= Limit, scan'.empties <= EmptyReads,
         Held' = Held \/ /\ Held' = Append(Held, "nl") /\ scan'.err # "no"
                         /\ scan'.buf = <<>> /\ Held \in Text /\ scan.buf # <<>>,
         scan.err # "no" /\ scan.buf = <<>> => scan'.err # "no" /\ scan'.buf = <<>>
  PROVE  PipeTyped' /\ TextInv'
<1>1. PipeTyped'
  BY DEF PipeInv, PipeTyped
<1>2. TextInv'
  <2>1. CASE Held' = Held
    BY <2>1 DEF PipeInv, TextInv
  <2>2. CASE /\ Held' = Append(Held, "nl") /\ scan'.err # "no"
             /\ scan'.buf = <<>> /\ Held \in Text /\ scan.buf # <<>>
    <3>1. Unlines(printed) \o Held = taken
      BY <2>2 DEF PipeInv, TextInv
    <3>2. Unlines(printed) \in Text /\ Held \in Text /\ taken \in Text /\ <<"nl">> \in Text
      BY <2>2, Joined DEF PipeInv, PipeTyped
    <3>3. Append(Held, "nl") = Held \o <<"nl">> /\ Append(taken, "nl") = taken \o <<"nl">>
      BY <3>2, Joined
    <3>4. (Unlines(printed) \o Held) \o <<"nl">> = Unlines(printed) \o (Held \o <<"nl">>)
      BY <3>2, Associated
    <3> QED BY <2>2, <3>1, <3>3, <3>4 DEF TextInv
  <2> QED BY <2>1, <2>2
<1> QED BY <1>1, <1>2

\* What the scanner is, as the steps need it.
LEMMA ScanFacts ==
  ASSUME PipeInv
  PROVE  /\ scan \in Scans /\ scan.buf \in Text /\ scan.line \in Text
         /\ Len(scan.buf) \in Nat /\ Len(scan.buf) <= Limit /\ scan.empties <= EmptyReads
         /\ <<>> \in Text /\ Len(<<>>) = 0 /\ 0 <= Limit /\ 0 <= EmptyReads
<1>1. scan \in Scans /\ scan.buf \in Text /\ scan.line \in Text
  BY DEF PipeInv, PipeTyped, Scans
<1>2. Len(scan.buf) \in Nat
  BY <1>1, LenProperties DEF Text
<1> QED BY <1>1, <1>2, PipeAssumption DEF PipeInv, PipeTyped, Text

LEMMA ReadEndKeeps ==
  ASSUME PipeInv, ReadEnd
  PROVE  PipeInv' /\ scan'.pc = "split"
<1>1. /\ scan.pc = "read" /\ "writer" \in closed
      /\ scan' = [scan EXCEPT !.err = "eof", !.pc = "split"]
      /\ UNCHANGED <<wrMu, offer, closed, taken, printed, complained, chunks, refused>>
  BY DEF ReadEnd
<1>2. /\ scan' \in Scans /\ scan'.buf = scan.buf /\ scan'.empties = scan.empties
      /\ scan'.pc = "split" /\ scan'.err = "eof"
  BY <1>1, ScanFacts DEF Scans
<1>3. Held' = Held
  BY <1>1, <1>2 DEF Held
<1>4. PipeTyped' /\ TextInv'
  BY <1>1, <1>2, <1>3, ScanFacts, ScanKeeps
<1>5. ScanInv'
  BY <1>1, <1>2 DEF PipeInv, ScanInv
<1> QED BY <1>2, <1>4, <1>5 DEF PipeInv

LEMMA SplitKeeps ==
  ASSUME PipeInv, Split
  PROVE  PipeInv' /\ scan'.pc \in {"print", "stop", "read"}
<1> DEFINE end == LineEnd(scan.buf)
           line == SubSeq(scan.buf, 1, end - 1)
           rest == SubSeq(scan.buf, end + 1, Len(scan.buf))
<1>0. /\ scan.pc = "split"
      /\ UNCHANGED <<wrMu, offer, closed, taken, printed, complained, chunks, refused>>
  BY DEF Split
<1>1. /\ end # 0 => scan' = [scan EXCEPT !.pc = "print", !.line = line, !.buf = rest]
      /\ end = 0 /\ scan.err # "no" /\ scan.buf = <<>> =>
           scan' = [scan EXCEPT !.pc = "stop"]
      /\ end = 0 /\ scan.err # "no" /\ scan.buf # <<>> =>
           scan' = [scan EXCEPT !.pc = "print", !.line = scan.buf, !.buf = <<>>]
      /\ end = 0 /\ scan.err = "no" /\ Room = 0 =>
           scan' = [scan EXCEPT !.pc = "stop", !.err = "long"]
      /\ end = 0 /\ scan.err = "no" /\ Room # 0 =>
           scan' = [scan EXCEPT !.pc = "read", !.empties = 0]
  BY DEF Split
<1>2. /\ end # 0 => /\ line \in Text /\ rest \in Text /\ Len(rest) <= Len(scan.buf)
                    /\ scan.buf = line \o (<<"nl">> \o rest)
      /\ end # 0 => Len(rest) \in Nat
  BY ScanFacts, SplitText, LenProperties DEF Text
<1>3. scan.buf = <<>> => end = 0
  BY DEF LineEnd
<1> HIDE DEF end, line, rest
<1>4. Held = scan.buf
  BY <1>0 DEF Held
\* The five ways.
<1>5. CASE end # 0
  <2>1. /\ scan' \in Scans /\ scan'.pc = "print" /\ scan'.line = line /\ scan'.buf = rest
        /\ scan'.empties = scan.empties /\ scan'.err = scan.err
    BY <1>1, <1>2, <1>5, ScanFacts DEF Scans
  <2>2. Held' = line \o <<"nl">> \o rest
    BY <2>1 DEF Held
  <2>3. (line \o <<"nl">>) \o rest = line \o (<<"nl">> \o rest)
    BY <1>2, <1>5, Joined, Associated
  <2>4. Held' = Held
    BY <1>2, <1>4, <1>5, <2>2, <2>3
  <2>5. Len(scan'.buf) <= Limit /\ scan'.empties <= EmptyReads
    BY <1>2, <1>5, <2>1, ScanFacts, PipeAssumption
  <2>6. scan.buf # <<>>
    BY <1>3, <1>5
  <2>7. PipeTyped' /\ TextInv'
    BY <1>0, <2>1, <2>4, <2>5, <2>6, ScanKeeps
  <2>8. ScanInv'
    BY <1>0, <2>1 DEF PipeInv, ScanInv
  <2> QED BY <2>1, <2>7, <2>8 DEF PipeInv
<1>6. CASE end = 0 /\ scan.err # "no" /\ scan.buf = <<>>
  <2>1. /\ scan' \in Scans /\ scan'.pc = "stop" /\ scan'.buf = scan.buf
        /\ scan'.empties = scan.empties /\ scan'.err = scan.err
    BY <1>1, <1>6, ScanFacts DEF Scans
  <2>2. Held' = Held
    BY <1>4, <2>1 DEF Held
  <2>3. PipeTyped' /\ TextInv'
    BY <1>0, <1>6, <2>1, <2>2, ScanFacts, ScanKeeps
  <2>4. ScanInv'
    BY <1>0, <1>6, <2>1 DEF PipeInv, ScanInv
  <2> QED BY <2>1, <2>3, <2>4 DEF PipeInv
<1>7. CASE end = 0 /\ scan.err # "no" /\ scan.buf # <<>>
  <2>1. /\ scan' \in Scans /\ scan'.pc = "print" /\ scan'.line = scan.buf
        /\ scan'.buf = <<>> /\ scan'.empties = scan.empties /\ scan'.err = scan.err
    <3>1. scan' = [scan EXCEPT !.pc = "print", !.line = scan.buf, !.buf = <<>>]
      BY <1>1, <1>7
    <3> QED BY <3>1, ScanFacts DEF Scans
  <2>2. Held' = scan.buf \o <<"nl">> \o <<>>
    BY <2>1 DEF Held
  <2>3. (scan.buf \o <<"nl">>) \o <<>> = Append(scan.buf, "nl")
    <3>1. Append(scan.buf, "nl") = scan.buf \o <<"nl">> /\ Append(scan.buf, "nl") \in Text
      BY ScanFacts, Joined
    <3>2. Append(scan.buf, "nl") \o <<>> = Append(scan.buf, "nl")
      BY <3>1, Joined
    <3> QED BY <3>1, <3>2
  <2>4. PipeTyped' /\ TextInv'
    <3>1. Held' = Append(Held, "nl") /\ Held \in Text
      BY <1>4, <2>2, <2>3, ScanFacts
    <3>2. Len(scan'.buf) <= Limit /\ scan'.empties <= EmptyReads
      BY <2>1, ScanFacts
    <3> QED BY <1>0, <1>7, <2>1, <3>1, <3>2, ScanKeeps
  <2>5. ScanInv'
    BY <1>0, <2>1 DEF PipeInv, ScanInv
  <2> QED BY <2>1, <2>4, <2>5 DEF PipeInv
<1>8. CASE end = 0 /\ scan.err = "no" /\ Room = 0
  <2>1. /\ scan' \in Scans /\ scan'.pc = "stop" /\ scan'.buf = scan.buf
        /\ scan'.empties = scan.empties /\ scan'.err = "long"
    BY <1>1, <1>8, ScanFacts DEF Scans
  <2>2. Held' = Held
    BY <1>4, <2>1 DEF Held
  <2>3. PipeTyped' /\ TextInv'
    BY <1>0, <1>8, <2>1, <2>2, ScanFacts, ScanKeeps
  <2>4. ScanInv'
    BY <1>0, <2>1 DEF PipeInv, ScanInv
  <2> QED BY <2>1, <2>3, <2>4 DEF PipeInv
<1>9. CASE end = 0 /\ scan.err = "no" /\ Room # 0
  <2>1. /\ scan' \in Scans /\ scan'.pc = "read" /\ scan'.buf = scan.buf
        /\ scan'.empties = 0 /\ scan'.err = "no"
    <3>1. scan' = [scan EXCEPT !.pc = "read", !.empties = 0]
      BY <1>1, <1>9
    <3> QED BY <1>9, <3>1, ScanFacts DEF Scans
  <2>2. Held' = Held
    BY <1>4, <2>1 DEF Held
  <2>3. PipeTyped' /\ TextInv'
    BY <1>0, <1>9, <2>1, <2>2, ScanFacts, ScanKeeps
  <2>4. ScanInv'
    BY <1>0, <2>1 DEF PipeInv, ScanInv
  <2> QED BY <2>1, <2>3, <2>4 DEF PipeInv
<1> QED BY <1>5, <1>6, <1>7, <1>8, <1>9

\* A line moves from the scanner to what is printed.
LEMMA HandOverKeeps ==
  ASSUME PipeInv, NEW then \in {"split", "exiting"}, HandOver(then)
  PROVE  PipeInv' /\ scan'.pc = then
<1>1. /\ scan.pc = "print" /\ printed' = Append(printed, scan.line)
      /\ scan' = [scan EXCEPT !.pc = then, !.line = <<>>]
      /\ UNCHANGED <<wrMu, offer, closed, taken, complained, chunks, refused>>
  BY DEF HandOver, Handed
<1>2. /\ scan' \in Scans /\ scan'.buf = scan.buf /\ scan'.empties = scan.empties
      /\ scan'.pc = then /\ scan'.err = scan.err
  BY <1>1, ScanFacts DEF Scans
<1>3. /\ printed \in Seq(Text) /\ Unlines(printed) \in Text /\ taken \in Text
      /\ scan.line \in Text /\ scan.buf \in Text
  BY ScanFacts DEF PipeInv, PipeTyped
<1>4. /\ <<"nl">> \in Text /\ Append(scan.line, "nl") = scan.line \o <<"nl">>
      /\ Append(scan.line, "nl") \in Text
  BY <1>3, Joined
<1>5. Unlines(printed') = Unlines(printed) \o (scan.line \o <<"nl">>)
  BY <1>1, <1>3, <1>4, UnlinesAppend
<1>6. Unlines(printed') \in Text /\ printed' \in Seq(Text)
  <2>1. Unlines(printed) \o (scan.line \o <<"nl">>) \in Text
    BY <1>3, <1>4, Joined
  <2>2. Append(printed, scan.line) \in Seq(Text)
    BY <1>3, AppendProperties
  <2> QED BY <1>1, <1>5, <2>1, <2>2
<1>7. Unlines(printed') \o scan'.buf = Unlines(printed) \o Held
  <2>1. Held = (scan.line \o <<"nl">>) \o scan.buf
    BY <1>1 DEF Held
  <2>2. (Unlines(printed) \o (scan.line \o <<"nl">>)) \o scan.buf
          = Unlines(printed) \o ((scan.line \o <<"nl">>) \o scan.buf)
    <3>1. scan.line \o <<"nl">> \in Text
      BY <1>4
    <3> QED BY <1>3, <3>1, Associated
  <2> QED BY <1>2, <1>5, <2>1, <2>2
<1>8. Held' = scan'.buf
  BY <1>2 DEF Held
<1>9. TextInv'
  BY <1>1, <1>2, <1>7, <1>8 DEF PipeInv, TextInv
<1>10. PipeTyped'
  BY <1>1, <1>2, <1>6 DEF PipeInv, PipeTyped
<1>11. ScanInv'
  BY <1>1, <1>2 DEF PipeInv, ScanInv
<1> QED BY <1>2, <1>9, <1>10, <1>11 DEF PipeInv

\* The end of the scanner's goroutine, and its return from Fatal.
LEMMA EndingKeeps ==
  ASSUME PipeInv,
         \/ Complain \/ CloseReader
         \/ /\ scan.pc = "exiting" /\ scan' = [scan EXCEPT !.pc = "split"]
            /\ UNCHANGED <<wrMu, offer, closed, taken, printed, complained, chunks, refused>>
  PROVE  PipeInv' /\ scan'.pc \in {"close", "ended", "split"}
<1>1. PICK to \in {"close", "ended", "split"} :
        /\ scan.pc \in {"stop", "close", "exiting"}
        /\ scan' = [scan EXCEPT !.pc = to]
        /\ to = "close" => Complain
        /\ to = "ended" => CloseReader
        /\ to = "split" => scan.pc = "exiting" /\ UNCHANGED <<closed, complained>>
        /\ UNCHANGED <<wrMu, offer, taken, printed, chunks, refused>>
  BY DEF Complain, CloseReader
<1>2. /\ scan' \in Scans /\ scan'.buf = scan.buf /\ scan'.empties = scan.empties
      /\ scan'.pc = to /\ scan'.err = scan.err
  BY <1>1, ScanFacts DEF Scans
<1>3. Held' = Held
  BY <1>1, <1>2 DEF Held
<1>4. PipeTyped' /\ TextInv'
  BY <1>1, <1>2, <1>3, ScanFacts, ScanKeeps
<1>5. ScanInv'
  <2>1. CASE Complain
    <3>1. /\ complained' = (scan.err # "eof") /\ UNCHANGED <<closed, refused>>
          /\ scan.pc = "stop"
      BY <2>1 DEF Complain, Complains
    <3>2. scan'.pc = "close"
      BY <2>1, ScanFacts DEF Complain, Scans
    <3> QED BY <1>2, <3>1, <3>2 DEF PipeInv, ScanInv
  <2>2. CASE CloseReader
    <3>1. /\ closed' = closed \cup {"reader"} /\ UNCHANGED <<complained, refused>>
          /\ scan.pc = "close"
      BY <2>2 DEF CloseReader, AtEnd
    <3>2. scan'.pc = "ended"
      BY <2>2, ScanFacts DEF CloseReader, Scans
    <3> QED BY <1>2, <3>1, <3>2 DEF PipeInv, ScanInv
  <2>3. CASE ~Complain /\ ~CloseReader
    BY <1>1, <1>2, <2>3 DEF PipeInv, ScanInv
  <2> QED BY <2>1, <2>2, <2>3
<1> QED BY <1>2, <1>4, <1>5 DEF PipeInv

------------------------------------------------------------------------------
(* The pipe and the exit handlers together.                                 *)

\* The scanner's goroutine runs handlers while it is in Fatal, or never goes on; it writes
\* to the pipe in a handler only.
Nested ==
  /\ scan.pc = "exiting" \/ Scanner \in gone \/ frames[Scanner] = <<>>
  /\ offer[Scanner].pc # "idle" => InHandler(Scanner)

PipeExitInv == ExitInv /\ PipeInv /\ Nested /\ printFunc \in Levels

ExitAct(t) == \/ \E h \in Handlers, first \in BOOLEAN : Register(t, h, first)
              \/ Exit(t) \/ StartHandler(t) \/ Goexit(t) \/ Finish(t)
              \/ \E how \in {"return", "panic"} : EndHandler(t, how)

LEMMA ExitActKeeps ==
  ASSUME ExitInv, NEW t \in Threads, ExitAct(t)
  PROVE  ExitInv'
  BY RegisterKeeps, ExitKeeps, StartKeeps, GoexitKeeps, FinishKeeps, EndKeeps DEF ExitAct

LEMMA OtherFrames ==
  ASSUME ExitInv, NEW t \in Threads, ExitAct(t), NEW q \in Threads, q # t
  PROVE  /\ frames'[q] = frames[q] /\ InHandler(q)' = InHandler(q)
         /\ gone \subseteq gone'
<1>1. frames'[q] = frames[q]
  BY DEF ExitInv, ExitAct, Register, Exit, StartHandler, Goexit, Finish, EndHandler, SetTop
<1>2. gone \subseteq gone'
  BY DEF ExitAct, Register, Exit, StartHandler, Goexit, Finish, EndHandler
<1> QED BY <1>1, <1>2 DEF InHandler

\* A step of user code or of runHandlers leaves the pipe alone.
LEMMA ExitSide ==
  ASSUME PipeExitInv, NEW t \in Threads, ExitAct(t), UNCHANGED <<pipeVars, printFunc>>,
         Free(t) \/ StartHandler(t) \/ Finish(t)
  PROVE  PipeExitInv'
<1>1. ExitInv'
  BY ExitActKeeps DEF PipeExitInv
<1>2. PipeInv'
  BY DEF PipeExitInv, PipeInv, PipeTyped, ScanInv, TextInv, Held, pipeVars
<1>3. Nested'
  <2>0. UNCHANGED <<scan, offer>>
    BY DEF pipeVars
  <2>1. CASE t # Scanner
    <3>1. /\ frames'[Scanner] = frames[Scanner] /\ InHandler(Scanner)' = InHandler(Scanner)
          /\ gone \subseteq gone'
      BY <2>1, OtherFrames, PipeExitAssumption DEF PipeExitInv
    <3> QED BY <2>0, <3>1 DEF PipeExitInv, Nested
  <2>2. CASE t = Scanner
    <3>1. offer[Scanner].pc = "idle"
      <4>1. CASE StartHandler(t)
        BY <2>2, <4>1, StartKeeps DEF PipeExitInv, Nested
      <4>2. CASE Finish(t)
        BY <2>2, <4>2, FinishKeeps DEF PipeExitInv, Nested
      <4>3. CASE Free(t)
        BY <2>2, <4>3 DEF Free
      <4> QED BY <4>1, <4>2, <4>3
    <3>2. frames[Scanner] # <<>>
      <4>1. CASE StartHandler(t) \/ Finish(t)
        BY <2>2, <4>1 DEF StartHandler, Finish
      <4>2. CASE Free(t)
        BY <2>2, <4>2 DEF Free, InHandler
      <4> QED BY <4>1, <4>2
    <3>3. gone \subseteq gone'
      BY DEF ExitAct, Register, Exit, StartHandler, Goexit, Finish, EndHandler
    <3> QED BY <2>0, <3>1, <3>2, <3>3 DEF PipeExitInv, Nested
  <2> QED BY <2>1, <2>2
<1> QED BY <1>1, <1>2, <1>3 DEF PipeExitInv

LEMMA SameExit ==
  ASSUME ExitInv, UNCHANGED exitVars
  PROVE  ExitInv' /\ InHandler(Scanner)' = InHandler(Scanner)
  BY DEF ExitInv, exitVars, InHandler

\* The end of the process by a stack that is used up.
LEMMA OverflowSide ==
  ASSUME PipeExitInv, Overflow, UNCHANGED <<pipeVars, printFunc>>
  PROVE  PipeExitInv'
<1>1. ExitInv'
  <2>1. ended'.how = "overflow"
    BY DEF Overflow
  <2> QED BY <2>1 DEF Overflow, PipeExitInv, ExitInv
<1>2. PipeInv'
  BY DEF PipeExitInv, PipeInv, PipeTyped, ScanInv, TextInv, Held, pipeVars
<1>3. Nested'
  BY DEF Overflow, PipeExitInv, Nested, InHandler, pipeVars
<1> QED BY <1>1, <1>2, <1>3 DEF PipeExitInv

\* A step of a writer.
LEMMA WriterSide ==
  ASSUME PipeExitInv, NEW t \in Threads, UNCHANGED <<exitVars, printFunc>>,
         \/ Free(t) /\ \E c \in Chunks : Write(t, c)
         \/ CloseWriter \/ LockPipe(t) \/ WriteFails(t)
  PROVE  PipeExitInv'
<1>1. PipeInv'
  BY WritersKeep, PipeExitAssumption DEF PipeExitInv
<1>2. scan' = scan
  BY DEF Write, CloseWriter, LockPipe, WriteFails
<1>3. offer'[Scanner].pc # "idle" => InHandler(Scanner)
  <2>0. Scanner \in Producers /\ t \in Producers /\ offer \in [Producers -> Offers]
    BY PipeExitAssumption DEF PipeExitInv, PipeInv, PipeTyped
  <2>1. CASE t # Scanner \/ CloseWriter
    <3>1. offer'[Scanner] = offer[Scanner]
      BY <2>0, <2>1 DEF Write, CloseWriter, LockPipe, WriteFails
    <3> QED BY <3>1 DEF PipeExitInv, Nested
  <2>2. CASE t = Scanner /\ Free(t)
    BY <2>2 DEF Free
  <2>3. CASE t = Scanner /\ (LockPipe(t) \/ WriteFails(t))
    <3>1. offer[Scanner].pc # "idle"
      BY <2>3 DEF LockPipe, WriteFails
    <3> QED BY <3>1 DEF PipeExitInv, Nested
  <2> QED BY <2>1, <2>2, <2>3
<1>4. UNCHANGED <<frames, gone>>
  BY DEF exitVars
<1> QED BY <1>1, <1>2, <1>3, <1>4, SameExit DEF PipeExitInv, Nested

\* A step of the scanner.
LEMMA ScannerSide ==
  ASSUME PipeExitInv, ScannerStep, UNCHANGED printFunc
  PROVE  PipeExitInv'
<1>0. /\ Running /\ Scanner \notin gone /\ Scanner \in Threads /\ Scanner \in Producers
      /\ ExitInv /\ PipeInv /\ offer \in [Producers -> Offers] /\ printFunc \in Levels
      /\ Levels \subseteq {"info", "fatal", "panic"}
  BY PipeExitAssumption DEF ScannerStep, PipeExitInv, PipeInv, PipeTyped
\* It hands the line over; at fatal level it goes on in Exit.
<1>1. CASE PrintLine
  <2>1. PICK then \in {"split", "exiting"} :
          /\ HandOver(then)
          /\ then = "split" => UNCHANGED <<handlers, registered, frames, gone>>
          /\ then = "split" => \/ UNCHANGED ended
                               \/ ended' = [how |-> "panic", frame |-> NoFrame]
          /\ then = "exiting" => Exit(Scanner)
    BY <1>0, <1>1 DEF PrintLine, exitVars
  <2>2. PipeInv' /\ scan'.pc = then /\ scan.pc = "print" /\ offer' = offer
    BY <1>0, <2>1, HandOverKeeps DEF HandOver
  <2>3. frames[Scanner] = <<>> /\ offer[Scanner].pc = "idle"
    BY <1>0, <2>2 DEF PipeExitInv, Nested, InHandler
  <2>4. CASE then = "split"
    <3>1. ExitInv'
      BY <1>0, <2>1, <2>4 DEF ExitInv
    <3> QED BY <1>0, <2>1, <2>2, <2>3, <2>4, <3>1 DEF PipeExitInv, Nested
  <2>5. CASE then = "exiting"
    <3>1. ExitInv'
      BY <1>0, <2>1, <2>5, ExitKeeps
    <3> QED BY <1>0, <2>2, <2>3, <2>5, <3>1 DEF PipeExitInv, Nested
  <2> QED BY <2>4, <2>5
<1>2. CASE /\ UNCHANGED exitVars
           /\ \/ PrintReturns \/ ReadEnd \/ Split \/ Complain \/ CloseReader
              \/ \E p \in Producers : Read(p)
  <2>1. PipeInv' /\ (scan'.pc # "exiting")
    <3>1. CASE PrintReturns \/ Complain \/ CloseReader
      BY <1>0, <3>1, EndingKeeps DEF PrintReturns
    <3>2. CASE ReadEnd \/ Split \/ \E p \in Producers : Read(p)
      BY <1>0, <3>2, ReadEndKeeps, SplitKeeps, ReadKeeps
    <3> QED BY <1>2, <3>1, <3>2
  <2>2. frames[Scanner] = <<>>
    <3>1. scan.pc = "exiting" => PrintReturns
      BY <1>2 DEF ReadEnd, Split, Complain, CloseReader, Read
    <3> QED BY <1>0, <3>1 DEF PipeExitInv, Nested, PrintReturns
  <2>3. offer'[Scanner].pc = "idle"
    <3>1. offer[Scanner].pc = "idle"
      BY <2>2 DEF PipeExitInv, Nested, InHandler
    <3>2. offer'[Scanner] = offer[Scanner]
      BY <1>0, <1>2, <3>1 DEF PrintReturns, ReadEnd, Split, Complain, CloseReader, Read
    <3> QED BY <3>1, <3>2
  <2>4. UNCHANGED <<frames, gone>>
    BY <1>2 DEF exitVars
  <2> QED BY <1>0, <1>2, <2>1, <2>2, <2>3, <2>4, SameExit DEF PipeExitInv, Nested
<1>3. PrintReturns => UNCHANGED exitVars
  BY DEF PrintReturns
<1> QED BY <1>1, <1>2, <1>3 DEF ScannerStep

LEMMA PipeExitStep ==
  ASSUME PipeExitInv, PipeExitNext
  PROVE  PipeExitInv'
<1>1. UNCHANGED printFunc
  BY DEF PipeExitNext
<1>2. CASE ScannerStep
  BY <1>1, <1>2, ScannerSide
<1>3. ASSUME NEW t \in Threads, UserRegister(t) \/ UserExit(t) \/ HandlerEnds(t)
                                \/ HandlerGoexit(t) \/ ExitStep(t)
      PROVE  PipeExitInv'
  <2>1. /\ UNCHANGED pipeVars
        /\ \/ Overflow
           \/ ExitAct(t) /\ (Free(t) \/ StartHandler(t) \/ Finish(t))
    BY <1>3 DEF UserRegister, UserExit, HandlerEnds, HandlerGoexit, ExitStep, ExitAct
  <2> QED BY <1>1, <2>1, ExitSide, OverflowSide
<1>4. ASSUME NEW t \in Threads, UserWrite(t) \/ UserClose(t) \/ PipeStep(t)
      PROVE  PipeExitInv'
  <2>1. /\ UNCHANGED exitVars
        /\ \/ Free(t) /\ \E c \in Chunks : Write(t, c)
           \/ CloseWriter \/ LockPipe(t) \/ WriteFails(t)
    BY <1>4 DEF UserWrite, UserClose, PipeStep
  <2> QED BY <1>1, <2>1, WriterSide
<1> QED BY <1>2, <1>3, <1>4 DEF PipeExitNext

LEMMA PipeExitStart == PipeExitInit => PipeExitInv
<1> SUFFICES ASSUME PipeExitInit PROVE PipeExitInv
  OBVIOUS
<1> USE DEF PipeExitInit
<1>1. ExitInv
  <2>1. handlers = <<>> /\ registered = <<>> /\ gone = {} /\ ended.how = "no"
    BY DEF ExitInit
  <2>2. <<>> \in Seq(Handlers) /\ <<>> \in Registrations /\ InOrder(<<>>, <<>>)
    BY DEF Registrations, InOrder
  <2>3. frames \in [Threads -> Seq(Good(registered))]
    BY DEF ExitInit
  <2> QED BY <2>1, <2>2, <2>3 DEF ExitInv
<1>2. PipeInv
  <2>1. <<>> \in Text /\ <<>> \in Seq(Text) /\ Len(<<>>) = 0
    BY DEF Text
  <2>2. /\ scan = [pc |-> "split", buf |-> <<>>, err |-> "no", empties |-> 0, line |-> <<>>]
        /\ taken = <<>> /\ printed = <<>> /\ closed = {} /\ ~complained /\ ~refused
        /\ wrMu = NoProducer /\ chunks = 0 /\ offer = [p \in Producers |-> NoOffer]
    BY DEF PipeInit
  <2>3. scan \in Scans
    BY <2>1, <2>2 DEF Scans
  <2>4. NoOffer \in Offers /\ NoOffer.pc = "idle"
    BY <2>1 DEF NoOffer, Offers
  <2>5. PipeTyped
    <3>1. Len(scan.buf) <= Limit /\ scan.empties <= EmptyReads /\ chunks \in 0..MaxChunks
      BY <2>1, <2>2, PipeAssumption
    <3> QED BY <2>1, <2>2, <2>3, <2>4, <3>1, UnlinesNone DEF PipeTyped
  <2>6. ScanInv
    BY <2>2 DEF ScanInv
  <2>7. TextInv
    <3>1. Held = <<>>
      BY <2>2 DEF Held
    <3>2. <<>> \o <<>> = <<>>
      BY <2>1, Joined
    <3> QED BY <2>2, <3>1, <3>2, UnlinesNone DEF TextInv
  <2> QED BY <2>5, <2>6, <2>7 DEF PipeInv
<1>3. Nested
  BY PipeExitAssumption DEF Nested, ExitInit, PipeInit, NoOffer
<1> QED BY <1>1, <1>2, <1>3 DEF PipeExitInv

LEMMA PipeExitInvariant == PipeExitSpec => []PipeExitInv
<1>1. PipeExitInit => PipeExitInv
  BY PipeExitStart
<1>2. PipeExitInv /\ [PipeExitNext]_allVars => PipeExitInv'
  <2> SUFFICES ASSUME PipeExitInv, UNCHANGED allVars PROVE PipeExitInv'
    BY PipeExitStep
  <2>1. UNCHANGED <<exitVars, pipeVars, printFunc>>
    BY DEF allVars, stepVars
  <2>2. PipeInv' /\ UNCHANGED <<scan, offer, frames, gone>>
    BY <2>1 DEF PipeExitInv, PipeInv, PipeTyped, ScanInv, TextInv, Held, pipeVars, exitVars
  <2> QED BY <2>1, <2>2, SameExit DEF PipeExitInv, Nested
<1> QED BY <1>1, <1>2, PTL DEF PipeExitSpec

------------------------------------------------------------------------------
(* The theorems.                                                            *)

\* The type invariant, and where the scanner's goroutine can be (writer.go, alt_exit.go).
THEOREM PipeExitTypeCorrect == PipeExitSpec => []PipeExitTypeOK
<1>1. PipeExitInv => PipeExitTypeOK
  <2> SUFFICES ASSUME PipeExitInv PROVE PipeExitTypeOK
    OBVIOUS
  <2>1. ExitTypeOK
    <3>1. ASSUME NEW t \in Threads, NEW i \in DOMAIN frames[t]
          PROVE  /\ frames[t][i].next \in 1..Len(frames[t][i].all) + 1
                 /\ frames[t][i].pc \in {"loop", "body"}
      <4>1. frames[t] \in Seq(Good(registered))
        BY DEF PipeExitInv, ExitInv
      <4>2. i \in 1..Len(frames[t])
        BY <3>1, <4>1, LenProperties
      <4>3. frames[t][i] \in Good(registered)
        BY <4>1, <4>2, ElementOfSeq
      <4>4. Len(frames[t][i].all) \in Nat
        BY <4>3, LenProperties DEF Good, Calls
      <4> QED BY <4>3, <4>4 DEF Good, Calls
    <3> QED BY <3>1 DEF ExitTypeOK, PipeExitInv, ExitInv, InOrder
  <2>2. PipeTypeOK
    BY DEF PipeTypeOK, PipeExitInv, PipeInv, PipeTyped, Scans
  <2> QED BY <2>1, <2>2 DEF PipeExitTypeOK, PipeExitInv, Nested
<1> QED BY <1>1, PipeExitInvariant, PTL

\* When the process ends by Exit or Fatal, the handlers registered before that call have
\* run, in the order of DeferExitHandler and RegisterExitHandler, for any number of
\* goroutines, handlers and calls of Exit one inside the other (alt_exit.go runHandlers).
THEOREM HandlersRunInOrder == PipeExitSpec => []ExitRunsHandlers
<1>1. PipeExitInv => ExitRunsHandlers
  <2> SUFFICES ASSUME PipeExitInv, ended.how = "exit"
               PROVE  InOrder(ended.frame.ran, SubSeq(registered, 1, ended.frame.known))
    BY DEF PipeExitInv, ExitInv, ExitRunsHandlers
  <2> DEFINE f == ended.frame
  <2>1. f \in Good(registered) /\ f.next > Len(f.all)
    BY DEF PipeExitInv, ExitInv
  <2>2. /\ f.all \in Seq(Handlers) /\ f.next \in Nat /\ f.next <= Len(f.all) + 1
        /\ f.ran = SubSeq(f.all, 1, f.next - 1) /\ Len(f.all) \in Nat
        /\ InOrder(f.all, SubSeq(registered, 1, f.known))
    BY <2>1, LenProperties DEF Good, Calls
  <2>3. f.next - 1 = Len(f.all)
    BY <2>1, <2>2
  <2>4. f.ran = f.all
    BY <2>2, <2>3, SubSeqFull
  <2> QED BY <2>2, <2>4
<1> QED BY <1>1, PipeExitInvariant, PTL

\* Every line that is written is printed, whole, once and in its place, for texts, chunks
\* and reads of any size (writer.go writerScanner).
THEOREM LinesAreFaithful == PipeExitSpec => []LinesFaithful
<1>1. PipeExitInv => LinesFaithful
  <2> SUFFICES ASSUME PipeExitInv PROVE LinesFaithful
    OBVIOUS
  <2>1. Unlines(printed) \o Held \in {taken, Append(taken, "nl")}
    BY DEF PipeExitInv, PipeInv, TextInv
  <2>2. ASSUME scan.pc = "ended", scan.err = "eof"
        PROVE  Unlines(printed) \in {taken, Append(taken, "nl")}
    <3>1. Held = <<>>
      BY <2>2 DEF PipeExitInv, PipeInv, ScanInv, Held
    <3>2. Unlines(printed) \o <<>> = Unlines(printed)
      BY Joined DEF PipeExitInv, PipeInv, PipeTyped
    <3> QED BY <2>1, <3>1, <3>2
  <2> QED BY <2>1, <2>2 DEF LinesFaithful, Held
<1> QED BY <1>1, PipeExitInvariant, PTL

\* A Write is refused on an open writer only once the scanner's error has been logged
\* (writer.go writerScanner).
THEOREM RefusalsAreExplained == PipeExitSpec => []RefusalsExplained
<1>1. PipeExitInv => RefusalsExplained
  BY DEF PipeExitInv, PipeInv, ScanInv, RefusalsExplained
<1> QED BY <1>1, PipeExitInvariant, PTL
==============================================================================
