------------------------------ MODULE LineProofs ------------------------------
(***************************************************************************)
(* What a call writes.  Its number, its entry before the first delivery,   *)
(* the entry of its line, its buffer and what it has delivered so far are  *)
(* followed from the call to Out.Write: a written line is one whole line   *)
(* of the call that writes it, to the writer the logger has.               *)
(***************************************************************************)
EXTENDS BufferProofs

\* The labels of a call before its first delivery; WithField passes newEntry only.
Before == {"checkConsole", "checkHook", "newEntry", "lockLog", "waitLog", "snapshot",
           "prepare"}
Logging == Before \cup HasNew

\* A frame that logs has a call number of its own.
Numbered(p) ==
  /\ frame[p].call \in Nat /\ frame[p].call <= calls
  /\ pc[p] \in Logging \ {"newEntry"} => frame[p].kind # "with"
  /\ pc[p] # "idle" /\ frame[p].kind # "with" => frame[p].call > 0
  /\ frame[p].call > 0 => \A q \in Procs \ {p} : frame[q].call # frame[p].call

\* Until its line has an entry, a call has the pristine one of the pool, or one of the
\* application, which has the fields of WithField and nothing else.
FreshData(p) ==
  /\ pc[p] \in Before \cup {"derive"} /\ frame[p].ent \in Entries
       /\ heap[frame[p].ent].pooled
  => LineOf(heap[frame[p].ent]) = LineOf(ZeroEntry)

UserData == \A e \in users :
              LineOf(heap[e]) = [LineOf(ZeroEntry) EXCEPT !.data = {"field"}]

\* The entry of a line has what belongs to the call, but for what hooks put there.
LineData(p) ==
  pc[p] \in HasNew =>
    LET e == heap[frame[p].new] IN
      /\ e.msg = frame[p].call /\ e.time = frame[p].call
      /\ e.caller \in {0, frame[p].call}
      /\ "field" \in e.data <=> ~heap[frame[p].ent].pooled

\* The buffer is empty until the line is formatted into it, and holds it until the write.
BufData(p) ==
  /\ pc[p] = "format" => content[frame[p].buf] = <<>>
  /\ pc[p] \in {"lockOut", "waitOut", "write"} =>
       content[frame[p].buf] = <<LineOf(heap[frame[p].new])>> /\ frame[p].size = 1

\* What call c has delivered, against where its frame is.
Delivered(p, c) ==
  /\ pc[p] \in Before => SinksOf(c) = {}
  /\ pc[p] \in HasNew \ {"putBuffer"} => SinksOf(c) \cap Outs = {}
  /\ pc[p] \in HasNew =>
       ("hook" \in heap[frame[p].new].data <=> SinksOf(c) \cap ModifyHooks # {})

DeliveredInv == \A p \in Procs : \A c \in Nat :
                  c > 0 /\ frame[p].call = c => Delivered(p, c)

SentInv == \A i \in DOMAIN sent : sent[i].by \in 1..calls

DataInv == UserData /\ \A p \in Procs : FreshData(p) /\ LineData(p) /\ BufData(p)

NumberInv == \A p \in Procs : Numbered(p)

FenceInv == LockInv /\ OutputFence

\* What holds of the lines, given that buffers and entries have one owner.
LineInv == /\ NumberInv /\ DataInv /\ DeliveredInv /\ SentInv /\ LineIntegrity
           /\ FenceInv

------------------------------------------------------------------------------
(* The numbers of the calls.                                                *)

LEMMA StepCalls ==
  ASSUME IInv, NEW p \in Procs, Step(p)
  PROVE  /\ calls' = calls
         /\ \/ /\ frame'[p].call = frame[p].call /\ frame'[p].kind = frame[p].kind
               /\ frame'[p].level = frame[p].level /\ frame'[p].seen = frame[p].seen
            \/ frame'[p] = IdleFrame /\ pc'[p] = "idle"
<1>0. TypeOK /\ frame[p] \in Frame
  BY DEF IInv, TypeOK
<1>1. calls' = calls
  BY DEF Step, LoadConsole, LoadHook, NewEntry, Derive, Release, LockLog, WaitLog,
         Snapshot, Prepare, FireHook, GetBuffer, Format, LockOut, WaitOut, Write,
         PutBuffer, Exit
<1>2. CASE Return(p)
  BY <1>0, <1>1, <1>2 DEF Return, GoTo, TypeOK
<1>3. CASE UNCHANGED frame
  BY <1>1, <1>3
<1>4. CASE Finish(p) /\ ~Return(p)
  BY <1>0, <1>1, <1>4 DEF Finish, TypeOK, Frame
<1>5. CASE NewEntry(p) \/ Snapshot(p) \/ Prepare(p)
  BY <1>0, <1>1, <1>5 DEF NewEntry, Snapshot, Prepare, TypeOK, Frame
<1>6. CASE FireHook(p)
  <2>1. \/ Return(p)
        \/ \E hs : frame' = [frame EXCEPT ![p].hooks = hs]
    BY <1>6 DEF FireHook
  <2> QED BY <1>0, <1>1, <1>2, <2>1 DEF TypeOK, Frame
<1>7. CASE GetBuffer(p) \/ Format(p)
  <2>1. \/ \E b : frame' = [frame EXCEPT ![p].buf = b]
        \/ \E n : frame' = [frame EXCEPT ![p].size = n]
        \/ \E x : frame' = [frame EXCEPT ![p].panics = x]
    BY <1>7 DEF GetBuffer, Format
  <2> QED BY <1>0, <1>1, <2>1 DEF TypeOK, Frame
<1>8. CASE LockOut(p) \/ WaitOut(p) \/ Write(p)
  BY <1>0, <1>1, <1>8 DEF LockOut, WaitOut, Write, TypeOK, Frame
<1>9. CASE PutBuffer(p)
  <2>1. CASE Return(p) \/ Finish(p)
    BY <1>2, <1>4, <2>1
  <2>2. CASE ~(Return(p) \/ Finish(p))
    BY <1>0, <1>1, <1>9, <2>2 DEF PutBuffer, TypeOK, Frame
  <2> QED BY <2>1, <2>2
<1> QED BY <1>2, <1>3, <1>4, <1>5, <1>6, <1>7, <1>8, <1>9
        DEF Step, LoadConsole, LoadHook, Enabled, Derive, Release, LockLog, WaitLog, Exit

\* How a frame gets into and through the labels of logging.
LEMMA StepLabels ==
  ASSUME IInv, NEW p \in Procs, Step(p)
  PROVE  /\ pc'[p] \in Logging => pc[p] \in Logging
         /\ pc'[p] \in Logging \ {"newEntry"} /\ pc[p] = "newEntry" =>
              frame[p].kind # "with"
         /\ pc'[p] \in Before => pc[p] \in Before
         /\ pc'[p] \in HasNew => pc[p] \in HasNew \/ Prepare(p)
<1> USE DEF GoTo, Steps, Logging, Before, HasNew
<1>0. TypeOK
  BY DEF IInv
<1>1. CASE Return(p) \/ Finish(p)
  BY <1>0, <1>1 DEF Return, Finish, TypeOK
<1>2. CASE NewEntry(p)
  <2>1. pc[p] = "newEntry"
    BY <1>2 DEF NewEntry
  <2>2. CASE frame[p].kind = "with"
    BY <1>0, <1>2, <2>1, <2>2 DEF NewEntry, TypeOK
  <2>3. CASE frame[p].kind # "with"
    <3>1. pc'[p] \in {"lockLog", "checkConsole"}
      BY <1>0, <1>2, <2>3 DEF NewEntry, TypeOK
    <3> QED BY <2>1, <2>3, <3>1
  <2> QED BY <2>2, <2>3
<1>3. CASE LoadConsole(p) \/ LoadHook(p)
  BY <1>0, <1>1, <1>3 DEF LoadConsole, LoadHook, Enabled, TypeOK
<1>4. CASE Derive(p) \/ Release(p) \/ Exit(p)
  BY <1>0, <1>1, <1>4 DEF Derive, Release, Exit, TypeOK
<1>5. CASE LockLog(p) \/ WaitLog(p) \/ Snapshot(p) \/ Prepare(p)
  BY <1>0, <1>5 DEF LockLog, WaitLog, Lock, Snapshot, Prepare, TypeOK
<1>6. CASE FireHook(p) \/ GetBuffer(p) \/ Format(p)
  BY <1>0, <1>1, <1>6 DEF FireHook, GetBuffer, Format, TypeOK
<1>7. CASE LockOut(p) \/ WaitOut(p) \/ Write(p)
  BY <1>0, <1>7 DEF LockOut, WaitOut, Lock, Write, TypeOK
<1>8. CASE PutBuffer(p)
  BY <1>0, <1>1, <1>8 DEF PutBuffer, TypeOK
<1> QED BY <1>2, <1>3, <1>4, <1>5, <1>6, <1>7, <1>8 DEF Step

\* A frame that starts a call.
LEMMA CallFrame ==
  ASSUME IInv, NEW p \in Procs, Call(p)
  PROVE  /\ pc[p] = "idle"
         /\ frame'[p].ent \in users \cup {NoEntry}
         /\ \/ /\ calls' = calls + 1 /\ frame'[p].call = calls + 1
               /\ pc'[p] \in {"checkConsole", "newEntry"} /\ frame'[p].kind # "with"
               /\ frame'[p].seen = [console |-> {consoleLevel}, hook |-> {hookLevel}]
            \/ /\ calls' = calls /\ frame'[p].call = 0
               /\ pc'[p] \in {"newEntry", "derive"} /\ frame'[p].kind = "with"
<1> USE DEF IInv, TypeOK, GoTo
<1>1. CASE WithCall(p)
  <2>1. PICK e \in users \cup {NoEntry} :
          /\ frame' = [frame EXCEPT ![p] = [IdleFrame EXCEPT !.kind = "with", !.ent = e]]
          /\ pc' = [pc EXCEPT ![p] = IF e = NoEntry THEN "newEntry" ELSE "derive"]
    BY <1>1 DEF WithCall
  <2>2. pc[p] = "idle" /\ calls' = calls
    BY <1>1 DEF WithCall, Steps
  <2>3. frame'[p] = [IdleFrame EXCEPT !.kind = "with", !.ent = e]
    BY <2>1
  <2>4. frame'[p].kind = "with" /\ frame'[p].ent = e /\ frame'[p].call = 0
    BY <2>3 DEF IdleFrame
  <2>5. pc'[p] \in {"newEntry", "derive"}
    BY <2>1
  <2> QED BY <2>2, <2>4, <2>5
<1>2. ASSUME NEW kind \in AllKinds, kind # "with", NEW level,
             NEW e \in users \cup {NoEntry}, Begin(p, kind, level, e),
             pc'[p] \in {"checkConsole", "newEntry"}
      PROVE  /\ pc[p] = "idle" /\ frame'[p].ent = e
             /\ calls' = calls + 1 /\ frame'[p].call = calls + 1
             /\ frame'[p].kind = kind
             /\ frame'[p].seen = [console |-> {consoleLevel}, hook |-> {hookLevel}]
  <2> DEFINE r(x) == [IdleFrame EXCEPT !.kind = kind, !.level = level, !.call = calls + 1,
            !.ent = e, !.exits = x,
            !.seen = [console |-> {consoleLevel}, hook |-> {hookLevel}]]
  <2>1. PICK x \in BOOLEAN : frame' = [frame EXCEPT ![p] = r(x)]
    BY <1>2 DEF Begin
  <2>2. /\ r(x).ent = e /\ r(x).call = calls + 1 /\ r(x).kind = kind
        /\ r(x).seen = [console |-> {consoleLevel}, hook |-> {hookLevel}]
    BY DEF IdleFrame
  <2> HIDE DEF r
  <2>3. frame'[p] = r(x)
    BY <2>1
  <2>4. pc[p] = "idle" /\ calls' = calls + 1
    BY <1>2 DEF Begin, Steps
  <2> QED BY <2>2, <2>3, <2>4
<1>3. CASE LoggerCall(p)
  BY <1>2, <1>3 DEF LoggerCall, AllKinds
<1>4. CASE PrintCall(p)
  BY <1>2, <1>4 DEF PrintCall, AllKinds
<1>5. CASE WarnfCall(p)
  BY <1>2, <1>5 DEF WarnfCall, AllKinds
<1>6. CASE EntryCall(p)
  BY <1>2, <1>6 DEF EntryCall, AllKinds
<1> QED BY <1>1, <1>3, <1>4, <1>5, <1>6 DEF Call

LEMMA StepNumber ==
  ASSUME IInv, NumberInv, NEW p \in Procs, Step(p)
  PROVE  NumberInv'
<1>1. /\ calls' = calls /\ calls \in Nat
      /\ \A q \in Procs \ {p} : pc'[q] = pc[q] /\ frame'[q] = frame[q]
  BY StepCalls, OnlyMoves DEF IInv, TypeOK
<1>2. frame'[p].call \in {0, frame[p].call}
  BY StepCalls DEF IdleFrame
<1>3. \A q \in Procs \ {p} : Numbered(q)'
  BY <1>1, <1>2 DEF NumberInv, Numbered
<1>4. Numbered(p)'
  <2>1. CASE frame'[p] = IdleFrame /\ pc'[p] = "idle"
    BY <1>1, <2>1 DEF Numbered, IdleFrame, Logging, Before, HasNew
  <2>2. CASE frame'[p].call = frame[p].call /\ frame'[p].kind = frame[p].kind
    <3>1. pc'[p] \in Logging => pc[p] \in Logging
      BY StepLabels
    <3>2. pc'[p] \in Logging \ {"newEntry"} => frame[p].kind # "with"
      BY StepLabels DEF NumberInv, Numbered
    <3>3. pc[p] # "idle"
      BY DEF Step, LoadConsole, LoadHook, NewEntry, Derive, Release, LockLog, WaitLog,
             Snapshot, Prepare, FireHook, GetBuffer, Format, LockOut, WaitOut, Write,
             PutBuffer, Exit, Lock, Steps
    <3> QED BY <1>1, <2>2, <3>1, <3>2, <3>3 DEF NumberInv, Numbered
  <2> QED BY <2>1, <2>2, StepCalls
<1> QED BY <1>3, <1>4 DEF NumberInv

LEMMA CallNumber ==
  ASSUME IInv, NumberInv, NEW p \in Procs, Call(p)
  PROVE  NumberInv'
<1>1. calls \in Nat /\ \A q \in Procs \ {p} : pc'[q] = pc[q] /\ frame'[q] = frame[q]
  BY OnlyMoves DEF IInv, TypeOK
<1>2. \A q \in Procs : frame[q].call \in Nat /\ frame[q].call <= calls
  BY DEF NumberInv, Numbered
<1>3. CASE /\ calls' = calls + 1 /\ frame'[p].call = calls + 1
           /\ pc'[p] \in {"checkConsole", "newEntry"} /\ frame'[p].kind # "with"
  <2>1. calls + 1 \in Nat /\ calls + 1 > 0 /\ calls <= calls + 1
    BY <1>1
  <2>2. \A q \in Procs : frame[q].call # calls + 1 /\ frame[q].call <= calls + 1
    BY <1>1, <1>2
  <2>3. Numbered(p)'
    BY <1>1, <1>3, <2>1, <2>2 DEF Numbered
  <2>4. ASSUME NEW q \in Procs \ {p}
        PROVE  Numbered(q)'
    BY <1>1, <1>2, <1>3, <2>2 DEF NumberInv, Numbered
  <2> QED BY <2>3, <2>4 DEF NumberInv
<1>4. CASE /\ calls' = calls /\ frame'[p].call = 0
           /\ pc'[p] \in {"newEntry", "derive"} /\ frame'[p].kind = "with"
  <2>1. Numbered(p)'
    BY <1>1, <1>4 DEF Numbered, Logging, Before, HasNew
  <2>2. ASSUME NEW q \in Procs \ {p}
        PROVE  Numbered(q)'
    BY <1>1, <1>4 DEF NumberInv, Numbered
  <2> QED BY <2>1, <2>2 DEF NumberInv
<1> QED BY <1>3, <1>4, CallFrame

LEMMA ConfigNumber ==
  ASSUME IInv, NumberInv, Config
  PROVE  NumberInv'
<1>1. UNCHANGED <<pc, calls>>
  BY ConfigHeap
<1>2. \A q \in Procs : frame'[q].call = frame[q].call /\ frame'[q].kind = frame[q].kind
  BY ConfigFrames
<1> QED BY <1>1, <1>2 DEF NumberInv, Numbered

------------------------------------------------------------------------------
(* The data of entries and buffers.                                         *)

\* Nobody else's buffer is touched.
LEMMA ContentKept ==
  ASSUME IInv, BufInv, NEW p \in Procs, Step(p),
         NEW q \in Procs \ {p}, frame[q].buf \in Buffers
  PROVE  content'[frame[q].buf] = content[frame[q].buf]
<1>0. TypeOK /\ LocalInv /\ frame[p] \in Frame
  BY DEF IInv, TypeOK
<1>1. CASE UNCHANGED content
  BY <1>1
<1>2. CASE GetBuffer(p)
  <2>1. PICK b \in freeBufs[frame[p].pool] \cup UnusedBuffers :
          content' = [content EXCEPT ![b] = <<>>]
    BY <1>2, FreshIn DEF GetBuffer, Emptied
  <2>2. b # frame[q].buf
    BY <1>0, <2>1 DEF BufInv, BufOwned, UnusedBuffers, Frame
  <2> QED BY <1>0, <2>1, <2>2 DEF TypeOK
<1>3. CASE Format(p)
  <2> DEFINE b == heap[frame[p].new].buffer
  <2>1. b \in Buffers /\ b = frame[p].buf
    BY <1>0, <1>3, OwnBuffer DEF Format, Steps, LocalInv, Local, HasNew
  <2>2. b # frame[q].buf
    BY <2>1 DEF BufInv, BufOwned
  <2> HIDE DEF b
  <2>3. \E s : content' = [content EXCEPT ![b] = s]
    BY <1>3 DEF Format, b
  <2> QED BY <1>0, <2>2, <2>3 DEF TypeOK
<1>4. CASE PutBuffer(p)
  <2>1. content' = [content EXCEPT ![frame[p].buf] = <<>>]
    BY <1>4 DEF PutBuffer, Emptied
  <2>2. frame[p].buf # frame[q].buf
    BY DEF BufInv, BufOwned
  <2> QED BY <1>0, <2>1, <2>2 DEF TypeOK
<1> QED BY <1>1, <1>2, <1>3, <1>4
        DEF Step, LoadConsole, LoadHook, NewEntry, Derive, Release, LockLog, WaitLog,
            Snapshot, Prepare, FireHook, LockOut, WaitOut, Write, Exit

LEMMA OthersData ==
  ASSUME IInv, BufInv, DataInv, NEW p \in Procs, Step(p), NEW q \in Procs \ {p}
  PROVE  FreshData(q)' /\ LineData(q)' /\ BufData(q)'
<1>0. TypeOK /\ Local(q) /\ FreshData(q) /\ LineData(q) /\ BufData(q)
  BY DEF IInv, LocalInv, DataInv
<1>1. pc'[q] = pc[q] /\ frame'[q] = frame[q]
  BY OnlyMoves
<1>2. /\ frame[q].ent \in Entries => heap'[frame[q].ent] = heap[frame[q].ent]
      /\ frame[q].new \in Entries => heap'[frame[q].new] = heap[frame[q].new]
  BY HeapKept DEF Holds
<1>3. frame[q].buf \in Buffers => content'[frame[q].buf] = content[frame[q].buf]
  BY ContentKept
<1>4. FreshData(q)'
  BY <1>0, <1>1, <1>2 DEF FreshData
<1>5. LineData(q)'
  BY <1>0, <1>1, <1>2 DEF LineData, Local, HasEnt, HasNew
<1>6. BufData(q)'
  BY <1>0, <1>1, <1>2, <1>3 DEF BufData, Local, HasNew, HasBuf
<1> QED BY <1>4, <1>5, <1>6

\* newEntry hands out a pristine entry.
LEMMA HandedIsZero ==
  ASSUME IInv, PoolPristine, NEW e \in Entries
  PROVE  LineOf(Handed(e)) = LineOf(ZeroEntry)
<1>1. CASE e \in entryPool
  <2>1. heap[e] \in Entry /\ LineOf(heap[e]) = LineOf(ZeroEntry)
    BY <1>1 DEF IInv, TypeOK, PoolPristine
  <2> QED BY <1>1, <2>1 DEF Handed, LineOf, Entry
<1>2. CASE e \notin entryPool
  BY <1>2 DEF Handed, LineOf, ZeroEntry
<1> QED BY <1>1, <1>2

LEMMA StepFresh ==
  ASSUME IInv, PoolPristine, DataInv, NEW p \in Procs, Step(p)
  PROVE  FreshData(p)'
<1> USE DEF GoTo, Before
<1>0. TypeOK /\ frame[p] \in Frame /\ FreshData(p)
  BY DEF IInv, TypeOK, DataInv
<1>1. CASE pc'[p] \notin Before \cup {"derive"}
  BY <1>1 DEF FreshData
<1>2. CASE NewEntry(p)
  <2>1. PICK e \in Entries : /\ heap' = [heap EXCEPT ![e] = Handed(e)]
                             /\ frame' = [frame EXCEPT ![p].ent = e]
    BY <1>0, <1>2, FreshIn DEF NewEntry, UnusedEntries, TypeOK
  <2>2. heap'[e] = Handed(e) /\ frame'[p].ent = e
    BY <1>0, <2>1 DEF TypeOK, Frame
  <2> QED BY <2>2, HandedIsZero DEF FreshData
<1>3. CASE LoadConsole(p) \/ LoadHook(p) \/ LockLog(p) \/ WaitLog(p) \/ Snapshot(p)
  <2>1. heap' = heap /\ pc[p] \in Before
    BY <1>3 DEF LoadConsole, LoadHook, LockLog, WaitLog, Lock, Snapshot, Steps
  <2>2. pc'[p] \in Before \cup {"derive"} => frame'[p].ent = frame[p].ent
    <3>1. CASE Return(p) \/ Finish(p)
      BY <1>0, <3>1 DEF Return, Finish, TypeOK
    <3>2. CASE UNCHANGED frame
      BY <3>2
    <3>3. CASE Snapshot(p)
      BY <1>0, <3>3 DEF Snapshot, TypeOK, Frame
    <3> QED BY <1>3, <3>1, <3>2, <3>3 DEF LoadConsole, LoadHook, Enabled, LockLog, WaitLog
  <2> QED BY <1>0, <2>1, <2>2 DEF FreshData
<1>4. CASE Return(p) \/ Finish(p)
  BY <1>0, <1>1, <1>4 DEF Return, Finish, TypeOK
<1>5. CASE Derive(p) \/ Release(p) \/ Exit(p) \/ Prepare(p) \/ FireHook(p)
  BY <1>0, <1>1, <1>4, <1>5 DEF Derive, Release, Exit, Prepare, FireHook, TypeOK
<1>6. CASE GetBuffer(p) \/ Format(p) \/ LockOut(p) \/ WaitOut(p) \/ Write(p) \/ PutBuffer(p)
  BY <1>0, <1>1, <1>4, <1>6
     DEF GetBuffer, Format, LockOut, WaitOut, Lock, Write, PutBuffer, TypeOK
<1> QED BY <1>2, <1>3, <1>5, <1>6 DEF Step

\* WithFields copies the fields of a pristine entry, or of one the application has.
LEMMA StepUserData ==
  ASSUME IInv, DataInv, NEW p \in Procs, Step(p)
  PROVE  UserData'
<1>0. TypeOK /\ LocalInv /\ OwnInv /\ UserData /\ FreshData(p)
  BY DEF IInv, DataInv
<1>1. \A x \in users : heap'[x] = heap[x]
  BY <1>0, HeapKept DEF TypeOK
<1>2. CASE users' = users
  BY <1>0, <1>1, <1>2 DEF UserData
<1>3. CASE Derive(p)
  <2> DEFINE ent == frame[p].ent
             z == [ZeroEntry EXCEPT !.data = heap[ent].data \cup {"field"}]
  <2>1. PICK e \in UnusedEntries : heap' = [heap EXCEPT ![e] = z] /\ users' = users \cup {e}
    BY <1>3, FreshIn DEF Derive
  <2>2. ent \in Entries /\ pc[p] = "derive"
    BY <1>0, <1>3 DEF Derive, Steps, LocalInv, Local, HasEnt
  <2>3. heap[ent].data \subseteq {"field"}
    <3>1. CASE heap[ent].pooled
      BY <1>0, <2>2, <3>1 DEF FreshData, LineOf, ZeroEntry
    <3>2. CASE ~heap[ent].pooled
      <4>1. ent \in users
        BY <1>0, <2>2, <3>2 DEF OwnInv, EntOwned
      <4> QED BY <1>0, <4>1 DEF UserData, LineOf, ZeroEntry
    <3> QED BY <3>1, <3>2
  <2>4. LineOf(z) = [LineOf(ZeroEntry) EXCEPT !.data = {"field"}]
    BY <2>3 DEF LineOf, ZeroEntry
  <2>5. heap'[e] = z
    BY <1>0, <2>1 DEF TypeOK, UnusedEntries
  <2> HIDE DEF z
  <2> QED BY <1>0, <1>1, <2>1, <2>4, <2>5 DEF UserData
<1> QED BY <1>2, <1>3
        DEF Step, LoadConsole, LoadHook, NewEntry, Release, LockLog, WaitLog, Snapshot,
            Prepare, FireHook, GetBuffer, Format, LockOut, WaitOut, Write, PutBuffer, Exit

\* While its line is on the way a frame keeps its entries.
LEMMA LineFrame ==
  ASSUME IInv, NEW p \in Procs, Step(p), pc[p] \in HasNew, pc'[p] \in HasNew
  PROVE  /\ frame'[p].ent = frame[p].ent /\ frame'[p].new = frame[p].new
         /\ frame'[p].call = frame[p].call
         /\ pc[p] \in HasBuf => frame'[p].buf = frame[p].buf
<1>0. TypeOK /\ frame[p] \in Frame
  BY DEF IInv, TypeOK
<1>1. ~Return(p)
  BY <1>0 DEF Return, GoTo, TypeOK, HasNew
<1>2. CASE GetBuffer(p)
  <2>1. PICK b : frame' = [frame EXCEPT ![p].buf = b]
    BY <1>2 DEF GetBuffer
  <2>2. pc[p] \notin HasBuf
    BY <1>2 DEF GetBuffer, Steps, HasBuf
  <2> QED BY <1>0, <2>1, <2>2 DEF TypeOK, Frame
<1>3. CASE FireHook(p) \/ Format(p) \/ LockOut(p) \/ WaitOut(p) \/ Write(p)
  <2>1. \/ UNCHANGED frame
        \/ \E hs : frame' = [frame EXCEPT ![p].hooks = hs]
        \/ \E n : frame' = [frame EXCEPT ![p].size = n]
        \/ \E x : frame' = [frame EXCEPT ![p].panics = x]
        \/ frame' = [frame EXCEPT ![p].out = out]
    BY <1>1, <1>3 DEF FireHook, Format, LockOut, WaitOut, Write
  <2> QED BY <1>0, <2>1 DEF TypeOK, Frame
<1>4. CASE PutBuffer(p)
  BY <1>0, <1>1, <1>4 DEF PutBuffer, Finish, GoTo, TypeOK, HasNew
<1> QED BY <1>2, <1>3, <1>4
        DEF Step, LoadConsole, LoadHook, NewEntry, Derive, Release, LockLog, WaitLog,
            Snapshot, Prepare, Exit, Lock, Steps, HasNew

\* The entry of a line gets the time, the message and the caller of its call.
LEMMA PrepareLine ==
  ASSUME IInv, NumberInv, DataInv, NEW p \in Procs, Prepare(p)
  PROVE  LineData(p)' /\ "hook" \notin heap'[frame'[p].new].data
<1>0. TypeOK /\ LocalInv /\ OwnInv /\ frame[p] \in Frame /\ UserData /\ FreshData(p)
  BY DEF IInv, TypeOK, DataInv
<1> DEFINE ent == frame[p].ent
           c == frame[p].call
<1>1. pc[p] = "prepare" /\ ent \in Entries /\ heap[ent] \in Entry /\ c \in Nat /\ c # 0
  <2>1. pc[p] = "prepare"
    BY DEF Prepare, Steps
  <2>2. ent \in Entries /\ heap[ent] \in Entry
    BY <1>0, <2>1 DEF LocalInv, Local, HasEnt, TypeOK
  <2>3. c \in Nat /\ c > 0
    BY <2>1 DEF NumberInv, Numbered, Logging, Before
  <2> QED BY <2>1, <2>2, <2>3
<1>2. PICK e \in Entries :
        /\ heap' = [heap EXCEPT ![e] = Stamped(IF e = ent THEN heap[e] ELSE Dup(heap[ent]), p)]
        /\ frame' = [frame EXCEPT ![p].new = e]
        /\ (e = ent /\ InPlace(p)) \/ e \in UnusedEntries
  BY <1>1, FreshIn DEF Prepare, UnusedEntries
<1>3. frame'[p].new = e /\ frame'[p].ent = ent /\ frame'[p].call = c
  BY <1>0, <1>2 DEF TypeOK, Frame
<1> DEFINE old == IF e = ent THEN heap[e] ELSE Dup(heap[ent])
           z == Stamped(old, p)
<1>4. /\ heap[ent].time = 0 /\ "hook" \notin heap[ent].data
      /\ "field" \in heap[ent].data <=> ~heap[ent].pooled
  <2>1. CASE heap[ent].pooled
    BY <1>0, <1>1, <2>1 DEF FreshData, Before, LineOf, ZeroEntry
  <2>2. CASE ~heap[ent].pooled
    <3>1. ent \in users
      BY <1>0, <1>1, <2>2 DEF OwnInv, EntOwned
    <3>2. LineOf(heap[ent]) = [LineOf(ZeroEntry) EXCEPT !.data = {"field"}]
      BY <1>0, <3>1 DEF UserData
    <3>3. heap[ent].time = 0 /\ heap[ent].data = {"field"}
      BY <3>2 DEF LineOf, ZeroEntry
    <3> QED BY <2>2, <3>3
  <2> QED BY <2>1, <2>2
<1>5. heap[ent].pooled => heap[ent].caller = 0
  BY <1>0, <1>1 DEF FreshData, Before, LineOf, ZeroEntry
<1>6. /\ old.time = 0 /\ old.data = heap[ent].data /\ old.caller = 0
      /\ e = ent => old.pooled = heap[ent].pooled
  <2>1. CASE e = ent /\ InPlace(p)
    BY <1>4, <1>5, <2>1 DEF InPlace, Pooled
  <2>2. CASE e \in UnusedEntries
    <3>1. e # ent
      BY <2>2 DEF UnusedEntries
    <3>2. old = Dup(heap[ent])
      BY <3>1
    <3> QED BY <1>4, <3>1, <3>2 DEF Dup, ZeroEntry
  <2> QED BY <1>2, <2>1, <2>2
<1>7. old \in Entry
  <2>1. Dup(heap[ent]) \in Entry
    BY <1>0, <1>1, ZeroEntryType DEF Dup, Entry, TypeOK
  <2> QED BY <1>1, <2>1
<1>8. heap' = [heap EXCEPT ![e] = z]
  BY <1>2
<1> HIDE DEF old
<1>9. /\ z.time = c /\ z.msg = c /\ z.caller \in {0, c} /\ z.data = heap[ent].data
      /\ z.pooled = old.pooled
  BY <1>6, <1>7 DEF Stamped, Entry
<1> HIDE DEF z
<1>10. heap'[e] = z /\ heap'[ent].pooled = heap[ent].pooled
  <2>1. heap'[e] = z
    BY <1>0, <1>8 DEF TypeOK
  <2>2. CASE e = ent
    BY <1>6, <1>9, <2>1, <2>2
  <2>3. CASE e # ent
    BY <1>0, <1>1, <1>8, <2>3 DEF TypeOK
  <2> QED BY <2>1, <2>2, <2>3
<1> QED BY <1>3, <1>4, <1>9, <1>10 DEF LineData

LEMMA StepLine ==
  ASSUME IInv, NumberInv, DataInv, NEW p \in Procs, Step(p)
  PROVE  LineData(p)'
<1>0. TypeOK /\ LocalInv /\ LineData(p)
  BY DEF IInv, DataInv
<1>1. CASE Prepare(p)
  BY <1>1, PrepareLine
<1>2. CASE pc'[p] \notin HasNew
  BY <1>2 DEF LineData
<1>3. CASE pc[p] \in HasNew /\ pc'[p] \in HasNew
  <2> DEFINE e == frame[p].new
  <2>1. /\ frame'[p].ent = frame[p].ent /\ frame'[p].new = e
        /\ frame'[p].call = frame[p].call
    BY <1>3, LineFrame
  <2>2. e \in Entries /\ frame[p].ent \in Entries /\ heap[e] \in Entry
    BY <1>0, <1>3 DEF LocalInv, Local, HasNew, HasEnt, TypeOK
  <2>3. \/ heap' = heap \/ Format(p)
        \/ \E b : heap' = [heap EXCEPT ![e].buffer = b]
        \/ heap' = [heap EXCEPT ![e].data = @ \cup {"hook"}]
    BY <1>3 DEF Step, LoadConsole, LoadHook, NewEntry, Derive, Release, LockLog, WaitLog,
         Snapshot, Prepare, FireHook, GetBuffer, LockOut, WaitOut, Write, PutBuffer, Exit,
         Lock, Steps, HasNew
  <2>4. /\ heap'[e].msg = heap[e].msg /\ heap'[e].time = heap[e].time
        /\ heap'[e].caller = heap[e].caller
        /\ "field" \in heap'[e].data <=> "field" \in heap[e].data
        /\ heap'[e].pooled = heap[e].pooled
        /\ \A x \in Entries : x # e => heap'[x] = heap[x]
    <3> DEFINE z(b) == [heap[e] EXCEPT !.buffer = b]
               h == [heap[e] EXCEPT !.data = @ \cup {"hook"}]
    <3>1. \A b : /\ z(b).msg = heap[e].msg /\ z(b).time = heap[e].time
                 /\ z(b).caller = heap[e].caller /\ z(b).data = heap[e].data
                 /\ z(b).pooled = heap[e].pooled
      BY <2>2 DEF Entry
    <3>2. /\ h.msg = heap[e].msg /\ h.time = heap[e].time
          /\ h.caller = heap[e].caller /\ h.data = heap[e].data \cup {"hook"}
          /\ h.pooled = heap[e].pooled
      BY <2>2 DEF Entry
    <3>3. heap' = heap \/ (\E b : heap' = [heap EXCEPT ![e] = z(b)])
          \/ heap' = [heap EXCEPT ![e] = h] \/ Format(p)
      BY <2>3
    <3> HIDE DEF z, h
    <3>4. CASE Format(p)
      BY <2>2, <3>4, FormatOnly DEF LineOf
    <3> QED BY <1>0, <2>2, <3>1, <3>2, <3>3, <3>4 DEF TypeOK
  <2> QED BY <1>0, <1>3, <2>1, <2>2, <2>4 DEF LineData
<1> QED BY <1>1, <1>2, <1>3, StepLabels

LEMMA StepBufData ==
  ASSUME IInv, BufInv, DataInv, NEW p \in Procs, Step(p)
  PROVE  BufData(p)'
<1> USE DEF GoTo
<1>0. TypeOK /\ LocalInv /\ frame[p] \in Frame /\ BufData(p)
  BY DEF IInv, TypeOK, DataInv
<1>1. CASE pc'[p] \notin {"format", "lockOut", "waitOut", "write"}
  BY <1>1 DEF BufData
<1>2. CASE GetBuffer(p)
  <2>1. PICK b \in freeBufs[frame[p].pool] \cup UnusedBuffers :
          content' = [content EXCEPT ![b] = <<>>] /\ frame' = [frame EXCEPT ![p].buf = b]
    BY <1>2, FreshIn DEF GetBuffer, Emptied
  <2>2. b \in Buffers
    BY <1>0, <2>1 DEF UnusedBuffers, TypeOK, Frame
  <2>3. frame'[p].buf = b /\ content'[b] = <<>>
    BY <1>0, <2>1, <2>2 DEF TypeOK, Frame
  <2>4. pc'[p] \in {"format", "putBuffer"}
    BY <1>0, <1>2 DEF GetBuffer, TypeOK
  <2> QED BY <2>3, <2>4 DEF BufData
<1>3. CASE Format(p)
  <2> DEFINE e == frame[p].new
             b == frame[p].buf
  <2>1. pc[p] = "format" /\ e \in Entries /\ heap[e].buffer = b /\ b \in Buffers
    BY <1>0, <1>3, OwnBuffer DEF Format, Steps, LocalInv, Local, HasNew
  <2>2. content[b] = <<>>
    BY <1>0, <2>1 DEF BufData
  <2>3. CASE pc'[p] = "lockOut"
    <3>1. /\ content' = [content EXCEPT ![b] = Append(@, LineOf(heap[e]))]
          /\ frame' = [frame EXCEPT ![p].size = Len(content[b]) + 1]
      BY <1>0, <1>3, <2>1, <2>3 DEF Format, TypeOK
    <3>2. Append(<<>>, LineOf(heap[e])) = <<LineOf(heap[e])>> /\ Len(<<>>) + 1 = 1
      OBVIOUS
    <3>3. content'[b] = <<LineOf(heap[e])>>
      BY <1>0, <2>1, <2>2, <3>1, <3>2 DEF TypeOK
    <3>4. frame'[p].size = 1 /\ frame'[p].new = e /\ frame'[p].buf = b
      <4>1. frame'[p] = [frame[p] EXCEPT !.size = 1]
        BY <1>0, <2>2, <3>1, <3>2 DEF TypeOK
      <4> QED BY <1>0, <4>1 DEF Frame
    <3>5. LineOf(heap'[e]) = LineOf(heap[e])
      BY <1>3, <2>1, FormatOnly
    <3> QED BY <2>3, <3>3, <3>4, <3>5 DEF BufData
  <2>4. CASE pc'[p] = "putBuffer"
    BY <1>1, <2>4
  <2> QED BY <1>0, <1>3, <2>3, <2>4 DEF Format, TypeOK
<1>4. CASE LockOut(p) \/ WaitOut(p)
  <2>1. /\ pc[p] \in {"lockOut", "waitOut"} /\ pc'[p] \in {"waitOut", "write"}
        /\ UNCHANGED <<heap, content>>
    BY <1>0, <1>4 DEF LockOut, WaitOut, Lock, Steps, TypeOK
  <2>2. UNCHANGED frame \/ frame' = [frame EXCEPT ![p].out = out]
    BY <1>4 DEF LockOut, WaitOut
  <2>3. frame'[p].buf = frame[p].buf /\ frame'[p].new = frame[p].new
        /\ frame'[p].size = frame[p].size
    BY <1>0, <2>2 DEF TypeOK, Frame
  <2> QED BY <1>0, <2>1, <2>3 DEF BufData
<1>5. CASE Return(p) \/ Finish(p)
  BY <1>0, <1>1, <1>5 DEF Return, Finish, TypeOK
<1>6. CASE LoadConsole(p) \/ LoadHook(p) \/ NewEntry(p) \/ Derive(p) \/ Release(p) \/ Exit(p)
  <2>1. CASE NewEntry(p)
    <3>1. pc'[p] \in {"lockLog", "derive", "checkConsole"}
      <4>1. CASE frame[p].kind = "logger"
        BY <1>0, <2>1, <4>1 DEF NewEntry, TypeOK
      <4>2. CASE frame[p].kind = "with"
        BY <1>0, <2>1, <4>2 DEF NewEntry, TypeOK
      <4>3. CASE frame[p].kind # "logger" /\ frame[p].kind # "with"
        BY <1>0, <2>1, <4>3 DEF NewEntry, TypeOK
      <4> QED BY <4>1, <4>2, <4>3
    <3> QED BY <1>1, <3>1
  <2> QED BY <1>0, <1>1, <1>5, <1>6, <2>1
          DEF LoadConsole, LoadHook, Enabled, Derive, Release, Exit, TypeOK
<1>7. CASE LockLog(p) \/ WaitLog(p) \/ Snapshot(p) \/ Prepare(p) \/ FireHook(p)
  BY <1>0, <1>1, <1>5, <1>7 DEF LockLog, WaitLog, Lock, Snapshot, Prepare, FireHook, TypeOK
<1>8. CASE Write(p) \/ PutBuffer(p)
  BY <1>0, <1>1, <1>5, <1>8 DEF Write, PutBuffer, TypeOK
<1> QED BY <1>2, <1>3, <1>4, <1>6, <1>7, <1>8 DEF Step

LEMMA StepData ==
  ASSUME IInv, BufInv, PoolPristine, NumberInv, DataInv, NEW p \in Procs, Step(p)
  PROVE  DataInv'
  BY OthersData, StepFresh, StepUserData, StepLine, StepBufData DEF DataInv

LEMMA CallData ==
  ASSUME IInv, DataInv, NEW p \in Procs, Call(p)
  PROVE  DataInv'
<1>1. UNCHANGED <<heap, content, users>>
      /\ \A q \in Procs \ {p} : pc'[q] = pc[q] /\ frame'[q] = frame[q]
  BY CallHeap, OnlyMoves
<1>2. ASSUME NEW q \in Procs \ {p}
      PROVE  FreshData(q)' /\ LineData(q)' /\ BufData(q)'
  <2>1. pc'[q] = pc[q] /\ frame'[q] = frame[q] /\ heap' = heap /\ content' = content
    BY <1>1
  <2>2. FreshData(q)'
    BY <2>1 DEF DataInv, FreshData
  <2>3. LineData(q)'
    BY <2>1 DEF DataInv, LineData
  <2>4. BufData(q)'
    BY <2>1 DEF DataInv, BufData
  <2> QED BY <2>2, <2>3, <2>4
<1>3. FreshData(p)' /\ LineData(p)' /\ BufData(p)'
  <2>1. pc'[p] \in {"checkConsole", "newEntry", "derive"} /\ frame'[p].ent \in users \cup {NoEntry}
    BY CallFrame
  <2>2. frame'[p].ent \in Entries => ~heap[frame'[p].ent].pooled
    BY <2>1, ConstantsAssumption DEF IInv, OwnInv
  <2> QED BY <1>1, <2>1, <2>2 DEF FreshData, LineData, BufData, HasNew
<1> QED BY <1>1, <1>2, <1>3 DEF DataInv, UserData

LEMMA ConfigData ==
  ASSUME IInv, DataInv, Config
  PROVE  DataInv'
<1>1. UNCHANGED <<heap, content, users, pc>>
  BY ConfigHeap
<1>2. \A q \in Procs : /\ frame'[q].ent = frame[q].ent /\ frame'[q].new = frame[q].new
                       /\ frame'[q].buf = frame[q].buf /\ frame'[q].call = frame[q].call
                       /\ frame'[q].size = frame[q].size
  BY ConfigFrames
<1>3. \A q \in Procs : FreshData(q)' /\ LineData(q)' /\ BufData(q)'
  BY <1>1, <1>2 DEF DataInv, FreshData, LineData, BufData
<1> QED BY <1>1, <1>3 DEF DataInv, UserData

------------------------------------------------------------------------------
(* The history of deliveries.                                               *)

LEMMA SeqOfMore ==
  ASSUME NEW S, NEW T, S \subseteq T, NEW s \in Seq(S)
  PROVE  s \in Seq(T)
  OBVIOUS

LEMMA SentAppend ==
  ASSUME TypeOK, NEW d, sent' = Append(sent, d)
  PROVE  /\ Len(sent) \in Nat /\ DOMAIN sent = 1..Len(sent)
         /\ DOMAIN sent' = 1..(Len(sent) + 1)
         /\ \A i \in 1..Len(sent) : sent'[i] = sent[i]
         /\ sent'[Len(sent) + 1] = d
<1>1. sent \in Seq(Delivery \cup {d})
  <2>1. sent \in Seq(Delivery)
    BY DEF TypeOK
  <2> QED BY <2>1, SeqOfMore
<1>2. Len(sent) \in Nat /\ DOMAIN sent = 1..Len(sent)
  BY <1>1, LenProperties
<1>3. /\ sent' \in Seq(Delivery \cup {d}) /\ Len(sent') = Len(sent) + 1
      /\ \A i \in 1..Len(sent) : sent'[i] = sent[i]
      /\ sent'[Len(sent) + 1] = d
  BY <1>1, AppendProperties
<1>4. DOMAIN sent' = 1..(Len(sent) + 1)
  BY <1>3, LenProperties
<1> QED BY <1>2, <1>3, <1>4

LEMMA SinksAppend ==
  ASSUME TypeOK, NEW d, sent' = Append(sent, d), NEW c
  PROVE  SinksOf(c)' = IF d.by = c THEN SinksOf(c) \cup {d.sink} ELSE SinksOf(c)
<1> DEFINE n == Len(sent)
<1>1. /\ n \in Nat /\ DOMAIN sent = 1..n /\ DOMAIN sent' = 1..(n + 1)
      /\ \A i \in 1..n : sent'[i] = sent[i]
      /\ sent'[n + 1] = d
  BY SentAppend
<1> HIDE DEF n
<1>2. 1..(n + 1) = (1..n) \cup {n + 1}
  BY <1>1
<1>3. SinksOf(c)' = {sent'[i].sink : i \in {j \in DOMAIN sent' : sent'[j].by = c}}
  BY DEF SinksOf
<1>4. CASE d.by = c
  <2>1. {j \in DOMAIN sent' : sent'[j].by = c} = {j \in DOMAIN sent : sent[j].by = c} \cup {n + 1}
    BY <1>1, <1>2, <1>4
  <2>2. {sent'[i].sink : i \in {j \in DOMAIN sent : sent[j].by = c}} = SinksOf(c)
    BY <1>1 DEF SinksOf
  <2> QED BY <1>1, <1>3, <1>4, <2>1, <2>2
<1>5. CASE d.by # c
  <2>1. {j \in DOMAIN sent' : sent'[j].by = c} = {j \in DOMAIN sent : sent[j].by = c}
    BY <1>1, <1>2, <1>5
  <2>2. {sent'[i].sink : i \in {j \in DOMAIN sent : sent[j].by = c}} = SinksOf(c)
    BY <1>1 DEF SinksOf
  <2> QED BY <1>3, <1>5, <2>1, <2>2
<1> QED BY <1>4, <1>5

\* The two steps that deliver.
LEMMA FireSends ==
  ASSUME IInv, NEW p \in Procs, FireHook(p)
  PROVE  LET h == Head(frame[p].hooks)
             e == frame[p].new
         IN  /\ sent' = Append(sent, [by |-> frame[p].call, sink |-> h,
                                 user |-> ~Pooled(p), line |-> <<LineOf(heap[e])>>])
             /\ h \in Hooks /\ pc[p] = "hook" /\ e \in Entries
             /\ "hook" \in heap'[e].data <=> "hook" \in heap[e].data \/ h \in ModifyHooks
<1> DEFINE h == Head(frame[p].hooks)
           e == frame[p].new
<1>0. TypeOK /\ LocalInv /\ frame[p] \in Frame
  BY DEF IInv, TypeOK
<1>1. /\ pc[p] = "hook"
      /\ sent' = Append(sent, [by |-> frame[p].call, sink |-> h,
                               user |-> ~Pooled(p), line |-> <<LineOf(heap[e])>>])
      /\ heap' = IF h \in ModifyHooks
                 THEN [heap EXCEPT ![e].data = @ \cup {"hook"}] ELSE heap
  BY DEF FireHook, Steps
<1>2. e \in Entries /\ frame[p].hooks # <<>> /\ heap[e] \in Entry
  BY <1>0, <1>1 DEF LocalInv, Local, HasNew, TypeOK
<1>3. h \in Hooks
  BY <1>0, <1>2 DEF Frame
<1> HIDE DEF h
<1> DEFINE z == [heap[e] EXCEPT !.data = @ \cup {"hook"}]
<1>4. z.data = heap[e].data \cup {"hook"}
  BY <1>2 DEF Entry
<1>5. heap' = IF h \in ModifyHooks THEN [heap EXCEPT ![e] = z] ELSE heap
  BY <1>1
<1> HIDE DEF z
<1>6. "hook" \in heap'[e].data <=> "hook" \in heap[e].data \/ h \in ModifyHooks
  BY <1>0, <1>2, <1>4, <1>5 DEF TypeOK
<1> QED BY <1>1, <1>2, <1>3, <1>6 DEF h

LEMMA WriteSends ==
  ASSUME IInv, NEW p \in Procs, Write(p)
  PROVE  /\ \/ sent' = sent
            \/ sent' = Append(sent, [by |-> frame[p].call, sink |-> frame[p].out,
                                     user |-> ~Pooled(p), line |-> Serialized(p)])
         /\ frame[p].out \in Outs /\ pc[p] = "write" /\ pc'[p] = "putBuffer"
         /\ heap' = heap
  BY DEF IInv, TypeOK, Frame, Write, Steps, GoTo

LEMMA OthersSendNothing ==
  ASSUME NEW p \in Procs, Step(p), ~FireHook(p), ~Write(p)
  PROVE  sent' = sent
  BY DEF Step, LoadConsole, LoadHook, NewEntry, Derive, Release, LockLog, WaitLog,
         Snapshot, Prepare, GetBuffer, Format, LockOut, WaitOut, PutBuffer, Exit

\* What the other frames have delivered is as it was.
LEMMA OthersSinks ==
  ASSUME IInv, NumberInv, NEW p \in Procs, Step(p),
         NEW q \in Procs \ {p}, NEW c \in Nat, c > 0, frame[q].call = c
  PROVE  SinksOf(c)' = SinksOf(c)
<1>0. TypeOK
  BY DEF IInv
<1>1. frame[p].call # c
  BY DEF NumberInv, Numbered
<1>2. CASE sent' = sent
  BY <1>2 DEF SinksOf
<1>3. ASSUME NEW d, d.by = frame[p].call, sent' = Append(sent, d)
      PROVE  SinksOf(c)' = SinksOf(c)
  BY <1>0, <1>1, <1>3, SinksAppend
<1>4. CASE FireHook(p)
  BY <1>3, <1>4, FireSends
<1>5. CASE Write(p)
  BY <1>2, <1>3, <1>5, WriteSends
<1> QED BY <1>2, <1>4, <1>5, OthersSendNothing

LEMMA OthersDelivered ==
  ASSUME IInv, NumberInv, DeliveredInv, NEW p \in Procs, Step(p),
         NEW q \in Procs \ {p}, NEW c \in Nat, c > 0, frame[q].call = c
  PROVE  Delivered(q, c)'
<1>0. TypeOK /\ LocalInv
  BY DEF IInv
<1>1. pc'[q] = pc[q] /\ frame'[q] = frame[q]
  BY OnlyMoves
<1>2. SinksOf(c)' = SinksOf(c)
  BY OthersSinks
<1>3. pc[q] \in HasNew => heap'[frame[q].new] = heap[frame[q].new]
  BY <1>0, HeapKept DEF LocalInv, Local, Holds
<1>4. Delivered(q, c)
  BY DEF DeliveredInv
<1> QED BY <1>1, <1>2, <1>3, <1>4 DEF Delivered

LEMMA OwnDelivered ==
  ASSUME IInv, NumberInv, DataInv, DeliveredInv, NEW p \in Procs, Step(p),
         NEW c \in Nat, c > 0, frame'[p].call = c
  PROVE  Delivered(p, c)'
<1>0. TypeOK /\ LocalInv
  BY DEF IInv
<1>1. frame[p].call = c
  BY StepCalls DEF IdleFrame
<1>2. Delivered(p, c)
  BY <1>1 DEF DeliveredInv
<1>3. CASE FireHook(p)
  <2> DEFINE h == Head(frame[p].hooks)
             e == frame[p].new
  <2>1. /\ h \in Hooks /\ pc[p] = "hook"
        /\ "hook" \in heap'[e].data <=> "hook" \in heap[e].data \/ h \in ModifyHooks
        /\ SinksOf(c)' = SinksOf(c) \cup {h}
    <3> DEFINE d == [by |-> frame[p].call, sink |-> h,
                     user |-> ~Pooled(p), line |-> <<LineOf(heap[e])>>]
    <3>1. /\ h \in Hooks /\ pc[p] = "hook" /\ sent' = Append(sent, d)
          /\ "hook" \in heap'[e].data <=> "hook" \in heap[e].data \/ h \in ModifyHooks
      BY <1>3, FireSends
    <3>2. d.by = c /\ d.sink = h
      BY <1>1
    <3> HIDE DEF d, h
    <3> QED BY <1>0, <3>1, <3>2, SinksAppend
  <2> HIDE DEF h
  <2>2. pc'[p] \notin Before
    BY <2>1, StepLabels DEF Before
  <2>3. pc'[p] \in HasNew => frame'[p].new = e
    BY <2>1, LineFrame DEF HasNew
  <2>4. h \notin Outs
    BY <2>1, ConstantsAssumption
  <2> QED BY <1>2, <2>1, <2>2, <2>3, <2>4 DEF Delivered, HasNew
<1>4. CASE Write(p)
  <2>1. pc[p] = "write" /\ pc'[p] = "putBuffer" /\ heap' = heap
    BY <1>4, WriteSends
  <2>2. frame'[p].new = frame[p].new
    BY <2>1, LineFrame DEF HasNew
  <2>3. SinksOf(c)' \cap ModifyHooks = SinksOf(c) \cap ModifyHooks
    <3>1. CASE sent' = sent
      BY <3>1 DEF SinksOf
    <3>2. CASE sent' # sent
      <4> DEFINE d == [by |-> frame[p].call, sink |-> frame[p].out,
                       user |-> ~Pooled(p), line |-> Serialized(p)]
      <4>1. sent' = Append(sent, d) /\ d.by = c /\ d.sink \in Outs
        BY <1>1, <1>4, <3>2, WriteSends
      <4> HIDE DEF d
      <4>2. d.sink \notin ModifyHooks
        BY <4>1, ConstantsAssumption
      <4> QED BY <1>0, <4>1, <4>2, SinksAppend
    <3> QED BY <3>1, <3>2
  <2> QED BY <1>2, <2>1, <2>2, <2>3 DEF Delivered, Before, HasNew
<1>5. CASE ~FireHook(p) /\ ~Write(p)
  <2>1. SinksOf(c)' = SinksOf(c)
    BY <1>5, OthersSendNothing DEF SinksOf
  <2>2. CASE Prepare(p)
    <3>1. pc[p] = "prepare" /\ pc'[p] \notin Before
      BY <1>0, <2>2 DEF Prepare, Steps, GoTo, TypeOK, Before
    <3> QED BY <1>2, <2>1, <2>2, <3>1, PrepareLine DEF Delivered, Before
  <2>3. CASE ~Prepare(p) /\ pc'[p] \in HasNew
    <3>1. pc[p] \in HasNew \ {"putBuffer"} \/ pc'[p] = "putBuffer"
      BY <1>0, <2>3, StepLabels, ZenonT(60)
         DEF Step, PutBuffer, Steps, GoTo, HasNew, LoadConsole, LoadHook,
             NewEntry, Derive, Release, LockLog, WaitLog, Snapshot, FireHook, GetBuffer, Format,
             LockOut, WaitOut, Write, Lock, Exit, Return, Finish, TypeOK
    <3>2. frame'[p].new = frame[p].new /\ pc[p] \in HasNew /\ frame[p].new \in Entries
      BY <1>0, <2>3, StepLabels, LineFrame DEF LocalInv, Local
    <3>3. heap'[frame[p].new].data = heap[frame[p].new].data
      <4> DEFINE e == frame[p].new
      <4>1. heap' = heap \/ (\E b : heap' = [heap EXCEPT ![e].buffer = b]) \/ Format(p)
        BY <1>5, <2>3, <3>2
           DEF Step, LoadConsole, LoadHook, NewEntry, Derive, Release, LockLog, WaitLog,
               Snapshot, GetBuffer, LockOut, WaitOut, PutBuffer, Exit, Lock, Steps, HasNew
      <4>2. heap[e] \in Entry
        BY <1>0, <3>2 DEF TypeOK
      <4>3. ASSUME NEW b, heap' = [heap EXCEPT ![e].buffer = b]
            PROVE  heap'[e].data = heap[e].data
        <5>1. heap'[e] = [heap[e] EXCEPT !.buffer = b]
          BY <1>0, <3>2, <4>3 DEF TypeOK
        <5> QED BY <4>2, <5>1 DEF Entry
      <4>4. CASE Format(p)
        BY <3>2, <4>4, FormatOnly DEF LineOf
      <4> QED BY <4>1, <4>3, <4>4
    <3>4. pc'[p] \notin Before
      BY <2>3 DEF Before, HasNew
    <3> QED BY <1>2, <2>1, <3>1, <3>2, <3>3, <3>4 DEF Delivered
  <2>4. CASE pc'[p] \notin HasNew
    BY <1>2, <2>1, <2>4, StepLabels DEF Delivered
  <2> QED BY <2>2, <2>3, <2>4
<1> QED BY <1>3, <1>4, <1>5

LEMMA StepDelivered ==
  ASSUME IInv, NumberInv, DataInv, DeliveredInv, NEW p \in Procs, Step(p)
  PROVE  DeliveredInv'
<1> SUFFICES ASSUME NEW q \in Procs, NEW c \in Nat, c > 0, frame'[q].call = c
             PROVE  Delivered(q, c)'
  BY DEF DeliveredInv
<1>1. CASE q = p
  BY <1>1, OwnDelivered
<1>2. CASE q # p
  <2>1. frame[q].call = c
    BY <1>2, OnlyMoves
  <2> QED BY <1>2, <2>1, OthersDelivered
<1> QED BY <1>1, <1>2

LEMMA CallDelivered ==
  ASSUME IInv, NumberInv, DeliveredInv, SentInv, NEW p \in Procs, Call(p)
  PROVE  DeliveredInv'
<1> SUFFICES ASSUME NEW q \in Procs, NEW c \in Nat, c > 0, frame'[q].call = c
             PROVE  Delivered(q, c)'
  BY DEF DeliveredInv
<1>1. UNCHANGED <<heap, sent>> /\ SinksOf(c)' = SinksOf(c)
  BY CallHeap DEF SinksOf
<1>2. CASE q # p
  BY <1>1, <1>2, OnlyMoves DEF DeliveredInv, Delivered
<1>3. CASE q = p
  <2>1. c = calls + 1 /\ pc'[p] \in {"checkConsole", "newEntry"}
    BY <1>3, CallFrame
  <2>2. SinksOf(c) = {}
    BY <2>1 DEF IInv, TypeOK, SentInv, SinksOf
  <2> QED BY <1>1, <1>3, <2>1, <2>2 DEF Delivered, HasNew
<1> QED BY <1>2, <1>3

LEMMA ConfigDelivered ==
  ASSUME IInv, DeliveredInv, Config
  PROVE  DeliveredInv'
<1> SUFFICES ASSUME NEW q \in Procs, NEW c \in Nat, c > 0, frame'[q].call = c
             PROVE  Delivered(q, c)'
  BY DEF DeliveredInv
<1>1. UNCHANGED <<heap, sent, pc>> /\ SinksOf(c)' = SinksOf(c)
  BY ConfigHeap DEF SinksOf
<1>2. frame'[q].call = frame[q].call /\ frame'[q].new = frame[q].new
  BY ConfigFrames
<1> QED BY <1>1, <1>2 DEF DeliveredInv, Delivered

\* The history grows by deliveries of calls that have begun.
LEMMA StepSent ==
  ASSUME IInv, NumberInv, SentInv, NEW p \in Procs, Step(p)
  PROVE  SentInv'
<1>0. TypeOK /\ calls' = calls /\ calls \in Nat
  BY StepCalls DEF IInv, TypeOK
<1>1. CASE sent' = sent
  BY <1>0, <1>1 DEF SentInv
<1>2. ASSUME NEW d, d.by = frame[p].call, sent' = Append(sent, d), pc[p] \in HasNew
      PROVE  SentInv'
  <2>1. frame[p].call \in 1..calls
    BY <1>0, <1>2 DEF NumberInv, Numbered, Logging, HasNew
  <2>2. /\ Len(sent) \in Nat /\ DOMAIN sent = 1..Len(sent)
        /\ DOMAIN sent' = 1..(Len(sent) + 1)
        /\ \A i \in 1..Len(sent) : sent'[i] = sent[i]
        /\ sent'[Len(sent) + 1] = d
    BY <1>0, <1>2, SentAppend
  <2> SUFFICES ASSUME NEW i \in DOMAIN sent'
               PROVE  sent'[i].by \in 1..calls'
    BY DEF SentInv
  <2>3. CASE i = Len(sent) + 1
    BY <1>0, <1>2, <2>1, <2>2, <2>3
  <2>4. CASE i # Len(sent) + 1
    <3>1. i \in 1..Len(sent)
      BY <2>2, <2>4
    <3> QED BY <1>0, <2>2, <3>1 DEF SentInv
  <2> QED BY <2>3, <2>4
<1>3. CASE FireHook(p)
  BY <1>2, <1>3, FireSends DEF HasNew
<1>4. CASE Write(p)
  BY <1>1, <1>2, <1>4, WriteSends DEF HasNew
<1> QED BY <1>1, <1>3, <1>4, OthersSendNothing

------------------------------------------------------------------------------
(* The lines.                                                               *)

\* What one delivery must look like, given those before it.
Whole(d, i) ==
  /\ Len(d.line) = 1
  /\ LET l == d.line[1] IN
       /\ l.msg = d.by /\ l.time = d.by /\ l.caller \in {0, d.by}
       /\ "field" \in l.data <=> d.user
       /\ "hook" \in l.data <=>
            \E j \in 1..(i - 1) : sent[j].by = d.by /\ sent[j].sink \in ModifyHooks

LEMMA WholeLines == LineIntegrity <=> \A i \in DOMAIN sent : sent[i].sink \in Outs => Whole(sent[i], i)
  BY DEF LineIntegrity, Whole

\* The line that Write hands to Out.
LEMMA WrittenLine ==
  ASSUME DataInv, NEW p \in Procs, Write(p)
  PROVE  Serialized(p) = <<LineOf(heap[frame[p].new])>>
<1> DEFINE l == LineOf(heap[frame[p].new])
<1>1. content[frame[p].buf] = <<l>> /\ frame[p].size = 1
  BY DEF Write, Steps, DataInv, BufData
<1> HIDE DEF l
<1>2. <<l>> \in Seq({l}) /\ Len(<<l>>) = 1
  OBVIOUS
<1>3. SubSeq(<<l>>, 1, 1) = <<l>>
  BY <1>2, SubSeqFull
<1> QED BY <1>1, <1>2, <1>3 DEF Serialized, l

LEMMA WrittenWhole ==
  ASSUME IInv, NumberInv, DataInv, DeliveredInv, NEW p \in Procs, Write(p), NEW d,
         d = [by |-> frame[p].call, sink |-> frame[p].out, user |-> ~Pooled(p),
              line |-> Serialized(p)]
  PROVE  Whole(d, Len(sent) + 1)
<1> DEFINE e == frame[p].new
           b == frame[p].buf
           c == frame[p].call
           l == LineOf(heap[e])
<1>0. TypeOK /\ LocalInv
  BY DEF IInv
<1>1. pc[p] = "write"
  BY DEF Write, Steps
<1>2. e \in Entries /\ frame[p].ent \in Entries /\ b \in Buffers
  BY <1>0, <1>1 DEF LocalInv, Local, HasNew, HasEnt, HasBuf
<1>4. Serialized(p) = <<l>>
  BY WrittenLine
<1>5. c \in Nat /\ c > 0
  BY <1>1 DEF NumberInv, Numbered, Logging, HasNew
<1>6. /\ heap[e].msg = c /\ heap[e].time = c /\ heap[e].caller \in {0, c}
      /\ "field" \in heap[e].data <=> ~heap[frame[p].ent].pooled
  BY <1>1 DEF DataInv, LineData, HasNew
<1>7. Pooled(p) <=> heap[frame[p].ent].pooled
  BY <1>2, ConstantsAssumption DEF Pooled
<1>8. "hook" \in heap[e].data <=> SinksOf(c) \cap ModifyHooks # {}
  BY <1>1, <1>5 DEF DeliveredInv, Delivered, HasNew
<1>9. SinksOf(c) \cap ModifyHooks # {} <=>
        \E j \in DOMAIN sent : sent[j].by = c /\ sent[j].sink \in ModifyHooks
  BY DEF SinksOf
<1>10. DOMAIN sent = 1..((Len(sent) + 1) - 1)
  <2>1. Len(sent) \in Nat /\ DOMAIN sent = 1..Len(sent)
    BY <1>0, LenProperties DEF TypeOK
  <2> QED BY <2>1
<1>11. /\ l.msg = c /\ l.time = c /\ l.caller \in {0, c} /\ l.data = heap[e].data
  BY <1>6 DEF LineOf
<1>12. d.line = <<l>> /\ d.by = c /\ d.user = ~Pooled(p)
  BY <1>4
<1> HIDE DEF l, c, e
<1>13. Len(<<l>>) = 1 /\ <<l>>[1] = l
  OBVIOUS
<1> QED BY <1>6, <1>7, <1>8, <1>9, <1>10, <1>11, <1>12, <1>13 DEF Whole

LEMMA StepWhole ==
  ASSUME IInv, NumberInv, DataInv, DeliveredInv, LineIntegrity, NEW p \in Procs, Step(p)
  PROVE  LineIntegrity'
<1>0. TypeOK
  BY DEF IInv
<1>1. CASE sent' = sent
  BY <1>1 DEF LineIntegrity
<1>2. ASSUME NEW d, sent' = Append(sent, d), d.sink \in Outs => Whole(d, Len(sent) + 1)
      PROVE  LineIntegrity'
  <2> DEFINE n == Len(sent)
  <2>1. /\ n \in Nat /\ DOMAIN sent = 1..n /\ DOMAIN sent' = 1..(n + 1)
        /\ \A i \in 1..n : sent'[i] = sent[i]
        /\ sent'[n + 1] = d
    BY <1>0, <1>2, SentAppend
  <2>2. \A i \in 1..n : sent[i].sink \in Outs => Whole(sent[i], i)
    BY <2>1, WholeLines
  <2> HIDE DEF n
  <2>3. ASSUME NEW i \in 1..(n + 1), NEW x, x = sent'[i], x.sink \in Outs
        PROVE  Whole(x, i)
    <3>1. CASE i = n + 1
      BY <1>2, <2>1, <2>3, <3>1 DEF n
    <3>2. CASE i # n + 1
      <4>1. i \in 1..n
        BY <2>1, <3>2
      <4> QED BY <2>1, <2>2, <2>3, <4>1
    <3> QED BY <3>1, <3>2
  <2>4. ASSUME NEW i \in 1..(n + 1), NEW j
        PROVE  j \in 1..(i - 1) => sent'[j] = sent[j]
    <3>1. j \in 1..(i - 1) => j \in 1..n
      BY <2>1
    <3> QED BY <2>1, <3>1
  <2> SUFFICES ASSUME NEW i \in 1..(n + 1), sent'[i].sink \in Outs
               PROVE  LET x == sent'[i] IN
                        /\ Len(x.line) = 1
                        /\ LET l == x.line[1] IN
                             /\ l.msg = x.by /\ l.time = x.by /\ l.caller \in {0, x.by}
                             /\ "field" \in l.data <=> x.user
                             /\ "hook" \in l.data <=>
                                  \E j \in 1..(i - 1) : /\ sent'[j].by = x.by
                                                        /\ sent'[j].sink \in ModifyHooks
    BY <2>1 DEF LineIntegrity
  <2> QED BY <2>3, <2>4 DEF Whole
<1>3. CASE FireHook(p)
  <2> DEFINE d == [by |-> frame[p].call, sink |-> Head(frame[p].hooks),
                   user |-> ~Pooled(p), line |-> <<LineOf(heap[frame[p].new])>>]
  <2>1. sent' = Append(sent, d) /\ d.sink \in Hooks
    BY <1>3, FireSends
  <2>2. d.sink \notin Outs
    BY <2>1, ConstantsAssumption
  <2> HIDE DEF d
  <2> QED BY <1>2, <2>1, <2>2
<1>4. CASE Write(p)
  BY <1>1, <1>2, <1>4, WriteSends, WrittenWhole
<1> QED BY <1>1, <1>3, <1>4, OthersSendNothing

------------------------------------------------------------------------------
(* The writer.                                                              *)

\* The steps of a call leave Out and the flag of the mutex alone, and a call comes to
\* the write with the Out of now.
LEMMA StepOut ==
  ASSUME IInv, NEW p \in Procs, Step(p)
  PROVE  /\ out' = out /\ disabled' = disabled
         /\ pc'[p] = "write" => frame'[p].out = out
<1> USE DEF GoTo, Steps
<1>0. TypeOK
  BY DEF IInv
<1>1. out' = out /\ disabled' = disabled
  BY DEF Step, LoadConsole, LoadHook, NewEntry, Derive, Release, LockLog, WaitLog,
         Snapshot, Prepare, FireHook, GetBuffer, Format, LockOut, WaitOut, Write,
         PutBuffer, Exit, Lock, Acquire, EndSnapshot, EndWrite, Unlock, configVars, mutexVars
<1>2. CASE LockOut(p) \/ WaitOut(p)
  <2>1. pc'[p] = "write" => frame' = [frame EXCEPT ![p].out = out]
    BY <1>0, <1>2 DEF LockOut, WaitOut, Lock, TypeOK
  <2> QED BY <1>0, <1>1, <2>1 DEF TypeOK, Frame
<1>3. CASE ~(LockOut(p) \/ WaitOut(p))
  <2>1. pc'[p] # "write"
    <3>1. CASE Return(p) \/ Finish(p)
      BY <1>0, <3>1 DEF Return, Finish, TypeOK
    <3>2. CASE NewEntry(p)
      <4>1. pc'[p] \in {"lockLog", "derive", "checkConsole"}
        <5>1. CASE frame[p].kind = "logger"
          BY <1>0, <3>2, <5>1 DEF NewEntry, TypeOK
        <5>2. CASE frame[p].kind = "with"
          BY <1>0, <3>2, <5>2 DEF NewEntry, TypeOK
        <5>3. CASE frame[p].kind # "logger" /\ frame[p].kind # "with"
          BY <1>0, <3>2, <5>3 DEF NewEntry, TypeOK
        <5> QED BY <5>1, <5>2, <5>3
      <4> QED BY <4>1
    <3>3. CASE \/ LoadConsole(p) \/ LoadHook(p) \/ Derive(p) \/ Release(p) \/ Exit(p)
      BY <1>0, <3>1, <3>3 DEF LoadConsole, LoadHook, Enabled, Derive, Release, Exit, TypeOK
    <3>4. CASE LockLog(p) \/ WaitLog(p) \/ Snapshot(p) \/ Prepare(p) \/ FireHook(p)
      BY <1>0, <3>1, <3>4 DEF LockLog, WaitLog, Lock, Snapshot, Prepare, FireHook, TypeOK
    <3>5. CASE GetBuffer(p) \/ Format(p) \/ Write(p) \/ PutBuffer(p)
      BY <1>0, <3>1, <3>5 DEF GetBuffer, Format, Write, PutBuffer, TypeOK
    <3> QED BY <1>3, <3>2, <3>3, <3>4, <3>5 DEF Step
  <2> QED BY <1>1, <2>1
<1> QED BY <1>2, <1>3

LEMMA StepFence ==
  ASSUME IInv, FenceInv, NEW p \in Procs, Step(p)
  PROVE  FenceInv'
<1>1. LockInv'
  BY StepKeepsLock DEF FenceInv
<1>2. \A q \in Procs \ {p} : pc'[q] = pc[q] /\ frame'[q] = frame[q]
  BY OnlyMoves
<1>3. OutputFence'
  BY <1>2, StepOut DEF FenceInv, OutputFence, Writing
<1> QED BY <1>1, <1>3 DEF FenceInv

LEMMA CallFence ==
  ASSUME IInv, FenceInv, NEW p \in Procs, Call(p)
  PROVE  FenceInv'
<1>1. LockInv'
  BY CallKeepsLock DEF FenceInv
<1>2. /\ \A q \in Procs \ {p} : pc'[q] = pc[q] /\ frame'[q] = frame[q]
      /\ pc'[p] # "write"
  BY OnlyMoves, CallFrame
<1>3. out' = out /\ disabled' = disabled
  BY DEF Call, LoggerCall, PrintCall, WarnfCall, EntryCall, WithCall, Begin, configVars,
         mutexVars
<1> QED BY <1>1, <1>2, <1>3 DEF FenceInv, OutputFence, Writing

\* SetOutput has the mutex, so nobody writes.
LEMMA ConfigFence ==
  ASSUME IInv, FenceInv, Config
  PROVE  FenceInv'
<1>1. LockInv'
  BY ConfigKeepsLock DEF FenceInv
<1>2. pc' = pc /\ \A q \in Procs : frame'[q].out = frame[q].out
  BY ConfigHeap, ConfigFrames
<1>3. CASE SetNoLock
  BY <1>1, <1>3 DEF SetNoLock, Disable, FenceInv, OutputFence
<1>4. CASE SetOutput /\ ~disabled
  <2>1. lock = NoProc
    BY <1>4 DEF SetOutput, LockedSetter, SetterEnters
  <2>2. \A q \in Procs : pc[q] # "write"
    BY <1>4, <2>1, NoProcAssumption DEF FenceInv, LockInv, Critical
  <2> QED BY <1>1, <1>2, <2>2 DEF FenceInv, OutputFence, Writing
<1>5. CASE SetOutput /\ disabled
  <2>1. disabled' = disabled
    BY <1>5 DEF SetOutput, LockedSetter, Configure, mutexVars
  <2> QED BY <1>1, <1>5, <2>1 DEF FenceInv, OutputFence
<1>6. CASE ~SetNoLock /\ ~SetOutput
  <2>1. out' = out /\ disabled' = disabled
    BY <1>6 DEF Config, SetLevel, StoreHookLevel, AddHook, ReplaceHooks, SetBufferPool,
                SetReportCaller, LockedSetter, Configure, mutexVars
  <2> QED BY <1>1, <1>2, <2>1 DEF FenceInv, OutputFence, Writing
<1> QED BY <1>3, <1>4, <1>5, <1>6

------------------------------------------------------------------------------
(* The theorems.                                                            *)

LEMMA InitLine == Init => LineInv
<1> SUFFICES ASSUME Init PROVE LineInv
  OBVIOUS
<1>1. sent = <<>> /\ DOMAIN sent = {} /\ users = {} /\ calls = 0
  BY DEF Init
<1>2. \A p \in Procs : pc[p] = "idle" /\ frame[p] = IdleFrame
  BY DEF Init
<1>3. IdleFrame.call = 0
  BY DEF IdleFrame
<1>4. NumberInv
  <2> SUFFICES ASSUME NEW p \in Procs PROVE Numbered(p)
    BY DEF NumberInv
  <2>1. pc[p] \notin Logging /\ frame[p].call = 0
    BY <1>2, <1>3 DEF Logging, Before, HasNew
  <2> QED BY <1>1, <1>2, <2>1 DEF Numbered
<1>5. DataInv
  BY <1>1, <1>2 DEF DataInv, UserData, FreshData, LineData, BufData, Before, HasNew
<1>6. DeliveredInv
  BY <1>2, <1>3 DEF DeliveredInv
<1>7. SentInv /\ LineIntegrity
  BY <1>1 DEF SentInv, LineIntegrity
<1>8. FenceInv
  BY <1>2, NoProcAssumption DEF Init, MutexInit, FenceInv, LockInv, OutputFence, Writing,
                                Labels, Critical
<1> QED BY <1>4, <1>5, <1>6, <1>7, <1>8 DEF LineInv

\* A call and a setter deliver nothing.
LEMMA NoDelivery ==
  ASSUME LineIntegrity, SentInv, sent' = sent, calls \in Nat, calls' \in Nat, calls' >= calls
  PROVE  LineIntegrity' /\ SentInv'
  BY DEF LineIntegrity, SentInv

LEMMA NextLine ==
  ASSUME RestingInv, LineInv, [Next]_vars
  PROVE  LineInv'
<1>0. /\ IInv /\ BufInv /\ PoolPristine
      /\ NumberInv /\ DataInv /\ DeliveredInv /\ SentInv /\ LineIntegrity /\ FenceInv
      /\ calls \in Nat
  BY DEF RestingInv, LineInv, IInv, TypeOK
<1>1. CASE UNCHANGED vars
  <2>1. UNCHANGED <<lock, disabled, out, heap, content, users, pc, frame, calls, sent>>
    BY <1>1 DEF vars, mutexVars, configVars
  <2>2. NumberInv' /\ DataInv'
    BY <1>0, <2>1 DEF NumberInv, Numbered, DataInv, UserData, FreshData, LineData, BufData
  <2>3. DeliveredInv'
    BY <1>0, <2>1 DEF DeliveredInv, Delivered, SinksOf
  <2>4. SentInv' /\ LineIntegrity' /\ FenceInv'
    BY <1>0, <2>1 DEF SentInv, LineIntegrity, FenceInv, LockInv, OutputFence, Writing
  <2> QED BY <2>2, <2>3, <2>4 DEF LineInv
<1>2. ASSUME NEW p \in Procs, Call(p)
      PROVE  LineInv'
  <2>1. NumberInv' /\ DataInv' /\ DeliveredInv' /\ FenceInv'
    BY <1>0, <1>2, CallNumber, CallData, CallDelivered, CallFence
  <2>2. sent' = sent /\ calls' \in {calls, calls + 1}
    BY <1>0, <1>2, CallHeap, CallFrame
  <2>3. calls' \in Nat /\ calls' >= calls
    BY <1>0, <2>2
  <2> QED BY <1>0, <2>1, <2>2, <2>3, NoDelivery DEF LineInv
<1>3. ASSUME NEW p \in Procs, Step(p)
      PROVE  LineInv'
  <2>1. NumberInv' /\ DataInv'
    BY <1>0, <1>3, StepNumber, StepData
  <2>2. DeliveredInv' /\ SentInv' /\ LineIntegrity' /\ FenceInv'
    BY <1>0, <1>3, StepDelivered, StepSent, StepWhole, StepFence
  <2> QED BY <2>1, <2>2 DEF LineInv
<1>4. CASE Config
  <2>1. NumberInv' /\ DataInv' /\ DeliveredInv' /\ FenceInv'
    BY <1>0, <1>4, ConfigNumber, ConfigData, ConfigDelivered, ConfigFence
  <2>2. sent' = sent /\ calls' = calls
    BY <1>0, <1>4, ConfigHeap
  <2> QED BY <1>0, <2>1, <2>2, NoDelivery DEF LineInv
<1> QED BY <1>1, <1>2, <1>3, <1>4 DEF Next

LEMMA LineInvariant == Spec => []LineInv
<1>1. Init => LineInv
  BY InitLine
<1>2. RestingInv /\ LineInv /\ [Next]_vars => LineInv'
  BY NextLine
<1> QED BY <1>1, <1>2, RestingInvariant, PTL DEF Spec

\* Whatever is written to Out is one whole line of the call that writes it, with its own
\* message, time and caller, the fields of its entry and a key of a hook only if such a
\* hook has fired for this call: no goroutine, reused entry or reused buffer mixes lines
\* (entry.go log and write, logger.go newEntry).
THEOREM LinesAreWhole == Spec => []LineIntegrity
<1>1. LineInv => LineIntegrity
  BY DEF LineInv
<1> QED BY <1>1, LineInvariant, PTL

\* Until SetNoLock is called, whoever is in Out.Write has the Out of the logger: once
\* SetOutput has returned, the old writer receives nothing more (logger.go SetOutput).
THEOREM OutputIsFenced == Spec => []OutputFence
<1>1. LineInv => OutputFence
  BY DEF LineInv, FenceInv
<1> QED BY <1>1, LineInvariant, PTL
==============================================================================
