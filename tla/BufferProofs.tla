----------------------------- MODULE BufferProofs -----------------------------
(***************************************************************************)
(* Who has a buffer, and what is left of a call in an entry and a buffer   *)
(* at rest: the ownership of buffers, that they go home, that the pools    *)
(* are clean, and that an entry held by a hook or the application is left  *)
(* alone.                                                                  *)
(***************************************************************************)
EXTENDS EntryProofs, FiniteSetTheorems

\* A frame has a buffer between Get and Put only, and nobody else has it.
BufOwned(p) ==
  /\ pc[p] \notin HasBuf => frame[p].buf = NoBuffer
  /\ frame[p].buf \in Buffers =>
       /\ \A q \in Procs \ {p} : frame[q].buf # frame[p].buf
       /\ \A r \in Pools : frame[p].buf \notin freeBufs[r]

\* A buffer rests in one pool, and holds nothing while nobody has it.
RestInv == /\ \A q, r \in Pools : \A b \in freeBufs[q] : b \in freeBufs[r] => q = r
           /\ \A b \in Buffers : (\A p \in Procs : frame[p].buf # b) => content[b] = <<>>

\* Only the entry of the line that is being logged points to a buffer.
PointInv == \A e \in Entries : heap[e].buffer \in Buffers =>
              \E p \in Procs : frame[p].buf = heap[e].buffer /\ frame[p].new = e

BufInv == (\A p \in Procs : BufOwned(p)) /\ RestInv /\ PointInv

------------------------------------------------------------------------------
(* What a step leaves alone.                                                *)

\* A call or a step of p moves p alone.
LEMMA OnlyMoves ==
  ASSUME IInv, NEW p \in Procs, Call(p) \/ Step(p)
  PROVE  \A q \in Procs \ {p} : pc'[q] = pc[q] /\ frame'[q] = frame[q]
<1> USE DEF IInv, TypeOK, GoTo, Return, Finish, Enabled, Lock
<1>1. CASE Call(p)
  BY <1>1 DEF Call, LoggerCall, PrintCall, WarnfCall, EntryCall, WithCall, Begin
<1>2. CASE LoadConsole(p) \/ LoadHook(p) \/ NewEntry(p) \/ Derive(p) \/ Release(p)
  BY <1>2 DEF LoadConsole, LoadHook, NewEntry, Derive, Release
<1>3. CASE LockLog(p) \/ WaitLog(p) \/ Snapshot(p) \/ Prepare(p) \/ FireHook(p)
  BY <1>3 DEF LockLog, WaitLog, Snapshot, Prepare, FireHook
<1>4. CASE GetBuffer(p) \/ Format(p) \/ LockOut(p) \/ WaitOut(p) \/ Write(p)
  BY <1>4 DEF GetBuffer, Format, LockOut, WaitOut, Write
<1>5. CASE PutBuffer(p) \/ Exit(p)
  BY <1>5 DEF PutBuffer, Exit
<1> QED BY <1>1, <1>2, <1>3, <1>4, <1>5, SMTT(30) DEF Step

\* A step changes no entry but the one it takes from the pool or from the unused ones,
\* the pooled one it works with and the one of its line.
LEMMA HeapStep ==
  ASSUME IInv, NEW p \in Procs, Step(p), NEW x \in Entries
  PROVE  \/ heap'[x] = heap[x]
         \/ x \in entryPool \ entryPool'
         \/ x \in UnusedEntries
         \/ x = frame[p].new /\ pc[p] \in HasNew
         \/ x = frame[p].ent /\ heap[x].pooled
<1> USE DEF IInv, TypeOK
<1>1. CASE UNCHANGED heap
  BY <1>1
<1>2. CASE NewEntry(p)
  <2>1. PICK e \in entryPool \cup UnusedEntries :
          entryPool' = entryPool \ {e} /\ heap' = [heap EXCEPT ![e] = Handed(e)]
    BY <1>2, FreshIn DEF NewEntry
  <2> QED BY <2>1
<1>3. CASE Derive(p)
  <2>1. PICK e \in UnusedEntries : \E z : heap' = [heap EXCEPT ![e] = z]
    BY <1>3, FreshIn DEF Derive
  <2> QED BY <2>1
<1>4. CASE Release(p)
  BY <1>4 DEF Release, Steps, LocalInv, Local
<1>5. CASE Prepare(p)
  <2>1. PICK e \in Entries : /\ \E z : heap' = [heap EXCEPT ![e] = z]
                             /\ (e = frame[p].ent /\ InPlace(p)) \/ e \in UnusedEntries
    <3>1. frame[p].ent \in Entries
      BY <1>5 DEF Prepare, Steps, LocalInv, Local, HasEnt
    <3> QED BY <1>5, <3>1, FreshIn DEF Prepare, UnusedEntries
  <2> QED BY <2>1 DEF InPlace, Pooled
<1>6. CASE FireHook(p) \/ GetBuffer(p) \/ PutBuffer(p)
  BY <1>6 DEF FireHook, GetBuffer, PutBuffer, Steps, HasNew
<1>7. CASE Format(p)
  BY <1>7, FormatOnly DEF HasNew
<1>8. CASE ~(NewEntry(p) \/ Derive(p) \/ Release(p) \/ Prepare(p) \/ FireHook(p)
             \/ GetBuffer(p) \/ PutBuffer(p) \/ Format(p))
  BY <1>1, <1>8 DEF Step, LoadConsole, LoadHook, LockLog, WaitLog, Snapshot, LockOut,
                    WaitOut, Write, Exit
<1> QED BY <1>2, <1>3, <1>4, <1>5, <1>6, <1>7, <1>8

\* So an entry of another frame, one of the application, and one that stays at rest
\* are as they were.
LEMMA HeapKept ==
  ASSUME IInv, NEW p \in Procs, Step(p), NEW x \in Entries,
         \/ x \in users \/ x \in entryPool \cap entryPool'
         \/ \E q \in Procs \ {p} : Holds(q, x)
  PROVE  heap'[x] = heap[x]
<1>1. OwnInv
  BY DEF IInv
<1>2. CASE x = frame[p].new /\ pc[p] \in HasNew
  BY <1>2, NewExclusive
<1>3. CASE x = frame[p].ent /\ heap[x].pooled
  BY <1>1, <1>3 DEF OwnInv, EntOwned
<1>4. x \in UnusedEntries => FALSE
  BY DEF UnusedEntries, Holds
<1>5. x \in entryPool => ~\E q \in Procs : Holds(q, x)
  <2> SUFFICES ASSUME x \in entryPool, NEW q \in Procs, Holds(q, x)
               PROVE  FALSE
    OBVIOUS
  <2>1. heap[x].pooled /\ x \notin users
    BY <1>1 DEF OwnInv
  <2> QED BY <1>1, <2>1 DEF OwnInv, EntOwned, NewOwned, Holds
<1>6. x \in entryPool => x \notin users
  BY <1>1 DEF OwnInv
<1> QED BY <1>2, <1>3, <1>4, <1>5, <1>6, HeapStep

\* A call has no effect on entries, and neither has a setter.
LEMMA CallHeap ==
  ASSUME NEW p \in Procs, Call(p)
  PROVE  UNCHANGED <<heap, content, entryPool, freeBufs, users, retained, sent>>
  BY DEF Call, LoggerCall, PrintCall, WarnfCall, EntryCall, WithCall, Begin, poolVars

LEMMA ConfigHeap ==
  ASSUME IInv, Config
  PROVE  UNCHANGED <<heap, content, entryPool, freeBufs, users, retained, sent, pc, calls>>
  BY DEF Config, SetLevel, StoreHookLevel, AddHook, ReplaceHooks, SetBufferPool,
         SetReportCaller, SetOutput, SetNoLock, LockedSetter, Configure, poolVars

\* A setter adds to the history of a frame and changes nothing else of it.
LEMMA ConfigFrames ==
  ASSUME IInv, Config, NEW p \in Procs
  PROVE  /\ frame'[p].ent = frame[p].ent /\ frame'[p].new = frame[p].new
         /\ frame'[p].buf = frame[p].buf /\ frame'[p].call = frame[p].call
         /\ frame'[p].kind = frame[p].kind /\ frame'[p].size = frame[p].size
         /\ frame'[p].caller = frame[p].caller /\ frame'[p].out = frame[p].out
         /\ frame'[p].pool = frame[p].pool /\ frame'[p].exits = frame[p].exits
<1>1. CASE UNCHANGED frame
  BY <1>1
<1>2. CASE \E console, hook : Witness(console, hook)
  <2>1. PICK console, hook : Witness(console, hook)
    BY <1>2
  <2> DEFINE s == [frame[p] EXCEPT !.seen.console = @ \cup {console},
                                   !.seen.hook = @ \cup {hook}]
  <2>2. frame'[p] = frame[p] \/ frame'[p] = s
    BY <2>1 DEF Witness
  <2>3. frame[p] \in Frame
    BY DEF IInv, TypeOK
  <2>4. /\ s.ent = frame[p].ent /\ s.new = frame[p].new /\ s.buf = frame[p].buf
        /\ s.call = frame[p].call /\ s.kind = frame[p].kind /\ s.size = frame[p].size
        /\ s.caller = frame[p].caller /\ s.out = frame[p].out /\ s.pool = frame[p].pool
        /\ s.exits = frame[p].exits
    BY <2>3 DEF Frame
  <2> QED BY <2>2, <2>4
<1>3. UNCHANGED frame \/ \E console, hook : Witness(console, hook)
  BY DEF Config, SetLevel, StoreHookLevel, AddHook, ReplaceHooks, SetBufferPool,
         SetReportCaller, SetOutput, SetNoLock, LockedSetter
<1> QED BY <1>1, <1>2, <1>3

------------------------------------------------------------------------------
(* The ownership of buffers.                                                *)

\* A step of p that gives p no buffer, takes none from it and fills none.
LEMMA BufSame ==
  ASSUME IInv, BufInv, NEW p \in Procs,
         \A q \in Procs \ {p} : pc'[q] = pc[q] /\ frame'[q] = frame[q],
         UNCHANGED <<freeBufs, content>>,
         frame'[p].buf = frame[p].buf,
         pc'[p] \in HasBuf <=> pc[p] \in HasBuf,
         frame[p].buf \in Buffers => frame'[p].new = frame[p].new,
         \A x \in Entries : heap'[x].buffer \in Buffers => heap'[x].buffer = heap[x].buffer
  PROVE  BufInv'
<1>1. \A q \in Procs : frame'[q].buf = frame[q].buf
  OBVIOUS
<1>2. \A q \in Procs : BufOwned(q)'
  BY <1>1 DEF BufInv, BufOwned
<1>3. RestInv'
  BY <1>1 DEF BufInv, RestInv
<1>4. PointInv'
  <2> SUFFICES ASSUME NEW x \in Entries, heap'[x].buffer \in Buffers
               PROVE  \E q \in Procs : frame'[q].buf = heap'[x].buffer /\ frame'[q].new = x
    BY DEF PointInv
  <2>1. heap'[x].buffer = heap[x].buffer
    OBVIOUS
  <2>2. PICK q \in Procs : frame[q].buf = heap[x].buffer /\ frame[q].new = x
    BY <2>1 DEF BufInv, PointInv
  <2>3. frame'[q].buf = heap'[x].buffer /\ frame'[q].new = x
    BY <2>1, <2>2
  <2> QED BY <2>3
<1> QED BY <1>2, <1>3, <1>4 DEF BufInv

LEMMA NoBufferFrame ==
  ASSUME IInv, NEW p \in Procs, Return(p) \/ Finish(p)
  PROVE  frame'[p].buf = NoBuffer /\ pc'[p] \notin HasBuf
<1> USE DEF IInv, TypeOK, GoTo, HasBuf
<1>1. CASE Return(p)
  BY <1>1 DEF Return, IdleFrame
<1>2. CASE ~Return(p)
  <2> DEFINE r == [frame[p] EXCEPT !.ent = NoEntry, !.new = NoEntry, !.buf = NoBuffer]
  <2>1. frame' = [frame EXCEPT ![p] = r] /\ pc'[p] = "exit"
    BY <1>2 DEF Finish
  <2>2. r.buf = NoBuffer
    BY DEF Frame
  <2> HIDE DEF r
  <2> QED BY <2>1, <2>2
<1> QED BY <1>1, <1>2

\* The part of a call before it has a buffer and after it has none.
LEMMA CallBuf ==
  ASSUME IInv, BufInv, NEW p \in Procs, Call(p)
  PROVE  BufInv'
<1>1. pc[p] = "idle"
  BY DEF Call, LoggerCall, PrintCall, WarnfCall, EntryCall, WithCall, Begin, Steps
<1>2. frame[p].buf = NoBuffer
  BY <1>1 DEF BufInv, BufOwned, HasBuf
<1>3. frame'[p].buf = NoBuffer /\ pc'[p] \notin HasBuf
  <2> USE DEF IInv, TypeOK, GoTo, HasBuf
  <2>1. CASE WithCall(p)
    BY <2>1 DEF WithCall, IdleFrame
  <2>2. CASE \E kind, level, e : Begin(p, kind, level, e)
    <3>1. PICK kind, level, e : Begin(p, kind, level, e)
      BY <2>2
    <3>2. frame'[p].buf = NoBuffer
      BY <3>1 DEF Begin, IdleFrame
    <3>3. pc'[p] \in {"checkConsole", "newEntry", "derive"}
      BY DEF Call, LoggerCall, PrintCall, WarnfCall, EntryCall, WithCall
    <3> QED BY <3>2, <3>3
  <2> QED BY <2>1, <2>2 DEF Call, LoggerCall, PrintCall, WarnfCall, EntryCall
<1>4. UNCHANGED <<heap, content, freeBufs>>
  BY CallHeap
<1> QED BY <1>1, <1>2, <1>3, <1>4, OnlyMoves, BufSame, ConstantsAssumption DEF HasBuf

\* The labels of a frame with no buffer that gets none.
LEMMA OutsideBuf ==
  ASSUME IInv, BufInv, NEW p \in Procs,
         \/ LoadConsole(p) \/ LoadHook(p) \/ NewEntry(p) \/ Derive(p) \/ Release(p)
         \/ LockLog(p) \/ WaitLog(p) \/ Snapshot(p) \/ Prepare(p) \/ FireHook(p) \/ Exit(p)
  PROVE  BufInv'
<1> USE DEF GoTo
<1>0. TypeOK /\ LocalInv /\ frame[p] \in Frame
  BY DEF IInv, TypeOK
<1>1. pc[p] \notin HasBuf /\ UNCHANGED <<freeBufs, content>>
  BY DEF LoadConsole, LoadHook, NewEntry, Derive, Release, LockLog, WaitLog, Snapshot,
         Prepare, FireHook, Exit, Lock, Steps, HasBuf, poolVars
<1>2. frame[p].buf = NoBuffer
  BY <1>1 DEF BufInv, BufOwned
<1>3. frame'[p].buf = NoBuffer
  <2>1. CASE Return(p) \/ Finish(p)
    BY <2>1, NoBufferFrame
  <2>2. CASE UNCHANGED frame
    BY <1>2, <2>2
  <2>3. CASE NewEntry(p) \/ Snapshot(p) \/ Prepare(p) \/ FireHook(p)
    BY <1>0, <1>2, <2>1, <2>3 DEF NewEntry, Snapshot, Prepare, FireHook, TypeOK, Frame
  <2> QED BY <2>1, <2>2, <2>3
          DEF LoadConsole, LoadHook, Enabled, Derive, Release, LockLog, WaitLog, Exit
<1>4. pc'[p] \notin HasBuf
  <2>1. CASE Return(p) \/ Finish(p)
    BY <2>1, NoBufferFrame
  <2>2. CASE ~(Return(p) \/ Finish(p))
    BY <1>0, <2>2 DEF LoadConsole, LoadHook, Enabled, NewEntry, Derive, Release, LockLog,
           WaitLog, Snapshot, Prepare, FireHook, Exit, Lock, HasBuf, TypeOK
  <2> QED BY <2>1, <2>2
<1>5. ASSUME NEW x \in Entries, heap'[x].buffer \in Buffers
      PROVE  heap'[x].buffer = heap[x].buffer
  <2>1. CASE UNCHANGED heap
    BY <2>1
  <2>2. CASE NewEntry(p)
    <3>1. PICK e \in entryPool \cup UnusedEntries : heap' = [heap EXCEPT ![e] = Handed(e)]
      BY <2>2, FreshIn DEF NewEntry
    <3>2. e \in Entries /\ heap[e] \in Entry
      BY <1>0 DEF TypeOK, UnusedEntries
    <3>3. Handed(e).buffer = heap[e].buffer \/ Handed(e).buffer = NoBuffer
      BY <3>2 DEF Handed, ZeroEntry, Entry
    <3> QED BY <1>0, <1>5, <3>1, <3>2, <3>3, ConstantsAssumption DEF TypeOK
  <2>3. CASE Derive(p)
    <3> DEFINE z == [ZeroEntry EXCEPT !.data = heap[frame[p].ent].data \cup {"field"}]
    <3>1. PICK e \in Entries : heap' = [heap EXCEPT ![e] = z]
      BY <2>3, FreshIn DEF Derive, UnusedEntries
    <3>2. z.buffer = NoBuffer
      BY DEF ZeroEntry
    <3> HIDE DEF z
    <3> QED BY <1>0, <1>5, <3>1, <3>2, ConstantsAssumption DEF TypeOK
  <2>4. CASE Release(p)
    <3>1. frame[p].ent \in Entries /\ heap[frame[p].ent] \in Entry
      BY <1>0, <2>4 DEF Release, Steps, LocalInv, Local, HasEnt, TypeOK
    <3>2. Cleared(heap[frame[p].ent]).buffer = NoBuffer
      BY <3>1 DEF Cleared, Entry
    <3> QED BY <1>0, <1>5, <2>4, <3>1, <3>2, ConstantsAssumption DEF Release, TypeOK
  <2>5. CASE Prepare(p)
    <3> DEFINE ent == frame[p].ent
    <3>1. ent \in Entries
      BY <1>0, <2>5 DEF Prepare, Steps, LocalInv, Local, HasEnt
    <3>2. PICK e \in Entries :
            heap' = [heap EXCEPT ![e] =
                       Stamped(IF e = ent THEN heap[e] ELSE Dup(heap[ent]), p)]
      BY <2>5, <3>1, FreshIn DEF Prepare, UnusedEntries
    <3>3. heap[e] \in Entry
      BY <1>0 DEF TypeOK, Dup, ZeroEntry
    <3>4. Stamped(heap[e], p).buffer = heap[e].buffer
      BY <1>0, <3>3 DEF Stamped, Entry
    <3>5. Stamped(Dup(heap[ent]), p).buffer = NoBuffer
      BY DEF Stamped, Dup, ZeroEntry
    <3> QED BY <1>0, <1>5, <3>2, <3>4, <3>5, ConstantsAssumption DEF TypeOK
  <2>6. CASE FireHook(p)
    <3>1. frame[p].new \in Entries
      BY <1>0, <2>6 DEF FireHook, Steps, LocalInv, Local, HasNew
    <3> DEFINE z == [heap[frame[p].new] EXCEPT !.data = @ \cup {"hook"}]
    <3>2. heap[frame[p].new] \in Entry
      BY <1>0, <3>1 DEF TypeOK
    <3>3. z.buffer = heap[frame[p].new].buffer
      BY <3>2 DEF Entry
    <3>4. heap' = heap \/ heap' = [heap EXCEPT ![frame[p].new] = z]
      BY <2>6 DEF FireHook
    <3> HIDE DEF z
    <3> QED BY <1>0, <3>1, <3>3, <3>4 DEF TypeOK
  <2> QED BY <2>1, <2>2, <2>3, <2>4, <2>5, <2>6
          DEF LoadConsole, LoadHook, LockLog, WaitLog, Snapshot, Exit
<1>6. \A q \in Procs \ {p} : pc'[q] = pc[q] /\ frame'[q] = frame[q]
  BY OnlyMoves DEF Step
<1> QED BY <1>1, <1>2, <1>3, <1>4, <1>5, <1>6, BufSame, ConstantsAssumption

LEMMA GetBufferBuf ==
  ASSUME IInv, BufInv, NEW p \in Procs, GetBuffer(p)
  PROVE  BufInv'
<1>0. TypeOK /\ LocalInv /\ frame[p] \in Frame
  BY DEF IInv, TypeOK
<1> DEFINE e == frame[p].new
           o == frame[p].pool
<1>1. pc[p] = "getBuffer" /\ e \in Entries /\ o \in Pools /\ heap[e] \in Entry
  BY <1>0 DEF GetBuffer, Steps, LocalInv, Local, HasNew, Frame, TypeOK
<1>2. PICK b \in freeBufs[o] \cup UnusedBuffers :
       /\ freeBufs' = [freeBufs EXCEPT ![o] = @ \ {b}]
       /\ content' = [content EXCEPT ![b] = <<>>]
       /\ heap' = [heap EXCEPT ![e].buffer = b]
       /\ frame' = [frame EXCEPT ![p].buf = b]
  BY FreshIn DEF GetBuffer, Emptied
<1>3. b \in Buffers
  BY <1>0, <1>1, <1>2 DEF TypeOK, UnusedBuffers
<1>4. \A q \in Procs : frame[q].buf # b
  BY <1>0, <1>1, <1>2, <1>3 DEF BufInv, BufOwned, UnusedBuffers
<1>5. frame[p].buf = NoBuffer
  BY <1>1 DEF BufInv, BufOwned, HasBuf
<1>6. /\ \A q \in Procs \ {p} : pc'[q] = pc[q] /\ frame'[q] = frame[q]
      /\ frame'[p].buf = b /\ frame'[p].new = e
      /\ pc'[p] \in HasBuf
  <2>1. frame'[p] = [frame[p] EXCEPT !.buf = b]
    BY <1>0, <1>2 DEF TypeOK
  <2>2. pc'[p] \in {"format", "putBuffer"}
    BY <1>0 DEF GetBuffer, GoTo, TypeOK
  <2> QED BY <1>0, <2>1, <2>2, OnlyMoves DEF Step, Frame, HasBuf
<1>7. \A r \in Pools : b \notin freeBufs'[r] /\ freeBufs'[r] \subseteq freeBufs[r]
  <2>1. CASE b \in freeBufs[o]
    BY <1>0, <1>1, <1>2, <2>1 DEF TypeOK, BufInv, RestInv
  <2>2. CASE b \in UnusedBuffers
    BY <1>0, <1>1, <1>2, <2>2 DEF TypeOK, UnusedBuffers
  <2> QED BY <1>2, <2>1, <2>2
<1>8. \A q \in Procs : BufOwned(q)'
  <2>1. BufOwned(p)'
    BY <1>4, <1>6, <1>7 DEF BufOwned
  <2>2. ASSUME NEW q \in Procs \ {p}
        PROVE  BufOwned(q)'
    BY <1>4, <1>6, <1>7 DEF BufInv, BufOwned
  <2> QED BY <2>1, <2>2
<1>9. RestInv'
  <2>1. \A q, r \in Pools : \A x \in freeBufs'[q] : x \in freeBufs'[r] => q = r
    BY <1>7 DEF BufInv, RestInv
  <2>2. ASSUME NEW x \in Buffers, \A q \in Procs : frame'[q].buf # x
        PROVE  content'[x] = <<>>
    <3>1. \A q \in Procs : frame[q].buf # x
      BY <1>5, <1>6, <2>2, ConstantsAssumption
    <3>2. content[x] = <<>>
      BY <3>1 DEF BufInv, RestInv
    <3> QED BY <1>0, <1>2, <1>3, <3>2 DEF TypeOK
  <2> QED BY <2>1, <2>2 DEF RestInv
<1>10. PointInv'
  <2> SUFFICES ASSUME NEW x \in Entries, heap'[x].buffer \in Buffers
               PROVE  \E q \in Procs : frame'[q].buf = heap'[x].buffer /\ frame'[q].new = x
    BY DEF PointInv
  <2> DEFINE z == [heap[e] EXCEPT !.buffer = b]
  <2>1. z.buffer = b /\ heap' = [heap EXCEPT ![e] = z]
    BY <1>1, <1>2 DEF Entry
  <2> HIDE DEF z
  <2>2. CASE x = e
    <3>1. heap'[x].buffer = b
      BY <1>0, <1>1, <2>1, <2>2 DEF TypeOK
    <3> QED BY <1>6, <2>2, <3>1
  <2>3. CASE x # e
    <3>1. heap'[x] = heap[x]
      BY <1>0, <2>1, <2>3 DEF TypeOK
    <3>2. PICK q \in Procs : frame[q].buf = heap[x].buffer /\ frame[q].new = x
      BY <3>1 DEF BufInv, PointInv
    <3>3. q # p
      BY <2>3, <3>2
    <3>4. frame'[q].buf = heap'[x].buffer /\ frame'[q].new = x
      BY <1>6, <3>1, <3>2, <3>3
    <3> QED BY <3>4
  <2> QED BY <2>2, <2>3
<1> QED BY <1>8, <1>9, <1>10 DEF BufInv

\* The entry that is being formatted points to the buffer of its frame.
LEMMA OwnBuffer ==
  ASSUME IInv, BufInv, NEW p \in Procs, frame[p].new \in Entries,
         heap[frame[p].new].buffer \in Buffers
  PROVE  heap[frame[p].new].buffer = frame[p].buf
<1>1. PICK q \in Procs : frame[q].buf = heap[frame[p].new].buffer
                         /\ frame[q].new = frame[p].new
  BY DEF BufInv, PointInv
<1>2. q = p
  BY <1>1, NewExclusive DEF Holds
<1> QED BY <1>1, <1>2

LEMMA FormatBuf ==
  ASSUME IInv, BufInv, NEW p \in Procs, Format(p)
  PROVE  BufInv'
<1>0. TypeOK /\ LocalInv /\ frame[p] \in Frame
  BY DEF IInv, TypeOK
<1> DEFINE b == heap[frame[p].new].buffer
<1>1. /\ pc[p] = "format" /\ frame[p].new \in Entries /\ frame[p].buf \in Buffers
      /\ b \in Buffers /\ UNCHANGED freeBufs
      /\ \A x \in Entries : heap'[x].buffer = heap[x].buffer
  BY <1>0, FormatOnly DEF Format, Steps, LocalInv, Local, HasNew, HasBuf, poolVars
<1>2. b = frame[p].buf
  BY <1>1, OwnBuffer
<1> HIDE DEF b
<1>3. \E s : content' = [content EXCEPT ![b] = s]
  BY DEF Format, b
<1>4. /\ \A q \in Procs \ {p} : pc'[q] = pc[q] /\ frame'[q] = frame[q]
      /\ frame'[p].buf = frame[p].buf /\ frame'[p].new = frame[p].new
      /\ pc'[p] \in HasBuf
  <2>1. \/ \E n : frame' = [frame EXCEPT ![p].size = n]
        \/ \E x : frame' = [frame EXCEPT ![p].panics = x]
    BY DEF Format
  <2>2. frame'[p].buf = frame[p].buf /\ frame'[p].new = frame[p].new
    BY <1>0, <2>1 DEF Frame, TypeOK
  <2>3. pc'[p] \in HasBuf
    BY <1>0 DEF Format, GoTo, TypeOK, HasBuf
  <2> QED BY <2>2, <2>3, OnlyMoves DEF Step
<1>5. \A q \in Procs : frame'[q].buf = frame[q].buf /\ frame'[q].new = frame[q].new
  BY <1>4
<1>6. \A q \in Procs : BufOwned(q)'
  BY <1>1, <1>4, <1>5 DEF BufInv, BufOwned, HasBuf
<1>7. RestInv'
  <2>1. ASSUME NEW x \in Buffers, \A q \in Procs : frame'[q].buf # x
        PROVE  content'[x] = <<>>
    BY <1>0, <1>2, <1>3, <1>5, <2>1 DEF BufInv, RestInv, TypeOK
  <2> QED BY <1>1, <2>1 DEF BufInv, RestInv
<1>8. PointInv'
  BY <1>1, <1>5 DEF BufInv, PointInv
<1> QED BY <1>6, <1>7, <1>8 DEF BufInv

\* Between Format and the deferred function nothing happens to the buffer.
LEMMA WriteBuf ==
  ASSUME IInv, BufInv, NEW p \in Procs, LockOut(p) \/ WaitOut(p) \/ Write(p)
  PROVE  BufInv'
<1>0. TypeOK /\ frame[p] \in Frame
  BY DEF IInv, TypeOK
<1>1. pc[p] \in HasBuf /\ UNCHANGED <<heap, freeBufs, content>>
  BY DEF LockOut, WaitOut, Write, Lock, Steps, HasBuf, poolVars
<1>2. pc'[p] \in HasBuf
  BY <1>0 DEF LockOut, WaitOut, Write, Lock, GoTo, HasBuf, TypeOK
<1>3. frame'[p].buf = frame[p].buf /\ frame'[p].new = frame[p].new
  <2>1. \/ UNCHANGED frame
        \/ frame' = [frame EXCEPT ![p].out = out]
        \/ \E x : frame' = [frame EXCEPT ![p].panics = x]
    BY DEF LockOut, WaitOut, Write
  <2> QED BY <1>0, <2>1 DEF Frame, TypeOK
<1>4. \A q \in Procs \ {p} : pc'[q] = pc[q] /\ frame'[q] = frame[q]
  BY OnlyMoves DEF Step
<1> QED BY <1>1, <1>2, <1>3, <1>4, BufSame

LEMMA PutBufferBuf ==
  ASSUME IInv, BufInv, NEW p \in Procs, PutBuffer(p)
  PROVE  BufInv'
<1>0. TypeOK /\ LocalInv /\ frame[p] \in Frame
  BY DEF IInv, TypeOK
<1> DEFINE e == frame[p].new
           b == frame[p].buf
           o == frame[p].pool
<1>1. pc[p] = "putBuffer" /\ e \in Entries /\ b \in Buffers /\ o \in Pools /\ heap[e] \in Entry
  BY <1>0 DEF PutBuffer, Steps, LocalInv, Local, HasNew, HasBuf, Frame, TypeOK
<1>2. /\ freeBufs' = [freeBufs EXCEPT ![o] = @ \cup {b}]
      /\ content' = [content EXCEPT ![b] = <<>>]
      /\ heap' = [heap EXCEPT ![e].buffer = NoBuffer]
  BY DEF PutBuffer, Emptied, Repooled
<1>3. /\ \A q \in Procs \ {p} : pc'[q] = pc[q] /\ frame'[q] = frame[q]
      /\ frame'[p].buf = NoBuffer /\ pc'[p] \notin HasBuf
  <2>1. CASE Return(p) \/ Finish(p)
    BY <2>1, NoBufferFrame, OnlyMoves DEF Step
  <2>2. CASE ~(Return(p) \/ Finish(p))
    <3> DEFINE r == [frame[p] EXCEPT !.new = NoEntry, !.buf = NoBuffer]
    <3>1. frame' = [frame EXCEPT ![p] = r] /\ GoTo(p, "release")
      BY <2>2 DEF PutBuffer
    <3>2. r.buf = NoBuffer
      BY <1>0 DEF Frame
    <3> HIDE DEF r
    <3>3. frame'[p].buf = NoBuffer /\ pc'[p] = "release"
      BY <1>0, <3>1, <3>2 DEF TypeOK, GoTo
    <3> QED BY <3>3, OnlyMoves DEF Step, HasBuf
  <2> QED BY <2>1, <2>2
<1>4. \A q \in Procs \ {p} : frame[q].buf # b
  BY <1>1 DEF BufInv, BufOwned
<1>5. \A r \in Pools : b \notin freeBufs[r]
  BY <1>1 DEF BufInv, BufOwned
<1>6. \A r \in Pools : /\ freeBufs'[r] \subseteq freeBufs[r] \cup {b}
                       /\ b \in freeBufs'[r] => r = o
  BY <1>0, <1>1, <1>2, <1>5 DEF TypeOK
<1>7. \A q \in Procs : BufOwned(q)'
  <2>1. BufOwned(p)'
    BY <1>3, ConstantsAssumption DEF BufOwned
  <2>2. ASSUME NEW q \in Procs \ {p}
        PROVE  BufOwned(q)'
    <3>1. BufOwned(q) /\ pc'[q] = pc[q] /\ frame'[q].buf = frame[q].buf /\ frame[q].buf # b
      BY <1>3, <1>4 DEF BufInv
    <3>2. frame'[p].buf \notin Buffers
      BY <1>3, ConstantsAssumption
    <3> QED BY <1>3, <1>6, <3>1, <3>2 DEF BufOwned
  <2> QED BY <2>1, <2>2
<1>8. RestInv'
  <2>1. \A q, r \in Pools : \A x \in freeBufs'[q] : x \in freeBufs'[r] => q = r
    BY <1>6 DEF BufInv, RestInv
  <2>2. ASSUME NEW x \in Buffers, \A q \in Procs : frame'[q].buf # x
        PROVE  content'[x] = <<>>
    <3>1. CASE x = b
      BY <1>0, <1>1, <1>2, <3>1 DEF TypeOK
    <3>2. CASE x # b
      <4>1. \A q \in Procs : frame[q].buf # x
        BY <1>3, <2>2, <3>2
      <4>2. content[x] = <<>>
        BY <4>1 DEF BufInv, RestInv
      <4> QED BY <1>0, <1>2, <3>2, <4>2 DEF TypeOK
    <3> QED BY <3>1, <3>2
  <2> QED BY <2>1, <2>2 DEF RestInv
<1>9. PointInv'
  <2> SUFFICES ASSUME NEW x \in Entries, heap'[x].buffer \in Buffers
               PROVE  \E q \in Procs : frame'[q].buf = heap'[x].buffer /\ frame'[q].new = x
    BY DEF PointInv
  <2> DEFINE z == [heap[e] EXCEPT !.buffer = NoBuffer]
  <2>1. z.buffer = NoBuffer /\ heap' = [heap EXCEPT ![e] = z]
    BY <1>1, <1>2 DEF Entry
  <2> HIDE DEF z
  <2>2. x # e
    BY <1>0, <1>1, <2>1, ConstantsAssumption DEF TypeOK
  <2>3. heap'[x] = heap[x]
    BY <1>0, <2>1, <2>2 DEF TypeOK
  <2>4. PICK q \in Procs : frame[q].buf = heap[x].buffer /\ frame[q].new = x
    BY <2>3 DEF BufInv, PointInv
  <2>5. q # p
    BY <2>2, <2>4
  <2>6. frame'[q].buf = heap'[x].buffer /\ frame'[q].new = x
    BY <1>3, <2>3, <2>4, <2>5
  <2> QED BY <2>6
<1> QED BY <1>7, <1>8, <1>9 DEF BufInv

LEMMA StepBuf ==
  ASSUME IInv, BufInv, NEW p \in Procs, Step(p)
  PROVE  BufInv'
  BY OutsideBuf, GetBufferBuf, FormatBuf, WriteBuf, PutBufferBuf DEF Step

LEMMA ConfigBuf ==
  ASSUME IInv, BufInv, Config
  PROVE  BufInv'
<1>1. \A q \in Procs : frame'[q].buf = frame[q].buf /\ frame'[q].new = frame[q].new
  BY ConfigFrames
<1>2. UNCHANGED <<heap, content, freeBufs, pc>>
  BY ConfigHeap
<1>3. \A q \in Procs : BufOwned(q)'
  BY <1>1, <1>2 DEF BufInv, BufOwned
<1>4. RestInv' /\ PointInv'
  BY <1>1, <1>2 DEF BufInv, RestInv, PointInv
<1> QED BY <1>3, <1>4 DEF BufInv

------------------------------------------------------------------------------
(* Entries at rest.                                                         *)

LEMMA ClearedIsZero ==
  ASSUME NEW e \in Entry
  PROVE  /\ LineOf(Cleared(e)) = LineOf(ZeroEntry) /\ Cleared(e).buffer = NoBuffer
         /\ ~Cleared(e).trimmed
  BY DEF LineOf, Cleared, ZeroEntry, Entry

\* Only releaseEntry puts an entry to rest, and clears it; nobody touches it there.
LEMMA StepPristine ==
  ASSUME IInv, PoolPristine, NEW p \in Procs, Step(p)
  PROVE  PoolPristine'
<1>0. TypeOK /\ LocalInv
  BY DEF IInv, TypeOK
<1>1. CASE Release(p)
  <2> DEFINE e == frame[p].ent
  <2>1. e \in Entries /\ heap[e] \in Entry
    BY <1>0, <1>1 DEF Release, Steps, LocalInv, Local, HasEnt, TypeOK
  <2>2. heap' = [heap EXCEPT ![e] = Cleared(heap[e])] /\ entryPool' = entryPool \cup {e}
    BY <1>1 DEF Release
  <2> HIDE DEF e
  <2> SUFFICES ASSUME NEW x \in entryPool'
               PROVE  LineOf(heap'[x]) = LineOf(ZeroEntry) /\ heap'[x].buffer = NoBuffer
                      /\ ~heap'[x].trimmed
    BY DEF PoolPristine
  <2>3. CASE x = e
    BY <1>0, <2>1, <2>2, <2>3, ClearedIsZero DEF TypeOK
  <2>4. CASE x # e
    <3>1. heap'[x] = heap[x] /\ x \in entryPool
      BY <1>0, <2>2, <2>4 DEF TypeOK
    <3> QED BY <3>1 DEF PoolPristine
  <2> QED BY <2>3, <2>4
<1>2. CASE ~Release(p)
  <2>1. entryPool' \subseteq entryPool
    <3>1. CASE NewEntry(p)
      BY <3>1 DEF NewEntry
    <3>2. CASE ~NewEntry(p)
      BY <1>2, <3>2 DEF Step, LoadConsole, LoadHook, Derive, LockLog, WaitLog, Snapshot,
             Prepare, FireHook, GetBuffer, Format, LockOut, WaitOut, Write, PutBuffer, Exit,
             poolVars
    <3> QED BY <3>1, <3>2
  <2> SUFFICES ASSUME NEW x \in entryPool'
               PROVE  LineOf(heap'[x]) = LineOf(ZeroEntry) /\ heap'[x].buffer = NoBuffer
                      /\ ~heap'[x].trimmed
    BY DEF PoolPristine
  <2>2. x \in entryPool \cap entryPool' /\ x \in Entries
    BY <1>0, <2>1 DEF TypeOK
  <2>3. heap'[x] = heap[x]
    BY <2>2, HeapKept
  <2> QED BY <2>2, <2>3 DEF PoolPristine
<1> QED BY <1>1, <1>2

------------------------------------------------------------------------------
(* The theorems.                                                            *)

RestingInv == IInv /\ BufInv /\ PoolPristine

LEMMA RestingInvariant == Spec => []RestingInv
<1>1. Init => RestingInv
  <2> SUFFICES ASSUME Init PROVE RestingInv
    OBVIOUS
  <2>1. IInv
    BY InitInv
  <2>2. \A p \in Procs : frame[p].buf = NoBuffer
    BY DEF Init, IdleFrame
  <2>3. \A e \in Entries : heap[e].buffer = NoBuffer
    BY DEF Init, ZeroEntry
  <2>4. BufInv
    BY <2>2, <2>3, ConstantsAssumption DEF Init, BufInv, BufOwned, RestInv, PointInv
  <2>5. PoolPristine
    BY DEF Init, PoolPristine, ZeroEntry
  <2> QED BY <2>1, <2>4, <2>5 DEF RestingInv
<1>2. RestingInv /\ [Next]_vars => RestingInv'
  <2> SUFFICES ASSUME RestingInv, [Next]_vars PROVE RestingInv'
    OBVIOUS
  <2>0. IInv /\ BufInv /\ PoolPristine
    BY DEF RestingInv
  <2>1. CASE UNCHANGED vars
    <3>1. UNCHANGED <<lock, disabled, consoleLevel, hookLevel, stores, hooks, bufferPool,
                      reportCaller, out, configs, entryPool, freeBufs, heap, content,
                      users, retained, pc, frame, calls, sent, exited>>
      BY <2>1 DEF vars, mutexVars, configVars, poolVars
    <3>2. IInv'
      BY <2>0, <3>1 DEF IInv, TypeOK, MutexTypeOK, LocalInv, Local, OwnInv, EntOwned,
                        NewOwned, Holds
    <3>3. BufInv' /\ PoolPristine'
      BY <2>0, <3>1 DEF BufInv, BufOwned, RestInv, PointInv, PoolPristine
    <3> QED BY <3>2, <3>3 DEF RestingInv
  <2>2. ASSUME NEW p \in Procs, Call(p)
        PROVE  RestingInv'
    <3>1. IInv' /\ BufInv'
      BY <2>0, <2>2, CallKeeps, CallBuf
    <3>2. PoolPristine'
      BY <2>0, <2>2, CallHeap DEF PoolPristine
    <3> QED BY <3>1, <3>2 DEF RestingInv
  <2>3. ASSUME NEW p \in Procs, Step(p)
        PROVE  RestingInv'
    BY <2>0, <2>3, StepKeeps, StepBuf, StepPristine DEF RestingInv
  <2>4. CASE Config
    <3>1. IInv' /\ BufInv'
      BY <2>0, <2>4, ConfigKeeps, ConfigBuf
    <3>2. PoolPristine'
      BY <2>0, <2>4, ConfigHeap DEF PoolPristine
    <3> QED BY <3>1, <3>2 DEF RestingInv
  <2> QED BY <2>1, <2>2, <2>3, <2>4 DEF Next
<1> QED BY <1>1, <1>2, PTL DEF Spec

\* A buffer is at rest in one pool or used by one call, never both and never two calls;
\* a buffer that nobody uses is empty, and no entry keeps a pointer to one, whatever
\* hooks, formatters and writers do (entry.go log, buffer_pool.go).
THEOREM BuffersAreOwned == Spec => []BufferOwnership
<1>1. RestingInv => BufferOwnership
  <2> SUFFICES ASSUME RestingInv, NEW b \in Buffers
               PROVE  /\ Cardinality(Users(b)) + Cardinality(Homes(b)) <= 1
                      /\ Users(b) = {} => content[b] = <<>>
                      /\ \A e \in Entries : heap[e].buffer = b =>
                           \E p \in Users(b) : frame[p].new = e
    BY DEF BufferOwnership
  <2>0. BufInv
    BY DEF RestingInv
  <2>1. Users(b) = {} \/ \E p \in Procs : Users(b) = {p} /\ Homes(b) = {}
    <3> SUFFICES ASSUME NEW p \in Users(b)
                 PROVE  Users(b) = {p} /\ Homes(b) = {} /\ p \in Procs
      OBVIOUS
    <3>1. p \in Procs /\ frame[p].buf = b
      BY DEF Users
    <3>2. /\ \A q \in Procs \ {p} : frame[q].buf # b
          /\ \A r \in Pools : b \notin freeBufs[r]
      BY <2>0, <3>1 DEF BufInv, BufOwned
    <3> QED BY <3>1, <3>2 DEF Users, Homes
  <2>2. Homes(b) = {} \/ \E r \in Pools : Homes(b) = {r}
    BY <2>0 DEF BufInv, RestInv, Homes
  <2>3. Cardinality({}) = 0 /\ \A x : Cardinality({x}) = 1
    BY FS_EmptySet, FS_Singleton
  <2>4. Cardinality(Users(b)) + Cardinality(Homes(b)) <= 1
    <3>1. \/ Cardinality(Users(b)) = 0
          \/ Cardinality(Users(b)) = 1 /\ Cardinality(Homes(b)) = 0
      BY <2>1, <2>3
    <3>2. Cardinality(Homes(b)) \in {0, 1}
      BY <2>2, <2>3
    <3> QED BY <3>1, <3>2
  <2>5. Users(b) = {} => content[b] = <<>>
    BY <2>0 DEF BufInv, RestInv, Users
  <2>6. \A e \in Entries : heap[e].buffer = b => \E p \in Users(b) : frame[p].new = e
    BY <2>0 DEF BufInv, PointInv, Users
  <2> QED BY <2>4, <2>5, <2>6
<1> QED BY <1>1, RestingInvariant, PTL

\* An entry at rest shows nothing of an earlier call (logger.go releaseEntry).
THEOREM EntriesRestPristine == Spec => []PoolPristine
<1>1. RestingInv => PoolPristine
  BY DEF RestingInv
<1> QED BY <1>1, RestingInvariant, PTL

\* The deferred function of log() returns the buffer to the pool it was taken from, also
\* after SetBufferPool, an error or a panic (entry.go log).
THEOREM BuffersGoHome == Spec => BufferGoesHome
<1>1. RestingInv /\ [Next]_vars =>
        [\A p \in Procs, b \in Buffers :
           /\ frame[p].buf = b /\ frame'[p].buf # b
           => b \in freeBufs'[frame[p].pool]]_vars
  <2> SUFFICES ASSUME RestingInv, Next, NEW p \in Procs, NEW b \in Buffers,
                      frame[p].buf = b, frame'[p].buf # b
               PROVE  b \in freeBufs'[frame[p].pool]
    OBVIOUS
  <2>0. IInv /\ BufInv /\ TypeOK /\ frame[p] \in Frame
    BY DEF RestingInv, IInv, TypeOK
  <2>1. pc[p] \in HasBuf
    BY <2>0, ConstantsAssumption DEF BufInv, BufOwned
  <2>2. ~Config
    BY <2>0, ConfigFrames
  <2>3. PICK q \in Procs : Call(q) \/ Step(q)
    BY <2>2 DEF Next
  <2>4. q = p
    BY <2>0, <2>3, OnlyMoves
  <2>5. ~Call(p)
    BY <2>1 DEF Call, LoggerCall, PrintCall, WarnfCall, EntryCall, WithCall, Begin, Steps,
                HasBuf
  <2>6. Step(p)
    BY <2>3, <2>4, <2>5
  <2>7. CASE PutBuffer(p)
    <3>1. freeBufs' = [freeBufs EXCEPT ![frame[p].pool] = @ \cup {b}]
      BY <2>7 DEF PutBuffer, Repooled
    <3> QED BY <2>0, <3>1 DEF TypeOK, Frame
  <2>8. CASE Format(p) \/ LockOut(p) \/ WaitOut(p) \/ Write(p)
    <3>1. \/ UNCHANGED frame
          \/ \E n : frame' = [frame EXCEPT ![p].size = n]
          \/ frame' = [frame EXCEPT ![p].out = out]
          \/ \E x : frame' = [frame EXCEPT ![p].panics = x]
      BY <2>8 DEF Format, LockOut, WaitOut, Write
    <3> QED BY <2>0, <3>1 DEF Frame, TypeOK
  <2> QED BY <2>1, <2>6, <2>7, <2>8
          DEF Step, LoadConsole, LoadHook, NewEntry, Derive, Release, LockLog, WaitLog,
              Snapshot, Prepare, FireHook, GetBuffer, Exit, Lock, Steps, HasBuf
<1> QED BY <1>1, RestingInvariant, PTL DEF Spec, BufferGoesHome

\* Logging never writes to an entry that the application got from WithField; to one that
\* a hook keeps it writes only while the call the entry was copied for goes on, after the
\* hooks only its Buffer and the line feed of its Message (entry.go Dup and log).
THEOREM HeldEntriesStay == Spec => EntriesStable
<1> DEFINE Lent(e) == heap'[e] = [heap[e] EXCEPT !.buffer = heap'[e].buffer,
                                                 !.trimmed = heap'[e].trimmed]
<1>1. IInv /\ [Next]_vars =>
        [\A e \in users \cup retained :
           heap'[e] # heap[e] =>
             /\ e \notin users
             /\ \E p \in Procs :
                  /\ frame[p].new = e
                  /\ pc[p] = "hook"
                       \/ heap'[e] = [heap[e] EXCEPT !.buffer = heap'[e].buffer,
                                                     !.trimmed = heap'[e].trimmed]]_vars
  <2> SUFFICES ASSUME IInv, Next, NEW e \in users \cup retained, heap'[e] # heap[e]
               PROVE  /\ e \notin users
                      /\ \E p \in Procs : frame[p].new = e /\ (pc[p] = "hook" \/ Lent(e))
    OBVIOUS
  <2>0. TypeOK /\ OwnInv /\ LocalInv /\ e \in Entries /\ heap[e] \in Entry
    BY DEF IInv, TypeOK
  <2>1. PICK p \in Procs : Step(p)
    BY CallHeap, ConfigHeap DEF Next
  <2>2. e = frame[p].new /\ pc[p] \in HasNew
    <3>1. ~heap[e].pooled /\ e \notin entryPool /\ e \notin UnusedEntries
      BY <2>0 DEF OwnInv, UnusedEntries
    <3> QED BY <2>0, <2>1, <3>1, HeapStep
  <2>3. e \notin users
    BY <2>0, <2>2 DEF OwnInv, NewOwned
  <2>4. pc[p] = "hook" \/ Lent(e)
    <3>1. CASE GetBuffer(p) \/ PutBuffer(p)
      <4>1. PICK b : heap' = [heap EXCEPT ![e].buffer = b]
        BY <2>2, <3>1 DEF GetBuffer, PutBuffer
      <4>2. heap'[e] = [heap[e] EXCEPT !.buffer = b]
        BY <2>0, <4>1 DEF TypeOK
      <4> QED BY <2>0, <4>2 DEF Entry
    <3>2. CASE FireHook(p)
      BY <3>2 DEF FireHook, Steps
    <3>3. CASE Format(p)
      <4>1. heap'[e] = [heap[e] EXCEPT !.trimmed = heap'[e].trimmed]
        BY <2>0, <3>3, FormatOnly
      <4> DEFINE t == heap'[e].trimmed
      <4>2. heap'[e] = [heap[e] EXCEPT !.trimmed = t]
        BY <4>1
      <4> HIDE DEF t
      <4> QED BY <2>0, <4>2 DEF Entry
    <3>4. CASE LockOut(p) \/ WaitOut(p) \/ Write(p)
      BY <3>4 DEF LockOut, WaitOut, Write
    <3> QED BY <2>1, <2>2, <3>1, <3>2, <3>3, <3>4
            DEF Step, LoadConsole, LoadHook, NewEntry, Derive, Release, LockLog, WaitLog,
                Snapshot, Prepare, Exit, Lock, Steps, HasNew
  <2> QED BY <2>2, <2>3, <2>4
<1> QED BY <1>1, EntryInvariant, PTL DEF Spec, EntriesStable
==============================================================================
