------------------------------ MODULE EntryProofs ------------------------------
(***************************************************************************)
(* The mutex of Logger; then its type correctness and the ownership of its *)
(* entries, proved together: where an entry is used decides whether what a *)
(* step reads from the heap has a type.                                    *)
(***************************************************************************)
EXTENDS Logger, SequenceTheorems, TLAPS

------------------------------------------------------------------------------
(* The mutex.                                                               *)

Critical == {"snapshot", "write"}

\* The invariant behind mutual exclusion: until SetNoLock is called, the frames in a
\* critical section are exactly the holder of the mutex.
LockInv == /\ lock \in Procs \cup {NoProc}
           /\ pc \in [Procs -> Labels]
           /\ ~disabled => \A p \in Procs : pc[p] \in Critical <=> lock = p

\* A frame that moves outside the critical sections keeps the invariant.
LEMMA MoveOutside ==
  ASSUME LockInv, NEW p \in Procs, pc[p] \notin Critical, UNCHANGED mutexVars,
         NEW l \in Labels \ Critical, pc' = [pc EXCEPT ![p] = l]
  PROVE  LockInv'
  BY DEF LockInv, mutexVars

\* So does a frame that stays where it is.
LEMMA NoMove ==
  ASSUME LockInv, UNCHANGED <<mutexVars, pc>>
  PROVE  LockInv'
  BY DEF LockInv, mutexVars

\* A call starts outside the critical sections.
LEMMA CallKeepsLock ==
  ASSUME LockInv, NEW p \in Procs, Call(p)
  PROVE  LockInv'
<1> DEFINE outside == Labels \ Critical
<1>1. /\ pc[p] \notin Critical
      /\ UNCHANGED mutexVars
      /\ \E l \in outside : pc' = [pc EXCEPT ![p] = l]
  <2>1. CASE LoggerCall(p)
    BY <2>1 DEF LoggerCall, Begin, Steps, GoTo, Critical, Labels
  <2>2. CASE PrintCall(p)
    BY <2>2 DEF PrintCall, Begin, Steps, GoTo, Critical, Labels
  <2>3. CASE WarnfCall(p)
    BY <2>3 DEF WarnfCall, Begin, Steps, GoTo, Critical, Labels
  <2>4. CASE EntryCall(p)
    BY <2>4 DEF EntryCall, Begin, Steps, GoTo, Critical, Labels
  <2>5. CASE WithCall(p)
    BY <2>5 DEF WithCall, Steps, GoTo, Critical, Labels
  <2> QED BY <2>1, <2>2, <2>3, <2>4, <2>5 DEF Call
<1> QED BY <1>1, MoveOutside

\* The steps of a call: the mutex changes hands only in WaitLog, Snapshot, WaitOut
\* and Write.
LEMMA StepKeepsLock ==
  ASSUME LockInv, NEW p \in Procs, Step(p)
  PROVE  LockInv'
<1> DEFINE outside == Labels \ Critical
<1>1. CASE /\ pc[p] \notin Critical
           /\ UNCHANGED mutexVars
           /\ \E l \in outside : pc' = [pc EXCEPT ![p] = l]
  BY <1>1, MoveOutside
<1>2. CASE LoadConsole(p)
  BY <1>1, <1>2 DEF LoadConsole, Enabled, Steps, GoTo, Critical, Labels
<1>3. CASE LoadHook(p)
  BY <1>1, <1>3 DEF LoadHook, Enabled, Finish, Return, Steps, GoTo, Critical, Labels
<1>4. CASE NewEntry(p)
  <2>1. \E l \in outside : pc' = [pc EXCEPT ![p] = l]
    <3>1. CASE frame[p].kind = "logger"
      BY <1>4, <3>1 DEF NewEntry, GoTo, Critical, Labels
    <3>2. CASE frame[p].kind = "with"
      BY <1>4, <3>2 DEF NewEntry, GoTo, Critical, Labels
    <3>3. CASE frame[p].kind # "logger" /\ frame[p].kind # "with"
      BY <1>4, <3>3 DEF NewEntry, GoTo, Critical, Labels
    <3> QED BY <3>1, <3>2, <3>3
  <2> QED BY <1>1, <1>4, <2>1 DEF NewEntry, Steps, Critical
<1>5. CASE Derive(p)
  BY <1>1, <1>5 DEF Derive, Return, Steps, GoTo, Critical, Labels
<1>6. CASE Release(p)
  BY <1>1, <1>6 DEF Release, Finish, Return, Steps, GoTo, Critical, Labels
<1>7. CASE LockLog(p)
  BY <1>7 DEF LockLog, Lock, LockInv, Steps, GoTo, Critical, Labels, mutexVars
<1>8. CASE WaitLog(p)
  BY <1>8, NoProcAssumption
     DEF WaitLog, Acquire, LockInv, Steps, GoTo, Critical, Labels
<1>9. CASE Snapshot(p)
  BY <1>9, NoProcAssumption
     DEF Snapshot, EndSnapshot, Unlock, LockInv, Steps, GoTo, Critical, Labels
<1>10. CASE Prepare(p)
  BY <1>1, <1>10 DEF Prepare, Steps, GoTo, Critical, Labels
<1>11. CASE FireHook(p)
  BY <1>1, <1>11 DEF FireHook, Return, Steps, GoTo, Critical, Labels
<1>12. CASE GetBuffer(p)
  BY <1>1, <1>12 DEF GetBuffer, Steps, GoTo, Critical, Labels
<1>13. CASE Format(p)
  BY <1>1, <1>13 DEF Format, Steps, GoTo, Critical, Labels
<1>14. CASE LockOut(p)
  BY <1>14 DEF LockOut, Lock, LockInv, Steps, GoTo, Critical, Labels, mutexVars
<1>15. CASE WaitOut(p)
  BY <1>15, NoProcAssumption
     DEF WaitOut, Acquire, LockInv, Steps, GoTo, Critical, Labels
<1>16. CASE Write(p)
  BY <1>16, NoProcAssumption
     DEF Write, EndWrite, Unlock, LockInv, Steps, GoTo, Critical, Labels
<1>17. CASE PutBuffer(p)
  BY <1>1, <1>17 DEF PutBuffer, Finish, Return, Steps, GoTo, Critical, Labels
<1>18. CASE Exit(p)
  BY <1>1, <1>18 DEF Exit, Return, Steps, GoTo, Critical, Labels
<1> QED BY <1>2, <1>3, <1>4, <1>5, <1>6, <1>7, <1>8, <1>9, <1>10, <1>11, <1>12,
           <1>13, <1>14, <1>15, <1>16, <1>17, <1>18 DEF Step

\* Configuration moves no frame; SetNoLock makes the invariant void.
LEMMA ConfigKeepsLock ==
  ASSUME LockInv, Config
  PROVE  LockInv'
<1>1. CASE SetNoLock
  BY <1>1 DEF SetNoLock, Disable, LockInv
<1>2. CASE ~SetNoLock
  <2>1. UNCHANGED <<mutexVars, pc>>
    BY <1>2 DEF Config, SetLevel, StoreHookLevel, AddHook, ReplaceHooks, SetBufferPool,
                SetReportCaller, SetOutput, LockedSetter, Configure
  <2> QED BY <2>1, NoMove
<1> QED BY <1>1, <1>2

LEMMA LockInvariant == Spec => []LockInv
<1>1. Init => LockInv
  BY NoProcAssumption DEF Init, MutexInit, LockInv, Labels, Critical
<1>2. LockInv /\ [Next]_vars => LockInv'
  <2> SUFFICES ASSUME LockInv, [Next]_vars PROVE LockInv'
    OBVIOUS
  <2>1. CASE UNCHANGED vars
    BY <2>1, NoMove DEF vars
  <2>2. CASE Next
    BY <2>2, CallKeepsLock, StepKeepsLock, ConfigKeepsLock DEF Next
  <2> QED BY <2>1, <2>2
<1> QED BY <1>1, <1>2, PTL DEF Spec

\* Mutual exclusion of the writes to Out, for any number of goroutines, as long as
\* SetNoLock has not been called.
THEOREM MutualExclusion == Spec => []WritesSerialised
<1>1. LockInv => WritesSerialised
  BY DEF LockInv, WritesSerialised, Writing, Critical
<1> QED BY <1>1, LockInvariant, PTL

\* Nothing leaves the mutex locked: whoever holds it is inside a critical section.
THEOREM MutexReleased == Spec => []LockHeldOnlyInside
<1>1. LockInv => LockHeldOnlyInside
  BY DEF LockInv, LockHeldOnlyInside, Critical
<1> QED BY <1>1, LockInvariant, PTL

------------------------------------------------------------------------------
(* What a frame knows, and who holds an entry.                              *)

HasEnt == {"derive", "lockLog", "waitLog", "snapshot", "prepare", "hook", "getBuffer",
           "format", "lockOut", "waitOut", "write", "putBuffer", "release"}
HasNew == {"hook", "getBuffer", "format", "lockOut", "waitOut", "write", "putBuffer"}
HasBuf == {"format", "lockOut", "waitOut", "write", "putBuffer"}

\* What a frame knows at each label.
Local(p) ==
  /\ pc[p] \in HasEnt => frame[p].ent \in Entries
  /\ pc[p] \in HasNew <=> frame[p].new \in Entries
  /\ pc[p] \in HasBuf => frame[p].buf \in Buffers
  /\ pc[p] = "format" => heap[frame[p].new].buffer \in Buffers
  /\ pc[p] = "release" => heap[frame[p].ent].pooled
  /\ pc[p] = "hook" => frame[p].hooks # <<>>
  /\ pc[p] \in {"prepare", "hook"} /\ frame[p].hooks # <<>> => frame[p].observed

LocalInv == \A p \in Procs : Local(p)

\* Who holds an entry.  An entry of a frame that is not the application's is the
\* frame's own pooled entry; the entry of a line is that one, or a copy of its own.
Holds(q, e) == frame[q].ent = e \/ frame[q].new = e

EntOwned(p) ==
  frame[p].ent \in Entries \ users =>
    /\ heap[frame[p].ent].pooled /\ frame[p].ent \notin entryPool
    /\ \A q \in Procs \ {p} : ~Holds(q, frame[p].ent)

NewOwned(p) ==
  frame[p].new \in Entries =>
    /\ frame[p].new \notin users \cup entryPool
    /\ frame[p].new = frame[p].ent => frame[p].level > PanicLevel /\ ~frame[p].observed
    /\ frame[p].new # frame[p].ent =>
         /\ ~heap[frame[p].new].pooled
         /\ \A q \in Procs \ {p} : ~Holds(q, frame[p].new)

OwnInv == /\ \A e \in entryPool : heap[e].pooled
          /\ \A e \in users \cup retained : ~heap[e].pooled
          /\ \A p \in Procs : EntOwned(p) /\ NewOwned(p)

IInv == TypeOK /\ LocalInv /\ OwnInv

LEMMA FreshIn == ASSUME NEW S PROVE Fresh(S) \subseteq S
  BY DEF Fresh

LEMMA IdleFrameType == IdleFrame \in Frame
  BY ConstantsAssumption DEF IdleFrame, Frame, AllKinds, Levels, PanicLevel

LEMMA ZeroEntryType == ZeroEntry \in Entry
  BY DEF ZeroEntry, Entry, Levels, PanicLevel

LEMMA InitType == Init => TypeOK
  <1> SUFFICES ASSUME Init PROVE TypeOK
    OBVIOUS
  <1> USE DEF Init
  <1>1. MutexTypeOK
    BY DEF MutexInit, MutexTypeOK
  <1>2. consoleLevel \in Levels /\ hookLevel \in Levels /\ stores \in Seq(Levels)
    BY DEF Levels, DebugLevel
  <1>3. hooks \in [Levels -> Seq(Hooks)] /\ bufferPool \in Pools
    BY ConstantsAssumption
  <1>4. reportCaller \in BOOLEAN /\ out \in Outs /\ configs \in Nat
    BY ConstantsAssumption
  <1>5. entryPool \subseteq Entries /\ freeBufs \in [Pools -> SUBSET Buffers]
    OBVIOUS
  <1>6. heap \in [Entries -> Entry] /\ content \in [Buffers -> Seq(Line)]
    BY ZeroEntryType
  <1>7. pc \in [Procs -> Labels] /\ frame \in [Procs -> Frame]
    BY IdleFrameType DEF Labels
  <1>8. users \subseteq Entries /\ retained \subseteq Entries /\ calls \in Nat
    OBVIOUS
  <1>9. sent \in Seq(Delivery)
    OBVIOUS
  <1>10. exited \in BOOLEAN
    OBVIOUS
  <1> QED
    BY <1>1, <1>2, <1>3, <1>4, <1>5, <1>6, <1>7, <1>8, <1>9, <1>10 DEF TypeOK

LEMMA InitInv == Init => IInv
  <1> SUFFICES ASSUME Init PROVE IInv
    OBVIOUS
  <1>1. TypeOK
    BY InitType
  <1>2. LocalInv
    BY ConstantsAssumption DEF Init, LocalInv, Local, IdleFrame, HasEnt, HasNew, HasBuf
  <1>3. OwnInv
    BY ConstantsAssumption DEF Init, OwnInv, EntOwned, NewOwned, Holds, IdleFrame, ZeroEntry
  <1> QED BY <1>1, <1>2, <1>3 DEF IInv

------------------------------------------------------------------------------
(* The beginning of a call.                                                 *)

LEMMA BeginKeeps ==
  ASSUME IInv, NEW p \in Procs, NEW kind \in AllKinds, NEW level \in Levels,
         NEW e \in users \cup {NoEntry}, Begin(p, kind, level, e),
         NEW l \in {"checkConsole", "newEntry"}, GoTo(p, l)
  PROVE  IInv'
<1> USE DEF Begin, GoTo, Steps, poolVars, configVars, mutexVars
<1> DEFINE r(x) == [IdleFrame EXCEPT !.kind = kind, !.level = level, !.call = calls + 1,
            !.ent = e, !.exits = x,
            !.seen = [console |-> {consoleLevel}, hook |-> {hookLevel}]]
<1>0. PICK x \in BOOLEAN : frame' = [frame EXCEPT ![p] = r(x)]
  OBVIOUS
<1>1. TypeOK'
  <2>1. r(x) \in Frame
    <3>1. e \in Entries \cup {NoEntry} /\ calls + 1 \in Nat
      BY DEF IInv, TypeOK
    <3>2. [console |-> {consoleLevel}, hook |-> {hookLevel}]
            \in [console: SUBSET Levels, hook: SUBSET Levels]
      BY DEF IInv, TypeOK
    <3> QED BY <3>1, <3>2, IdleFrameType DEF Frame
  <2>2. frame' \in [Procs -> Frame]
    BY <1>0, <2>1 DEF IInv, TypeOK
  <2>3. pc' \in [Procs -> Labels] /\ calls' \in Nat
    BY DEF IInv, TypeOK, Labels
  <2> QED BY <2>2, <2>3 DEF IInv, TypeOK, MutexTypeOK
<1>2. LocalInv'
  BY <1>0, ConstantsAssumption DEF IInv, TypeOK, LocalInv, Local, IdleFrame, HasEnt, HasNew, HasBuf
<1>3. OwnInv'
  BY <1>0, ConstantsAssumption DEF IInv, TypeOK, OwnInv, EntOwned, NewOwned, Holds, IdleFrame
<1> QED BY <1>1, <1>2, <1>3 DEF IInv

\* Return and Finish leave the frame without entries.
LEMMA ReturnType ==
  ASSUME TypeOK, NEW p \in Procs, Return(p) \/ Finish(p)
  PROVE  /\ pc' \in [Procs -> Labels] /\ frame' \in [Procs -> Frame]
         /\ \A q \in Procs : q # p => pc'[q] = pc[q] /\ frame'[q] = frame[q]
         /\ pc'[p] \in {"idle", "exit"}
         /\ frame'[p].ent = NoEntry /\ frame'[p].new = NoEntry
<1> USE DEF Return, Finish, GoTo
<1>1. CASE Return(p)
  <2>1. /\ pc' \in [Procs -> Labels] /\ pc'[p] \in {"idle", "exit"}
        /\ frame' \in [Procs -> Frame] /\ frame'[p] = IdleFrame
        /\ \A q \in Procs : q # p => pc'[q] = pc[q] /\ frame'[q] = frame[q]
    BY <1>1, IdleFrameType DEF TypeOK, Labels
  <2>2. IdleFrame.ent = NoEntry /\ IdleFrame.new = NoEntry
    BY DEF IdleFrame
  <2> QED BY <2>1, <2>2
<1>2. CASE ~Return(p)
  <2>1. /\ pc' = [pc EXCEPT ![p] = "exit"]
        /\ frame' = [frame EXCEPT ![p].ent = NoEntry, ![p].new = NoEntry,
                                  ![p].buf = NoBuffer]
    BY <1>2
  <2>2. /\ pc' \in [Procs -> Labels] /\ pc'[p] = "exit"
        /\ \A q \in Procs : q # p => pc'[q] = pc[q]
    BY <2>1 DEF TypeOK, Labels
  <2> DEFINE r == [frame[p] EXCEPT !.ent = NoEntry, !.new = NoEntry, !.buf = NoBuffer]
  <2>3. r \in Frame /\ r.ent = NoEntry /\ r.new = NoEntry
    <3>1. frame[p] \in Frame
      BY DEF TypeOK
    <3> QED BY <3>1 DEF Frame
  <2>4. frame' = [frame EXCEPT ![p] = r]
    BY <2>1
  <2> HIDE DEF r
  <2>5. /\ frame' \in [Procs -> Frame] /\ frame'[p] = r
        /\ \A q \in Procs : q # p => frame'[q] = frame[q]
    BY <2>3, <2>4 DEF TypeOK
  <2> QED BY <2>2, <2>3, <2>5
<1> QED BY <1>1, <1>2

\* A step that replaces one frame, or moves one frame to a label.
LEMMA FrameStep ==
  ASSUME TypeOK, NEW p \in Procs, NEW r \in Frame, frame' = [frame EXCEPT ![p] = r]
  PROVE  /\ frame' \in [Procs -> Frame] /\ frame'[p] = r
         /\ \A q \in Procs : q # p => frame'[q] = frame[q]
  BY DEF TypeOK

LEMMA PcStep ==
  ASSUME TypeOK, NEW p \in Procs, NEW l \in Labels, GoTo(p, l)
  PROVE  /\ pc' \in [Procs -> Labels] /\ pc'[p] = l
         /\ \A q \in Procs : q # p => pc'[q] = pc[q]
  BY DEF TypeOK, GoTo

LEMMA WithCallKeeps ==
  ASSUME IInv, NEW p \in Procs, WithCall(p)
  PROVE  IInv'
<1> USE DEF WithCall, GoTo, Steps, poolVars, configVars, mutexVars
<1>0. PICK e \in users \cup {NoEntry} :
        /\ frame' = [frame EXCEPT ![p] = [IdleFrame EXCEPT !.kind = "with", !.ent = e]]
        /\ pc' = [pc EXCEPT ![p] = IF e = NoEntry THEN "newEntry" ELSE "derive"]
  OBVIOUS
<1>1. TypeOK'
  <2>1. [IdleFrame EXCEPT !.kind = "with", !.ent = e] \in Frame
    BY IdleFrameType DEF IInv, TypeOK, Frame, AllKinds
  <2>2. frame' \in [Procs -> Frame] /\ pc' \in [Procs -> Labels]
    BY <1>0, <2>1 DEF IInv, TypeOK, Labels
  <2> QED BY <2>2 DEF IInv, TypeOK, MutexTypeOK
<1>2. LocalInv'
  BY <1>0, ConstantsAssumption DEF IInv, TypeOK, LocalInv, Local, IdleFrame, HasEnt, HasNew, HasBuf
<1>3. OwnInv'
  BY <1>0, ConstantsAssumption DEF IInv, TypeOK, OwnInv, EntOwned, NewOwned, Holds, IdleFrame
<1> QED BY <1>1, <1>2, <1>3 DEF IInv

LEMMA CallKeeps ==
  ASSUME IInv, NEW p \in Procs, Call(p)
  PROVE  IInv'
<1>1. CASE LoggerCall(p)
  BY <1>1, BeginKeeps, ConstantsAssumption DEF LoggerCall, AllKinds
<1>2. CASE PrintCall(p)
  BY <1>2, BeginKeeps DEF PrintCall, AllKinds, InfoLevel, Levels
<1>3. CASE WarnfCall(p)
  BY <1>3, BeginKeeps DEF WarnfCall, AllKinds, WarnLevel, Levels
<1>4. CASE EntryCall(p)
  BY <1>4, BeginKeeps, ConstantsAssumption DEF EntryCall, AllKinds
<1>5. CASE WithCall(p)
  BY <1>5, WithCallKeeps
<1> QED BY <1>1, <1>2, <1>3, <1>4, <1>5 DEF Call

------------------------------------------------------------------------------
(* The steps of a call.                                                     *)

\* A step that only moves a frame and keeps its entries.
LEMMA MoveKeeps ==
  ASSUME IInv, NEW p \in Procs,
         UNCHANGED <<users, retained, entryPool, heap>>,
         frame' \in [Procs -> Frame], NEW l \in Labels, pc' = [pc EXCEPT ![p] = l],
         \A q \in Procs : q # p => frame'[q] = frame[q],
         frame'[p].ent = frame[p].ent, frame'[p].new = frame[p].new,
         frame'[p].level = frame[p].level, frame'[p].observed = frame[p].observed,
         frame'[p].hooks = frame[p].hooks, frame'[p].buf = frame[p].buf,
         l \in HasEnt => frame[p].ent \in Entries,
         l \in HasNew <=> pc[p] \in HasNew,
         l \in HasBuf => pc[p] \in HasBuf,
         l \notin {"format", "prepare", "hook"},
         l = "release" => heap[frame[p].ent].pooled
  PROVE  LocalInv' /\ OwnInv'
<1>1. LocalInv'
  BY DEF IInv, TypeOK, LocalInv, Local
<1>2. \A q \in Procs : /\ frame'[q].ent = frame[q].ent
                       /\ frame'[q].new = frame[q].new
                       /\ frame'[q].level = frame[q].level
                       /\ frame'[q].observed = frame[q].observed
  OBVIOUS
<1>3. OwnInv'
  BY <1>2 DEF IInv, OwnInv, EntOwned, NewOwned, Holds
<1> QED BY <1>1, <1>3

LEMMA ReturnKeeps ==
  ASSUME IInv, NEW p \in Procs,
         UNCHANGED <<users, retained, entryPool, heap>>,
         Return(p) \/ Finish(p)
  PROVE  LocalInv' /\ OwnInv'
<1>0. TypeOK
  BY DEF IInv
<1>1. LocalInv'
  BY <1>0, ReturnType, ConstantsAssumption
     DEF IInv, LocalInv, Local, HasEnt, HasNew, HasBuf
<1>2. \A q \in Procs : q # p => /\ frame'[q].ent = frame[q].ent
                                /\ frame'[q].new = frame[q].new
                                /\ frame'[q].level = frame[q].level
                                /\ frame'[q].observed = frame[q].observed
  BY <1>0, ReturnType
<1>3. OwnInv'
  BY <1>0, <1>2, ReturnType, ConstantsAssumption DEF IInv, OwnInv, EntOwned, NewOwned, Holds
<1> QED BY <1>1, <1>3

\* A step of p leaves the other frames alone, and what they know of their entries.
OthersKept(p) ==
  \A q \in Procs \ {p} :
    /\ pc'[q] = pc[q] /\ frame'[q] = frame[q]
    /\ \A x \in Entries : Holds(q, x) =>
         /\ heap'[x].pooled = heap[x].pooled /\ heap'[x].buffer = heap[x].buffer
         /\ x \in users' <=> x \in users
         /\ x \in entryPool' <=> x \in entryPool

\* What p takes hold of is the application's, or nobody else's.
TakesFresh(p) ==
  \A x \in Entries : Holds(p, x)' => \/ Holds(p, x) \/ x \in users
                                     \/ \A q \in Procs \ {p} : ~Holds(q, x)

LEMMA OthersKeep ==
  ASSUME IInv, NEW p \in Procs, OthersKept(p), TakesFresh(p)
  PROVE  \A q \in Procs \ {p} : Local(q)' /\ EntOwned(q)' /\ NewOwned(q)'
<1> SUFFICES ASSUME NEW q \in Procs \ {p}
             PROVE  Local(q)' /\ EntOwned(q)' /\ NewOwned(q)'
  OBVIOUS
<1>1. pc'[q] = pc[q] /\ frame'[q] = frame[q] /\ Local(q) /\ EntOwned(q) /\ NewOwned(q)
  BY DEF OthersKept, IInv, LocalInv, OwnInv
<1>2. \A x \in Entries : Holds(q, x) =>
         /\ heap'[x].pooled = heap[x].pooled /\ heap'[x].buffer = heap[x].buffer
         /\ x \in users' <=> x \in users
         /\ x \in entryPool' <=> x \in entryPool
  BY DEF OthersKept
<1>3. Local(q)'
  BY <1>1, <1>2 DEF Local, Holds, HasEnt, HasNew, HasBuf
<1>4. ASSUME NEW x \in Entries, Holds(q, x), x \notin users,
             \A r \in Procs \ {q} : ~Holds(r, x),
             NEW r \in Procs \ {q}
      PROVE  ~Holds(r, x)'
  <2>1. CASE r = p
    BY <1>4, <2>1 DEF TakesFresh
  <2>2. CASE r # p
    BY <1>4, <2>2 DEF OthersKept, Holds
  <2> QED BY <2>1, <2>2
<1>5. EntOwned(q)'
  BY <1>1, <1>2, <1>4 DEF EntOwned, Holds
<1>6. NewOwned(q)'
  BY <1>1, <1>2, <1>4 DEF NewOwned, Holds
<1> QED BY <1>3, <1>5, <1>6

\* A step that ends the call of p, or its logging.
LEMMA ReturnKeepsAll ==
  ASSUME IInv, NEW p \in Procs, Return(p) \/ Finish(p),
         \A q \in Procs \ {p}, x \in Entries : Holds(q, x) =>
           /\ heap'[x].pooled = heap[x].pooled /\ heap'[x].buffer = heap[x].buffer
           /\ x \in users' <=> x \in users
           /\ x \in entryPool' <=> x \in entryPool,
         \A x \in entryPool' : heap'[x].pooled,
         \A x \in users' \cup retained' : ~heap'[x].pooled
  PROVE  LocalInv' /\ OwnInv'
<1>1. /\ \A q \in Procs : q # p => pc'[q] = pc[q] /\ frame'[q] = frame[q]
      /\ pc'[p] \in {"idle", "exit"}
      /\ frame'[p].ent = NoEntry /\ frame'[p].new = NoEntry
  BY ReturnType DEF IInv
<1>2. OthersKept(p) /\ TakesFresh(p)
  BY <1>1, ConstantsAssumption DEF OthersKept, TakesFresh, Holds
<1>3. Local(p)' /\ EntOwned(p)' /\ NewOwned(p)'
  BY <1>1, ConstantsAssumption DEF Local, EntOwned, NewOwned, HasEnt, HasNew, HasBuf
<1>4. \A q \in Procs : Local(q)' /\ EntOwned(q)' /\ NewOwned(q)'
  BY <1>2, <1>3, OthersKeep
<1> QED BY <1>4 DEF LocalInv, OwnInv

LEMMA LoadConsoleKeeps ==
  ASSUME IInv, NEW p \in Procs, LoadConsole(p)
  PROVE  IInv'
<1> USE DEF LoadConsole, Enabled, Steps, GoTo, poolVars, configVars, mutexVars
<1>1. PICK l \in {"newEntry", "lockLog", "checkHook"} :
        /\ pc' = [pc EXCEPT ![p] = l] /\ UNCHANGED frame
        /\ l = "lockLog" => frame[p].ent \in Entries
  BY DEF IInv, TypeOK, Frame
<1>2. TypeOK'
  BY <1>1 DEF IInv, TypeOK, MutexTypeOK, Labels
<1>3. LocalInv' /\ OwnInv'
  BY <1>1, MoveKeeps DEF IInv, TypeOK, Labels, HasEnt, HasNew, HasBuf
<1> QED BY <1>2, <1>3 DEF IInv

LEMMA LoadHookKeeps ==
  ASSUME IInv, NEW p \in Procs, LoadHook(p)
  PROVE  IInv'
<1> USE DEF LoadHook, Enabled, Steps, poolVars, configVars, mutexVars
<1>1. CASE Finish(p)
  <2>1. TypeOK'
    BY <1>1, ReturnType DEF IInv, TypeOK, MutexTypeOK
  <2> QED BY <1>1, <2>1, ReturnKeeps DEF IInv
<1>2. CASE ~Finish(p)
  <2>1. PICK l \in {"newEntry", "lockLog", "release"} :
          /\ pc' = [pc EXCEPT ![p] = l] /\ UNCHANGED frame
          /\ l \in {"lockLog", "release"} => frame[p].ent \in Entries
          /\ l = "release" => heap[frame[p].ent].pooled
    BY <1>2 DEF IInv, TypeOK, Frame, GoTo, Pooled
  <2>2. TypeOK'
    BY <2>1 DEF IInv, TypeOK, MutexTypeOK, Labels
  <2>3. LocalInv' /\ OwnInv'
    BY <2>1, MoveKeeps DEF IInv, TypeOK, Labels, HasEnt, HasNew, HasBuf
  <2> QED BY <2>2, <2>3 DEF IInv
<1> QED BY <1>1, <1>2

LEMMA NewEntryKeeps ==
  ASSUME IInv, NEW p \in Procs, NewEntry(p)
  PROVE  IInv'
<1> USE DEF NewEntry, Steps, poolVars, configVars, mutexVars
<1>1. PICK e \in entryPool \cup UnusedEntries :
        /\ entryPool' = entryPool \ {e}
        /\ heap' = [heap EXCEPT ![e] = Handed(e)]
        /\ frame' = [frame EXCEPT ![p].ent = e]
  BY FreshIn
<1>2. PICK l \in {"lockLog", "derive", "checkConsole"} : pc' = [pc EXCEPT ![p] = l]
  <2>1. CASE frame[p].kind = "logger"
    BY <2>1 DEF GoTo
  <2>2. CASE frame[p].kind = "with"
    BY <2>2 DEF GoTo
  <2>3. CASE frame[p].kind # "logger" /\ frame[p].kind # "with"
    BY <2>3 DEF GoTo
  <2> QED BY <2>1, <2>2, <2>3
<1>3. e \in Entries /\ Handed(e) \in Entry /\ Handed(e).pooled
  BY ZeroEntryType DEF Handed, IInv, TypeOK, UnusedEntries, Entry
<1>4. /\ frame' \in [Procs -> Frame] /\ frame'[p].ent = e
      /\ \A q \in Procs : q # p => frame'[q] = frame[q]
      /\ frame'[p].new = frame[p].new
  <2> DEFINE r == [frame[p] EXCEPT !.ent = e]
  <2>1. r \in Frame /\ r.ent = e /\ r.new = frame[p].new
    <3>1. frame[p] \in Frame
      BY DEF IInv, TypeOK
    <3> QED BY <3>1, <1>3 DEF Frame
  <2>2. frame' = [frame EXCEPT ![p] = r]
    BY <1>1
  <2> HIDE DEF r
  <2> QED BY <2>1, <2>2 DEF IInv, TypeOK
<1>5. /\ heap' \in [Entries -> Entry] /\ heap'[e] = Handed(e)
      /\ \A x \in Entries : x # e => heap'[x] = heap[x]
  BY <1>1, <1>3 DEF IInv, TypeOK
<1>6. TypeOK'
  <2>1. pc' \in [Procs -> Labels]
    BY <1>2 DEF IInv, TypeOK, Labels
  <2> QED BY <1>1, <1>4, <1>5, <2>1 DEF IInv, TypeOK, MutexTypeOK
<1>7. \A q \in Procs : e # frame[q].new
  BY <1>1 DEF IInv, OwnInv, EntOwned, NewOwned, Holds, UnusedEntries, TypeOK
<1>8. frame[p].new \notin Entries
  BY DEF IInv, LocalInv, Local, HasNew
<1>9. LocalInv'
  BY <1>2, <1>3, <1>4, <1>5, <1>7, <1>8
     DEF IInv, TypeOK, LocalInv, Local, HasEnt, HasNew, HasBuf
<1>10. e \notin users \cup retained /\ \A q \in Procs : e # frame[q].ent
  <2>1. CASE e \in entryPool
    <3>1. heap[e].pooled /\ e \notin users \cup retained
      BY <2>1 DEF IInv, OwnInv, EntOwned, NewOwned, Holds
    <3>2. \A q \in Procs : e # frame[q].ent
      BY <1>3, <2>1, <3>1 DEF IInv, OwnInv, EntOwned, NewOwned, Holds
    <3> QED BY <3>1, <3>2
  <2>2. CASE e \in UnusedEntries
    BY <2>2 DEF UnusedEntries
  <2> QED BY <2>1, <2>2
<1>11. OwnInv'
  BY <1>1, <1>3, <1>4, <1>5, <1>7, <1>8, <1>10 DEF IInv, TypeOK, OwnInv, EntOwned, NewOwned, Holds
<1> QED BY <1>6, <1>9, <1>11 DEF IInv

LEMMA DeriveKeeps ==
  ASSUME IInv, NEW p \in Procs, Derive(p)
  PROVE  IInv'
<1>0. TypeOK /\ LocalInv /\ OwnInv
  BY DEF IInv
<1>s. entryPool \subseteq Entries /\ users \subseteq Entries /\ retained \subseteq Entries
  BY <1>0 DEF TypeOK
<1>u. /\ UNCHANGED <<entryPool, retained>> /\ pc[p] = "derive"
      /\ UNCHANGED <<mutexVars, configVars, freeBufs, content, calls, sent, exited>>
  BY DEF Derive, Steps, poolVars
<1>1. PICK e \in UnusedEntries :
        /\ heap' = [heap EXCEPT ![e] =
                      [ZeroEntry EXCEPT !.data = heap[frame[p].ent].data \cup {"field"}]]
        /\ users' = users \cup {e}
  BY FreshIn DEF Derive
<1> DEFINE z == [ZeroEntry EXCEPT !.data = heap[frame[p].ent].data \cup {"field"}]
<1>2. frame[p].ent \in Entries /\ frame[p].new \notin Entries
  BY <1>0, <1>u DEF LocalInv, Local, HasEnt, HasNew
<1>3. z \in Entry /\ ~z.pooled
  <2>1. heap[frame[p].ent] \in Entry
    BY <1>0, <1>2 DEF TypeOK
  <2>2. heap[frame[p].ent].data \cup {"field"} \in SUBSET {"field", "hook"}
    BY <2>1 DEF Entry
  <2>3. z \in Entry
    BY <2>2, ZeroEntryType DEF Entry
  <2>4. ~z.pooled
    BY DEF ZeroEntry
  <2> QED BY <2>3, <2>4
<1>4. e \in Entries /\ e \notin entryPool \cup users \cup retained
      /\ \A q \in Procs : e # frame[q].ent /\ e # frame[q].new
  BY DEF UnusedEntries
<1> HIDE DEF z
<1>5. /\ heap' \in [Entries -> Entry] /\ heap'[e] = z
      /\ \A x \in Entries : x # e => heap'[x] = heap[x]
  BY <1>0, <1>1, <1>3, <1>4 DEF TypeOK, z
<1>6. \A q \in Procs, x \in Entries : Holds(q, x) =>
        heap'[x] = heap[x] /\ (x \in users' <=> x \in users)
  BY <1>1, <1>4, <1>5 DEF Holds
<1>7. (\A x \in entryPool' : heap'[x].pooled)
      /\ \A x \in users' \cup retained' : ~heap'[x].pooled
  BY <1>0, <1>s, <1>u, <1>1, <1>3, <1>4, <1>5 DEF OwnInv
<1>8. CASE Pooled(p)
  <2>1. GoTo(p, "release") /\ UNCHANGED frame
    BY <1>8 DEF Derive
  <2>2. /\ pc' \in [Procs -> Labels] /\ pc'[p] = "release"
        /\ \A q \in Procs : q # p => pc'[q] = pc[q]
    BY <1>0, <2>1, PcStep DEF Labels
  <2>3. TypeOK'
    BY <1>0, <1>u, <1>1, <1>4, <1>5, <2>1, <2>2
       DEF TypeOK, MutexTypeOK, mutexVars, configVars
  <2>4. OthersKept(p) /\ TakesFresh(p)
    BY <1>u, <1>6, <2>1, <2>2 DEF OthersKept, TakesFresh, Holds
  <2>5. Local(p)'
    BY <1>2, <1>4, <1>5, <1>8, <2>1, <2>2 DEF Local, HasEnt, HasNew, HasBuf, Pooled
  <2>6. EntOwned(p)' /\ NewOwned(p)'
    BY <1>0, <1>u, <1>2, <1>6, <2>1 DEF OwnInv, EntOwned, NewOwned, Holds
  <2>7. \A q \in Procs : Local(q)' /\ EntOwned(q)' /\ NewOwned(q)'
    BY <2>4, <2>5, <2>6, OthersKeep
  <2> QED BY <1>7, <2>3, <2>7 DEF IInv, LocalInv, OwnInv
<1>9. CASE ~Pooled(p)
  <2>1. Return(p)
    BY <1>9 DEF Derive
  <2>2. TypeOK'
    BY <1>0, <1>u, <1>1, <1>4, <1>5, <2>1, ReturnType
       DEF TypeOK, MutexTypeOK, mutexVars, configVars
  <2>3. LocalInv' /\ OwnInv'
    BY <1>u, <1>6, <1>7, <2>1, ReturnKeepsAll
  <2> QED BY <2>2, <2>3 DEF IInv
<1> QED BY <1>8, <1>9

LEMMA ReleaseKeeps ==
  ASSUME IInv, NEW p \in Procs, Release(p)
  PROVE  IInv'
<1>0. TypeOK /\ LocalInv /\ OwnInv
  BY DEF IInv
<1>s. entryPool \subseteq Entries /\ users \subseteq Entries /\ retained \subseteq Entries
  BY <1>0 DEF TypeOK
<1>u. /\ UNCHANGED <<users, retained>> /\ pc[p] = "release" /\ Finish(p)
      /\ UNCHANGED <<mutexVars, configVars, freeBufs, content, calls, sent, exited>>
  BY DEF Release, Steps
<1> DEFINE e == frame[p].ent
<1>1. e \in Entries /\ frame[p].new \notin Entries /\ heap[e].pooled
  BY <1>0, <1>u DEF LocalInv, Local, HasEnt, HasNew
<1>2. Cleared(heap[e]) \in Entry /\ Cleared(heap[e]).pooled
  <2>1. heap[e] \in Entry
    BY <1>0, <1>1 DEF TypeOK
  <2> QED BY <1>1, <2>1 DEF Entry, Cleared
<1>3. heap' = [heap EXCEPT ![e] = Cleared(heap[e])] /\ entryPool' = entryPool \cup {e}
  BY DEF Release
<1>4. e \notin users \cup retained
      /\ \A q \in Procs \ {p} : e # frame[q].ent /\ e # frame[q].new
  BY <1>0, <1>1 DEF OwnInv, EntOwned, Holds
<1> HIDE DEF e
<1>5. /\ heap' \in [Entries -> Entry] /\ heap'[e] = Cleared(heap[e])
      /\ \A x \in Entries : x # e => heap'[x] = heap[x]
  BY <1>0, <1>1, <1>2, <1>3 DEF TypeOK
<1>6. TypeOK'
  BY <1>0, <1>u, <1>1, <1>3, <1>5, ReturnType
     DEF TypeOK, MutexTypeOK, mutexVars, configVars
<1>7. \A q \in Procs \ {p}, x \in Entries : Holds(q, x) =>
        heap'[x] = heap[x] /\ (x \in entryPool' <=> x \in entryPool)
  BY <1>3, <1>4, <1>5 DEF Holds
<1>8. (\A x \in entryPool' : heap'[x].pooled)
      /\ \A x \in users' \cup retained' : ~heap'[x].pooled
  BY <1>0, <1>s, <1>u, <1>1, <1>2, <1>3, <1>4, <1>5 DEF OwnInv
<1>9. LocalInv' /\ OwnInv'
  BY <1>u, <1>7, <1>8, ReturnKeepsAll
<1> QED BY <1>6, <1>9 DEF IInv

\* A step that keeps the heap and the pools and only moves p, with its frame.
LEMMA MoveType ==
  ASSUME IInv, NEW p \in Procs, NEW l \in Labels, GoTo(p, l), MutexTypeOK',
         NEW r \in Frame, frame' = [frame EXCEPT ![p] = r],
         content' \in [Buffers -> Seq(Line)], sent' \in Seq(Delivery),
         UNCHANGED <<configVars, poolVars, heap, users, retained, calls, exited>>
  PROVE  TypeOK'
<1>0. TypeOK
  BY DEF IInv
<1>1. pc' \in [Procs -> Labels] /\ frame' \in [Procs -> Frame]
  BY <1>0, PcStep, FrameStep
<1> QED BY <1>0, <1>1 DEF TypeOK, configVars, poolVars

LEMMA SameFrame ==
  ASSUME TypeOK, NEW p \in Procs, UNCHANGED frame
  PROVE  frame[p] \in Frame /\ frame' = [frame EXCEPT ![p] = frame[p]]
  BY DEF TypeOK

LEMMA LockLogKeeps ==
  ASSUME IInv, NEW p \in Procs, LockLog(p)
  PROVE  IInv'
<1>0. TypeOK /\ LocalInv
  BY DEF IInv
<1>1. pc[p] = "lockLog" /\ UNCHANGED <<mutexVars, configVars, poolVars, heap, content,
                                       users, retained, frame, calls, sent, exited>>
  BY DEF LockLog, Lock, Steps
<1>2. PICK l \in {"waitLog", "snapshot"} : GoTo(p, l)
  BY DEF LockLog, Lock
<1>3. TypeOK'
  BY <1>0, <1>1, <1>2, SameFrame, MoveType DEF Labels, TypeOK, MutexTypeOK, mutexVars
<1>4. LocalInv' /\ OwnInv'
  BY <1>0, <1>1, <1>2, MoveKeeps
     DEF LocalInv, Local, HasEnt, HasNew, HasBuf, TypeOK, GoTo, poolVars, Labels
<1> QED BY <1>3, <1>4 DEF IInv

LEMMA WaitLogKeeps ==
  ASSUME IInv, NEW p \in Procs, WaitLog(p)
  PROVE  IInv'
<1>0. TypeOK /\ LocalInv
  BY DEF IInv
<1>1. /\ pc[p] = "waitLog" /\ GoTo(p, "snapshot") /\ Acquire(p)
      /\ UNCHANGED <<configVars, poolVars, heap, content, users, retained, frame, calls,
                     sent, exited>>
  BY DEF WaitLog, Steps
<1>2. TypeOK'
  BY <1>0, <1>1, SameFrame, MoveType DEF Labels, TypeOK, MutexTypeOK, Acquire
<1>3. LocalInv' /\ OwnInv'
  BY <1>0, <1>1, MoveKeeps
     DEF LocalInv, Local, HasEnt, HasNew, HasBuf, TypeOK, GoTo, poolVars, Labels
<1> QED BY <1>2, <1>3 DEF IInv

LEMMA SnapshotKeeps ==
  ASSUME IInv, NEW p \in Procs, Snapshot(p)
  PROVE  IInv'
<1>0. TypeOK /\ LocalInv /\ OwnInv /\ frame[p] \in Frame
  BY DEF IInv, TypeOK
<1> DEFINE r == [frame[p] EXCEPT !.caller = reportCaller, !.pool = bufferPool,
                   !.observed = Observed(p),
                   !.hooks = IF Observed(p) THEN hooks[frame[p].level] ELSE <<>>]
<1>1. /\ pc[p] = "snapshot" /\ GoTo(p, "prepare") /\ Unlock
      /\ frame' = [frame EXCEPT ![p] = r]
      /\ UNCHANGED <<configVars, poolVars, heap, content, users, retained, calls, sent,
                     exited>>
  BY DEF Snapshot, EndSnapshot, Steps
<1>2. /\ r \in Frame /\ r.ent = frame[p].ent /\ r.new = frame[p].new
      /\ r.hooks # <<>> => r.observed
  <2>1. reportCaller \in BOOLEAN /\ bufferPool \in Pools /\ Observed(p) \in BOOLEAN
    BY <1>0 DEF TypeOK, Observed
  <2>2. hooks[frame[p].level] \in Seq(Hooks)
    BY <1>0 DEF TypeOK, Frame
  <2> DEFINE hs == IF Observed(p) THEN hooks[frame[p].level] ELSE <<>>
             o == Observed(p)
  <2>3. hs \in Seq(Hooks) /\ (hs # <<>> => o) /\ o \in BOOLEAN
    BY <2>1, <2>2
  <2> HIDE DEF hs, o
  <2>4. [frame[p] EXCEPT !.caller = reportCaller, !.pool = bufferPool,
                         !.observed = o, !.hooks = hs] \in Frame
    BY <1>0, <2>1, <2>3 DEF Frame
  <2>5. r = [frame[p] EXCEPT !.caller = reportCaller, !.pool = bufferPool,
                             !.observed = o, !.hooks = hs]
    BY DEF o, hs
  <2>6. r.ent = frame[p].ent /\ r.new = frame[p].new /\ r.hooks = hs /\ r.observed = o
    BY <1>0, <2>5 DEF Frame
  <2> QED BY <2>3, <2>4, <2>5, <2>6
<1> HIDE DEF r
<1>3. TypeOK'
  BY <1>0, <1>1, <1>2, MoveType DEF Labels, TypeOK, MutexTypeOK, Unlock
<1>4. /\ pc' \in [Procs -> Labels] /\ pc'[p] = "prepare"
      /\ \A q \in Procs : q # p => pc'[q] = pc[q] /\ frame'[q] = frame[q]
      /\ frame'[p] = r
  BY <1>0, <1>1, <1>2, PcStep, FrameStep DEF Labels
<1>5. OthersKept(p) /\ TakesFresh(p)
  BY <1>1, <1>2, <1>4 DEF OthersKept, TakesFresh, Holds, poolVars
<1>6. Local(p)'
  BY <1>0, <1>1, <1>2, <1>4 DEF LocalInv, Local, HasEnt, HasNew, HasBuf
<1>7. frame[p].new \notin Entries
  BY <1>0, <1>1 DEF LocalInv, Local, HasNew
<1>8. EntOwned(p)' /\ NewOwned(p)'
  BY <1>0, <1>1, <1>2, <1>4, <1>7 DEF OwnInv, EntOwned, NewOwned, Holds, poolVars
<1>9. \A q \in Procs : Local(q)' /\ EntOwned(q)' /\ NewOwned(q)'
  BY <1>5, <1>6, <1>8, OthersKeep
<1>10. OwnInv' /\ LocalInv'
  BY <1>0, <1>1, <1>9 DEF OwnInv, LocalInv, poolVars
<1> QED BY <1>3, <1>10 DEF IInv

LEMMA ExitKeeps ==
  ASSUME IInv, NEW p \in Procs, Exit(p)
  PROVE  IInv'
<1>1. /\ exited' \in BOOLEAN /\ Return(p)
      /\ UNCHANGED <<mutexVars, configVars, poolVars, heap, content, users, retained,
                     calls, sent>>
  BY DEF Exit
<1>2. TypeOK'
  BY <1>1, ReturnType DEF IInv, TypeOK, MutexTypeOK, mutexVars, configVars, poolVars
<1> QED BY <1>1, <1>2, ReturnKeeps DEF IInv, poolVars

LEMMA PrepareKeeps ==
  ASSUME IInv, NEW p \in Procs, Prepare(p)
  PROVE  IInv'
<1>0. TypeOK /\ LocalInv /\ OwnInv /\ frame[p] \in Frame
  BY DEF IInv, TypeOK
<1> DEFINE entry == frame[p].ent
<1>1. /\ pc[p] = "prepare"
      /\ UNCHANGED <<mutexVars, configVars, poolVars, content, users, retained, calls,
                     sent, exited>>
  BY DEF Prepare, Steps
<1>2. entry \in Entries /\ frame[p].new \notin Entries
      /\ (frame[p].hooks # <<>> => frame[p].observed)
  BY <1>0, <1>1 DEF LocalInv, Local, HasEnt, HasNew
<1>3. PICK e \in Entries :
        /\ heap' = [heap EXCEPT ![e] =
                      Stamped(IF e = entry THEN heap[e] ELSE Dup(heap[entry]), p)]
        /\ frame' = [frame EXCEPT ![p].new = e]
        /\ (e = entry /\ InPlace(p)) \/ e \in UnusedEntries
  BY <1>2, FreshIn DEF Prepare, UnusedEntries
<1> DEFINE old == IF e = entry THEN heap[e] ELSE Dup(heap[entry])
           r == [frame[p] EXCEPT !.new = e]
           z == Stamped(old, p)
<1>4. old \in Entry /\ (e # entry => ~old.pooled) /\ (e = entry => old = heap[e])
  <2>1. heap[entry] \in Entry /\ heap[e] \in Entry
    BY <1>0, <1>2 DEF TypeOK
  <2>2. Dup(heap[entry]) \in Entry
    BY <1>0, <2>1, ZeroEntryType DEF Dup, Entry, TypeOK
  <2>3. ~Dup(heap[entry]).pooled
    BY DEF Dup, ZeroEntry
  <2> QED BY <2>1, <2>2, <2>3
<1>5. r \in Frame /\ r.ent = entry /\ r.new = e /\ r.hooks = frame[p].hooks
      /\ r.observed = frame[p].observed /\ r.level = frame[p].level
  BY <1>0 DEF Frame
<1>6. frame' = [frame EXCEPT ![p] = r] /\ heap' = [heap EXCEPT ![e] = z]
  BY <1>3
<1> HIDE DEF old, r
<1>7. z \in Entry /\ z.pooled = old.pooled /\ z.buffer = old.buffer
  <2>1. frame[p].call \in Nat
    BY <1>0 DEF Frame
  <2> DEFINE t == IF old.time = 0 THEN frame[p].call ELSE old.time
             c == IF frame[p].caller THEN frame[p].call ELSE old.caller
  <2>2. t \in Nat /\ c \in Nat
    BY <1>4, <2>1 DEF Entry
  <2>3. z = [old EXCEPT !.time = t, !.msg = frame[p].call, !.trimmed = FALSE, !.caller = c]
    BY <1>4 DEF Stamped, Entry
  <2> HIDE DEF t, c, z
  <2> QED BY <1>4, <2>1, <2>2, <2>3 DEF Entry
<1> HIDE DEF z
<1>8. PICK l \in {"getBuffer", "hook"} : GoTo(p, l) /\ (l = "hook" => frame[p].hooks # <<>>)
  BY DEF Prepare
<1>9. /\ pc' \in [Procs -> Labels] /\ pc'[p] = l /\ frame' \in [Procs -> Frame]
      /\ frame'[p] = r
      /\ \A q \in Procs : q # p => pc'[q] = pc[q] /\ frame'[q] = frame[q]
  <2>1. pc' \in [Procs -> Labels] /\ pc'[p] = l /\ \A q \in Procs : q # p => pc'[q] = pc[q]
    BY <1>0, <1>8, PcStep DEF Labels
  <2>2. /\ frame' \in [Procs -> Frame] /\ frame'[p] = r
        /\ \A q \in Procs : q # p => frame'[q] = frame[q]
    BY <1>0, <1>5, <1>6, FrameStep
  <2> QED BY <2>1, <2>2
<1>10. /\ heap' \in [Entries -> Entry] /\ heap'[e] = z
       /\ \A x \in Entries : x # e => heap'[x] = heap[x]
  BY <1>0, <1>6, <1>7 DEF TypeOK
<1>11. TypeOK'
  BY <1>0, <1>1, <1>9, <1>10 DEF TypeOK, MutexTypeOK, mutexVars, configVars, poolVars
<1>12. /\ e \notin users \cup retained \cup entryPool
       /\ \A q \in Procs \ {p} : ~Holds(q, e)
       /\ e = entry => frame[p].level > PanicLevel /\ ~frame[p].observed
  <2>1. CASE e \in UnusedEntries
    BY <1>2, <2>1 DEF UnusedEntries, Holds
  <2>2. CASE e = entry /\ InPlace(p)
    <3>1. heap[e].pooled /\ frame[p].level > PanicLevel /\ ~frame[p].observed
      BY <2>2 DEF InPlace, Pooled
    <3>2. e \notin users \cup retained
      BY <1>0, <3>1 DEF OwnInv
    <3> QED BY <1>0, <2>2, <3>1, <3>2 DEF OwnInv, EntOwned
  <2> QED BY <1>3, <2>1, <2>2
<1>13. OthersKept(p) /\ TakesFresh(p)
  BY <1>1, <1>5, <1>9, <1>10, <1>12 DEF OthersKept, TakesFresh, Holds, poolVars
<1>14. Local(p)'
  BY <1>2, <1>5, <1>8, <1>9 DEF Local, HasEnt, HasNew, HasBuf
<1>15. \A x \in Entries : (x # e \/ e = entry) => heap'[x].pooled = heap[x].pooled
  BY <1>4, <1>7, <1>10
<1>16. \A q \in Procs \ {p}, x \in Entries : Holds(q, x)' <=> Holds(q, x)
  BY <1>9 DEF Holds
<1>17. EntOwned(p)'
  BY <1>0, <1>1, <1>2, <1>5, <1>9, <1>15, <1>16 DEF OwnInv, EntOwned, poolVars
<1>18. NewOwned(p)'
  BY <1>1, <1>4, <1>5, <1>7, <1>9, <1>10, <1>12, <1>16 DEF NewOwned, poolVars
<1>19. \A q \in Procs : Local(q)' /\ EntOwned(q)' /\ NewOwned(q)'
  BY <1>13, <1>14, <1>17, <1>18, OthersKeep
<1>20. LocalInv' /\ OwnInv'
  BY <1>0, <1>1, <1>10, <1>12, <1>19 DEF TypeOK, OwnInv, LocalInv, poolVars
<1> QED BY <1>11, <1>20 DEF IInv

\* Nobody else holds the entry of a line while it is being logged.
LEMMA NewExclusive ==
  ASSUME IInv, NEW p \in Procs, frame[p].new \in Entries
  PROVE  /\ \A q \in Procs \ {p} : ~Holds(q, frame[p].new)
         /\ frame[p].new \notin users \cup entryPool
  BY DEF IInv, OwnInv, NewOwned, EntOwned

\* A step that keeps the entries of p, and changes none but its new one.
LEMMA SameEntriesKeep ==
  ASSUME IInv, NEW p \in Procs, frame[p].new \in Entries,
         UNCHANGED <<users, entryPool>>,
         frame'[p].ent = frame[p].ent, frame'[p].new = frame[p].new,
         frame'[p].level = frame[p].level, frame'[p].observed = frame[p].observed,
         \A q \in Procs : q # p => pc'[q] = pc[q] /\ frame'[q] = frame[q],
         \A x \in Entries : heap'[x].pooled = heap[x].pooled,
         \A x \in Entries : x # frame[p].new => heap'[x].buffer = heap[x].buffer,
         retained' \subseteq Entries,
         \A x \in retained' : x \in retained \/ ~heap[x].pooled,
         Local(p)'
  PROVE  LocalInv' /\ OwnInv'
<1>0. OwnInv /\ entryPool \subseteq Entries /\ users \subseteq Entries
  BY DEF IInv, TypeOK
<1>1. OthersKept(p) /\ TakesFresh(p)
  BY NewExclusive DEF OthersKept, TakesFresh, Holds
<1>2. EntOwned(p)' /\ NewOwned(p)'
  BY <1>0 DEF OwnInv, EntOwned, NewOwned, Holds
<1>3. \A q \in Procs : Local(q)' /\ EntOwned(q)' /\ NewOwned(q)'
  BY <1>1, <1>2, OthersKeep
<1> QED BY <1>0, <1>3 DEF OwnInv, LocalInv

LEMMA TailOf ==
  ASSUME NEW S, NEW s \in Seq(S), s # <<>>
  PROVE  Tail(s) \in Seq(S) /\ (Len(s) # 1 => Tail(s) # <<>>)
<1>1. Tail(s) \in Seq(S) /\ Len(Tail(s)) = Len(s) - 1 /\ Len(s) \in Nat
  BY HeadTailProperties, LenProperties
<1>2. Tail(s) = <<>> => Len(Tail(s)) = 0
  BY EmptySeq
<1> QED BY <1>1, <1>2

LEMMA FireHookKeeps ==
  ASSUME IInv, NEW p \in Procs, FireHook(p)
  PROVE  IInv'
<1>0. TypeOK /\ LocalInv /\ OwnInv /\ frame[p] \in Frame
  BY DEF IInv, TypeOK
<1> DEFINE e == frame[p].new
           h == Head(frame[p].hooks)
           d == [by |-> frame[p].call, sink |-> h, user |-> ~Pooled(p),
                 line |-> <<LineOf(heap[e])>>]
<1>1. /\ pc[p] = "hook"
      /\ UNCHANGED <<mutexVars, configVars, poolVars, content, users, calls, exited>>
      /\ sent' = Append(sent, d)
      /\ heap' = IF h \in ModifyHooks
                 THEN [heap EXCEPT ![e].data = @ \cup {"hook"}] ELSE heap
      /\ retained' = IF h \in RetainHooks THEN retained \cup {e} ELSE retained
  BY DEF FireHook, Steps
<1>2. e \in Entries /\ frame[p].ent \in Entries /\ frame[p].hooks # <<>>
      /\ frame[p].observed /\ frame[p].hooks \in Seq(Hooks)
  BY <1>0, <1>1 DEF LocalInv, Local, HasEnt, HasNew, Frame
<1>3. heap[e] \in Entry /\ ~heap[e].pooled
  BY <1>0, <1>2 DEF TypeOK, OwnInv, NewOwned
<1>4. d \in Delivery
  <2>1. h \in Hooks /\ frame[p].call \in Nat /\ Pooled(p) \in BOOLEAN
    BY <1>0, <1>2 DEF Frame, Pooled, TypeOK, Entry
  <2>2. LineOf(heap[e]) \in Line
    BY <1>3 DEF LineOf, Line, Entry
  <2> QED BY <2>1, <2>2 DEF Delivery
<1> HIDE DEF d, h
<1>5. /\ heap' \in [Entries -> Entry]
      /\ \A x \in Entries : heap'[x].pooled = heap[x].pooled /\ heap'[x].buffer = heap[x].buffer
  <2> DEFINE z == [heap[e] EXCEPT !.data = @ \cup {"hook"}]
  <2>1. z \in Entry /\ z.pooled = heap[e].pooled /\ z.buffer = heap[e].buffer
    BY <1>3 DEF Entry
  <2>2. heap' = heap \/ heap' = [heap EXCEPT ![e] = z]
    BY <1>1
  <2> HIDE DEF z
  <2> QED BY <1>0, <1>2, <2>1, <2>2 DEF TypeOK
<1>6. sent' \in Seq(Delivery) /\ retained' \subseteq Entries
      /\ \A x \in retained' : x \in retained \/ ~heap[x].pooled
  BY <1>0, <1>1, <1>2, <1>3, <1>4 DEF TypeOK
<1>7. CASE Return(p)
  <2>1. TypeOK'
    BY <1>0, <1>1, <1>5, <1>6, <1>7, ReturnType
       DEF TypeOK, MutexTypeOK, mutexVars, configVars, poolVars
  <2>2. users \subseteq Entries /\ entryPool \subseteq Entries
    BY <1>0 DEF TypeOK
  <2>3. /\ \A x \in entryPool' : heap'[x].pooled
        /\ \A x \in users' \cup retained' : ~heap'[x].pooled
    BY <1>0, <1>1, <1>5, <1>6, <2>2 DEF OwnInv, poolVars
  <2>4. LocalInv' /\ OwnInv'
    BY <1>1, <1>5, <1>7, <2>3, ReturnKeepsAll DEF poolVars
  <2> QED BY <2>1, <2>4 DEF IInv
<1>8. CASE ~Return(p)
  <2> DEFINE Kept(r) == /\ r \in Frame
                        /\ r.ent = frame[p].ent /\ r.new = frame[p].new
                        /\ r.level = frame[p].level /\ r.observed = frame[p].observed
             Shorter(hs) == [frame[p] EXCEPT !.hooks = hs]
  <2>k. ASSUME NEW hs \in Seq(Hooks)
        PROVE  Kept(Shorter(hs)) /\ Shorter(hs).hooks = hs
    BY <1>0 DEF Frame
  <2>1. PICK l \in {"getBuffer", "hook"}, r \in Frame :
          /\ GoTo(p, l) /\ frame' = [frame EXCEPT ![p] = r] /\ Kept(r)
          /\ l = "hook" => r.hooks # <<>>
    <3>1. CASE /\ frame' = [frame EXCEPT ![p].hooks = Tail(@)]
               /\ GoTo(p, IF Len(frame[p].hooks) = 1 THEN "getBuffer" ELSE "hook")
      <4> DEFINE hs == Tail(frame[p].hooks)
      <4>1. hs \in Seq(Hooks) /\ (Len(frame[p].hooks) # 1 => hs # <<>>)
        BY <1>2, TailOf
      <4>2. frame' = [frame EXCEPT ![p] = Shorter(hs)]
        BY <3>1
      <4>3. Kept(Shorter(hs)) /\ Shorter(hs).hooks = hs
        BY <2>k, <4>1
      <4> HIDE DEF hs, Shorter
      <4>4. CASE Len(frame[p].hooks) = 1
        BY <3>1, <4>2, <4>3, <4>4
      <4>5. CASE Len(frame[p].hooks) # 1
        BY <3>1, <4>1, <4>2, <4>3, <4>5
      <4> QED BY <4>4, <4>5
    <3>2. CASE frame' = [frame EXCEPT ![p].hooks = <<>>] /\ GoTo(p, "getBuffer")
      <4>1. frame' = [frame EXCEPT ![p] = Shorter(<<>>)]
        BY <3>2
      <4>2. <<>> \in Seq(Hooks)
        OBVIOUS
      <4>3. Shorter(<<>>) \in Frame /\ Kept(Shorter(<<>>))
        BY <2>k, <4>2
      <4> HIDE DEF Shorter, Kept
      <4> QED BY <3>2, <4>1, <4>3
    <3> QED BY <1>8, <3>1, <3>2 DEF FireHook
  <2>2. l \in Labels
    BY DEF Labels
  <2>4. /\ pc' \in [Procs -> Labels] /\ pc'[p] = l /\ frame' \in [Procs -> Frame]
        /\ frame'[p] = r
        /\ \A q \in Procs : q # p => pc'[q] = pc[q] /\ frame'[q] = frame[q]
    BY <1>0, <2>1, <2>2, PcStep, FrameStep
  <2>5. TypeOK'
    BY <1>0, <1>1, <1>5, <1>6, <2>4
       DEF TypeOK, MutexTypeOK, mutexVars, configVars, poolVars
  <2>6. Local(p)'
    BY <1>2, <2>1, <2>4 DEF Local, HasEnt, HasNew, HasBuf
  <2>7. LocalInv' /\ OwnInv'
    BY <1>1, <1>2, <1>5, <1>6, <2>1, <2>4, <2>6, SameEntriesKeep DEF poolVars
  <2> QED BY <2>5, <2>7 DEF IInv
<1> QED BY <1>7, <1>8

LEMMA GetBufferKeeps ==
  ASSUME IInv, NEW p \in Procs, GetBuffer(p)
  PROVE  IInv'
<1>0. TypeOK /\ LocalInv /\ OwnInv /\ frame[p] \in Frame
  BY DEF IInv, TypeOK
<1>1. /\ pc[p] = "getBuffer"
      /\ UNCHANGED <<mutexVars, configVars, entryPool, users, retained, calls, sent,
                     exited>>
  BY DEF GetBuffer, Steps
<1> DEFINE e == frame[p].new
<1>2. e \in Entries /\ frame[p].ent \in Entries /\ frame[p].pool \in Pools
  BY <1>0, <1>1 DEF LocalInv, Local, HasEnt, HasNew, Frame
<1>3. PICK b \in Buffers :
       /\ freeBufs' = [freeBufs EXCEPT ![frame[p].pool] = @ \ {b}]
       /\ content' = Emptied(b)
       /\ heap' = [heap EXCEPT ![e].buffer = b]
       /\ frame' = [frame EXCEPT ![p].buf = b]
  <2>1. freeBufs[frame[p].pool] \cup Fresh(UnusedBuffers) \subseteq Buffers
    BY <1>0, <1>2, FreshIn DEF TypeOK, UnusedBuffers
  <2> QED BY <2>1 DEF GetBuffer
<1>4. PICK l \in {"format", "putBuffer"} : GoTo(p, l)
  BY DEF GetBuffer
<1> DEFINE r == [frame[p] EXCEPT !.buf = b]
           z == [heap[e] EXCEPT !.buffer = b]
<1>5. /\ r \in Frame /\ r.ent = frame[p].ent /\ r.new = frame[p].new /\ r.buf = b
      /\ r.level = frame[p].level /\ r.observed = frame[p].observed
  BY <1>0 DEF Frame
<1>6. z \in Entry /\ z.pooled = heap[e].pooled /\ z.buffer = b
  <2>1. heap[e] \in Entry
    BY <1>0, <1>2 DEF TypeOK
  <2> QED BY <2>1 DEF Entry
<1>7. frame' = [frame EXCEPT ![p] = r] /\ heap' = [heap EXCEPT ![e] = z]
  BY <1>3
<1> HIDE DEF r, z
<1>8. /\ pc' \in [Procs -> Labels] /\ pc'[p] = l /\ frame' \in [Procs -> Frame]
      /\ frame'[p] = r
      /\ \A q \in Procs : q # p => pc'[q] = pc[q] /\ frame'[q] = frame[q]
  <2>1. pc' \in [Procs -> Labels] /\ pc'[p] = l /\ \A q \in Procs : q # p => pc'[q] = pc[q]
    BY <1>0, <1>4, PcStep DEF Labels
  <2>2. /\ frame' \in [Procs -> Frame] /\ frame'[p] = r
        /\ \A q \in Procs : q # p => frame'[q] = frame[q]
    BY <1>0, <1>5, <1>7, FrameStep
  <2> QED BY <2>1, <2>2
<1>9. /\ heap' \in [Entries -> Entry] /\ heap'[e] = z
      /\ \A x \in Entries : x # e => heap'[x] = heap[x]
  BY <1>0, <1>2, <1>6, <1>7 DEF TypeOK
<1>10. content' \in [Buffers -> Seq(Line)] /\ freeBufs' \in [Pools -> SUBSET Buffers]
  <2>1. <<>> \in Seq(Line) /\ freeBufs[frame[p].pool] \ {b} \in SUBSET Buffers
    BY <1>0, <1>2 DEF TypeOK
  <2>2. content' \in [Buffers -> Seq(Line)]
    BY <1>0, <1>3, <2>1 DEF TypeOK, Emptied
  <2>3. freeBufs' \in [Pools -> SUBSET Buffers]
    BY <1>0, <1>2, <1>3, <2>1 DEF TypeOK
  <2> QED BY <2>2, <2>3
<1>11. TypeOK'
  BY <1>0, <1>1, <1>8, <1>9, <1>10 DEF TypeOK, MutexTypeOK, mutexVars, configVars
<1>12. Local(p)'
  BY <1>2, <1>5, <1>6, <1>8, <1>9 DEF Local, HasEnt, HasNew, HasBuf
<1>13. LocalInv' /\ OwnInv'
  <2>1. retained' \subseteq Entries /\ retained' = retained
    BY <1>0, <1>1 DEF TypeOK
  <2> QED BY <1>1, <1>2, <1>5, <1>6, <1>8, <1>9, <1>12, <2>1, SameEntriesKeep
<1> QED BY <1>11, <1>13 DEF IInv

\* Whatever the formatter does to Message, the entry shows the same and keeps the rest.
LEMMA TrimsOnly ==
  ASSUME TypeOK, NEW e \in Entries, Trims(e)
  PROVE  /\ heap' \in [Entries -> Entry]
         /\ \A x \in Entries : x # e => heap'[x] = heap[x]
         /\ \A x \in Entries :
              /\ LineOf(heap'[x]) = LineOf(heap[x]) /\ heap'[x].buffer = heap[x].buffer
              /\ heap'[x].pooled = heap[x].pooled
              /\ heap'[x].consoleLevel = heap[x].consoleLevel
              /\ heap'[x] = [heap[x] EXCEPT !.trimmed = heap'[x].trimmed]
<1>1. heap[e] \in Entry /\ \A x \in Entries : heap[x] \in Entry
  BY DEF TypeOK
<1>2. PICK t \in BOOLEAN : heap' = [heap EXCEPT ![e].trimmed = t]
  <2>1. PICK cut \in LineFeeds : heap' = [heap EXCEPT ![e].trimmed = @ \/ cut]
    BY DEF Trims
  <2>2. (heap[e].trimmed \/ cut) \in BOOLEAN
    OBVIOUS
  <2> QED BY <2>1, <2>2
<1> DEFINE z == [heap[e] EXCEPT !.trimmed = t]
<1>3. /\ z \in Entry /\ LineOf(z) = LineOf(heap[e]) /\ z.buffer = heap[e].buffer
      /\ z.pooled = heap[e].pooled /\ z.consoleLevel = heap[e].consoleLevel
      /\ z = [heap[e] EXCEPT !.trimmed = z.trimmed]
  BY <1>1 DEF Entry, LineOf
<1>4. heap' = [heap EXCEPT ![e] = z]
  BY <1>2
<1> HIDE DEF z
<1>5. /\ heap' \in [Entries -> Entry] /\ heap'[e] = z
      /\ \A x \in Entries : x # e => heap'[x] = heap[x]
  BY <1>3, <1>4 DEF TypeOK
<1>6. ASSUME NEW x \in Entries
      PROVE  heap[x] = [heap[x] EXCEPT !.trimmed = heap[x].trimmed]
  BY <1>1 DEF Entry
<1> QED BY <1>3, <1>5, <1>6

LEMMA FormatOnly ==
  ASSUME IInv, NEW p \in Procs, Format(p)
  PROVE  /\ pc[p] = "format" /\ frame[p].new \in Entries
         /\ \A x \in Entries : x # frame[p].new => heap'[x] = heap[x]
         /\ \A x \in Entries :
              /\ LineOf(heap'[x]) = LineOf(heap[x]) /\ heap'[x].buffer = heap[x].buffer
              /\ heap'[x].pooled = heap[x].pooled
              /\ heap'[x].consoleLevel = heap[x].consoleLevel
              /\ heap'[x] = [heap[x] EXCEPT !.trimmed = heap'[x].trimmed]
<1>1. pc[p] = "format" /\ Trims(frame[p].new)
  BY DEF Format, Steps
<1>2. TypeOK /\ frame[p].new \in Entries
  BY <1>1 DEF IInv, LocalInv, Local, HasNew
<1> QED BY <1>1, <1>2, TrimsOnly

LEMMA FormatKeeps ==
  ASSUME IInv, NEW p \in Procs, Format(p)
  PROVE  IInv'
<1>0. TypeOK /\ LocalInv /\ frame[p] \in Frame
  BY DEF IInv, TypeOK
<1> DEFINE e == frame[p].new
           b == heap[e].buffer
<1>1. /\ pc[p] = "format" /\ Trims(e)
      /\ UNCHANGED <<mutexVars, configVars, poolVars, users, retained, calls, sent, exited>>
  BY DEF Format, Steps
<1>2. e \in Entries /\ frame[p].ent \in Entries /\ frame[p].buf \in Buffers
      /\ b \in Buffers /\ heap[e] \in Entry /\ content[b] \in Seq(Line)
  BY <1>0, <1>1 DEF LocalInv, Local, HasEnt, HasNew, HasBuf, TypeOK
<1>3. LineOf(heap[e]) \in Line /\ Partial \in Line
  <2>1. Partial \in Line
    BY DEF Partial, Line
  <2>2. LineOf(heap[e]) \in Line
    BY <1>2 DEF LineOf, Line, Entry
  <2> QED BY <2>1, <2>2
<1> HIDE DEF b
<1>4. PICK l \in {"lockOut", "putBuffer"}, r \in Frame, line \in Line :
        /\ GoTo(p, l) /\ frame' = [frame EXCEPT ![p] = r]
        /\ content' = [content EXCEPT ![b] = Append(content[b], line)]
        /\ r.ent = frame[p].ent /\ r.new = frame[p].new /\ r.level = frame[p].level
        /\ r.observed = frame[p].observed /\ r.hooks = frame[p].hooks
        /\ r.buf = frame[p].buf
  <2>1. CASE /\ content' = [content EXCEPT ![b] = Append(@, LineOf(heap[e]))]
             /\ frame' = [frame EXCEPT ![p].size = Len(content[b]) + 1]
             /\ GoTo(p, "lockOut")
    <3> DEFINE r == [frame[p] EXCEPT !.size = Len(content[b]) + 1]
    <3>1. Len(content[b]) + 1 \in Nat
      BY <1>2
    <3>2. /\ r \in Frame
          /\ r.ent = frame[p].ent /\ r.new = frame[p].new /\ r.level = frame[p].level
          /\ r.observed = frame[p].observed /\ r.hooks = frame[p].hooks
          /\ r.buf = frame[p].buf
      BY <1>0, <3>1 DEF Frame
    <3>3. frame' = [frame EXCEPT ![p] = r]
      BY <2>1
    <3>4. content' = [content EXCEPT ![b] = Append(content[b], LineOf(heap[e]))]
      BY <2>1
    <3> HIDE DEF r
    <3> QED BY <1>3, <2>1, <3>2, <3>3, <3>4
  <2>2. ASSUME NEW outcome \in Outcomes \ {"ok"},
               content' = [content EXCEPT ![b] = Append(@, Partial)],
               frame' = [frame EXCEPT ![p].panics = (outcome = "panic")],
               GoTo(p, "putBuffer")
        PROVE  \E l \in {"lockOut", "putBuffer"}, r \in Frame, line \in Line :
                 /\ GoTo(p, l) /\ frame' = [frame EXCEPT ![p] = r]
                 /\ content' = [content EXCEPT ![b] = Append(content[b], line)]
                 /\ r.ent = frame[p].ent /\ r.new = frame[p].new
                 /\ r.level = frame[p].level /\ r.observed = frame[p].observed
                 /\ r.hooks = frame[p].hooks /\ r.buf = frame[p].buf
    <3> DEFINE r == [frame[p] EXCEPT !.panics = (outcome = "panic")]
    <3>1. /\ r \in Frame
          /\ r.ent = frame[p].ent /\ r.new = frame[p].new /\ r.level = frame[p].level
          /\ r.observed = frame[p].observed /\ r.hooks = frame[p].hooks
          /\ r.buf = frame[p].buf
      BY <1>0 DEF Frame
    <3>2. frame' = [frame EXCEPT ![p] = r]
      BY <2>2
    <3>3. content' = [content EXCEPT ![b] = Append(content[b], Partial)]
      BY <2>2
    <3> HIDE DEF r
    <3> QED BY <1>3, <2>2, <3>1, <3>2, <3>3
  <2> QED BY <2>1, <2>2 DEF Format, b
<1>5. content' \in [Buffers -> Seq(Line)]
  <2>1. Append(content[b], line) \in Seq(Line)
    BY <1>2, <1>4, AppendProperties
  <2> QED BY <1>0, <1>2, <1>4, <2>1 DEF TypeOK
<1>6. l \in Labels /\ MutexTypeOK' /\ sent' \in Seq(Delivery)
  BY <1>0, <1>1 DEF Labels, TypeOK, MutexTypeOK, mutexVars
<1>7. /\ heap' \in [Entries -> Entry]
      /\ \A x \in Entries : heap'[x].pooled = heap[x].pooled /\ heap'[x].buffer = heap[x].buffer
  BY <1>0, <1>1, <1>2, TrimsOnly
<1>8. /\ frame' \in [Procs -> Frame] /\ frame'[p] = r
      /\ \A q \in Procs : q # p => frame'[q] = frame[q]
  BY <1>0, <1>4, FrameStep
<1>9. /\ pc' \in [Procs -> Labels] /\ pc'[p] = l
      /\ \A q \in Procs : q # p => pc'[q] = pc[q]
  BY <1>0, <1>4, <1>6, PcStep
<1>10. TypeOK'
  BY <1>0, <1>1, <1>5, <1>6, <1>7, <1>8, <1>9 DEF TypeOK, configVars, poolVars
<1>11. Local(p)'
  BY <1>2, <1>4, <1>8, <1>9 DEF Local, HasEnt, HasNew, HasBuf
<1>12. LocalInv' /\ OwnInv'
  <2>1. retained' \subseteq Entries /\ retained' = retained
    BY <1>0, <1>1 DEF TypeOK
  <2> QED BY <1>1, <1>2, <1>4, <1>7, <1>8, <1>9, <1>11, <2>1, SameEntriesKeep DEF poolVars
<1> QED BY <1>10, <1>12 DEF IInv

\* The two ways to the critical section of write.
LEMMA EnterWriteKeeps ==
  ASSUME IInv, NEW p \in Procs, pc[p] \in {"lockOut", "waitOut"},
         NEW l \in {"waitOut", "write"}, GoTo(p, l), MutexTypeOK',
         \/ UNCHANGED frame
         \/ frame' = [frame EXCEPT ![p].out = out],
         UNCHANGED <<configVars, poolVars, heap, content, users, retained, calls, sent,
                     exited>>
  PROVE  IInv'
<1>0. TypeOK /\ LocalInv /\ frame[p] \in Frame /\ out \in Outs
  BY DEF IInv, TypeOK
<1>1. PICK r \in Frame :
        /\ frame' = [frame EXCEPT ![p] = r]
        /\ r.ent = frame[p].ent /\ r.new = frame[p].new /\ r.level = frame[p].level
        /\ r.observed = frame[p].observed /\ r.hooks = frame[p].hooks
        /\ r.buf = frame[p].buf
  <2>1. CASE UNCHANGED frame
    BY <1>0, <2>1, SameFrame
  <2>2. CASE frame' = [frame EXCEPT ![p].out = out]
    <3> DEFINE r == [frame[p] EXCEPT !.out = out]
    <3>1. /\ r \in Frame
          /\ r.ent = frame[p].ent /\ r.new = frame[p].new /\ r.level = frame[p].level
          /\ r.observed = frame[p].observed /\ r.hooks = frame[p].hooks
          /\ r.buf = frame[p].buf
      BY <1>0 DEF Frame
    <3>2. frame' = [frame EXCEPT ![p] = r]
      BY <2>2
    <3> HIDE DEF r
    <3> QED BY <3>1, <3>2
  <2> QED BY <2>1, <2>2
<1>2. l \in Labels /\ frame[p].ent \in Entries /\ frame[p].buf \in Buffers
  BY <1>0 DEF LocalInv, Local, HasEnt, HasBuf, Labels
<1>3. content' \in [Buffers -> Seq(Line)] /\ sent' \in Seq(Delivery)
  BY <1>0 DEF TypeOK
<1>4. TypeOK'
  BY <1>1, <1>2, <1>3, MoveType
<1>5. /\ frame' \in [Procs -> Frame] /\ frame'[p] = r
      /\ \A q \in Procs : q # p => frame'[q] = frame[q]
  BY <1>0, <1>1, FrameStep
<1>6. LocalInv' /\ OwnInv'
  BY <1>1, <1>2, <1>5, MoveKeeps DEF HasEnt, HasNew, HasBuf, GoTo, poolVars
<1> QED BY <1>4, <1>6 DEF IInv

LEMMA LockOutKeeps ==
  ASSUME IInv, NEW p \in Procs, LockOut(p)
  PROVE  IInv'
<1>1. PICK l \in {"waitOut", "write"} : GoTo(p, l)
  BY DEF LockOut, Lock
<1>2. pc[p] = "lockOut" /\ MutexTypeOK'
  BY DEF LockOut, Lock, Steps, IInv, TypeOK, MutexTypeOK, mutexVars
<1>3. UNCHANGED frame \/ frame' = [frame EXCEPT ![p].out = out]
  BY DEF LockOut
<1> QED BY <1>1, <1>2, <1>3, EnterWriteKeeps DEF LockOut

LEMMA WaitOutKeeps ==
  ASSUME IInv, NEW p \in Procs, WaitOut(p)
  PROVE  IInv'
<1>1. pc[p] = "waitOut" /\ GoTo(p, "write") /\ MutexTypeOK'
      /\ frame' = [frame EXCEPT ![p].out = out]
  BY DEF WaitOut, Acquire, Steps, IInv, TypeOK, MutexTypeOK
<1> QED BY <1>1, EnterWriteKeeps DEF WaitOut

\* What Write hands to Out is a sequence of lines.
LEMMA SerializedType ==
  ASSUME TypeOK, NEW p \in Procs, frame[p].buf \in Buffers
  PROVE  Serialized(p) \in Seq(Line)
<1> DEFINE s == content[frame[p].buf]
           n == IF frame[p].size <= Len(s) THEN frame[p].size ELSE Len(s)
<1>1. s \in Seq(Line) /\ Len(s) \in Nat /\ frame[p].size \in Nat
  <2>1. frame[p] \in Frame /\ s \in Seq(Line)
    BY DEF TypeOK
  <2> QED BY <2>1, LenProperties DEF Frame
<1>2. \A i \in 1..n : s[i] \in Line
  BY <1>1, ElementOfSeq
<1>3. n \in Int
  BY <1>1
<1> HIDE DEF n, s
<1>4. SubSeq(s, 1, n) \in Seq(Line)
  BY <1>2, <1>3, SubSeqProperties
<1> QED BY <1>4 DEF Serialized, n, s

LEMMA WriteKeeps ==
  ASSUME IInv, NEW p \in Procs, Write(p)
  PROVE  IInv'
<1>0. TypeOK /\ LocalInv /\ frame[p] \in Frame
  BY DEF IInv, TypeOK
<1>1. /\ pc[p] = "write" /\ GoTo(p, "putBuffer")
      /\ UNCHANGED <<configVars, poolVars, heap, content, users, retained, calls, exited>>
  BY DEF Write, Steps
<1>2. frame[p].ent \in Entries /\ frame[p].buf \in Buffers
  BY <1>0, <1>1 DEF LocalInv, Local, HasEnt, HasBuf
<1> DEFINE d == [by |-> frame[p].call, sink |-> frame[p].out, user |-> ~Pooled(p),
                 line |-> Serialized(p)]
           r(outcome) == [frame[p] EXCEPT !.panics = (outcome = "panic")]
<1>3. PICK outcome \in Outcomes :
        /\ sent' = IF outcome = "ok" THEN Append(sent, d) ELSE sent
        /\ frame' = [frame EXCEPT ![p] = r(outcome)]
        /\ Unlock
  BY DEF Write, EndWrite
<1>4. d \in Delivery
  <2>1. Serialized(p) \in Seq(Line) /\ frame[p].call \in Nat /\ frame[p].out \in Outs
    BY <1>0, <1>2, SerializedType DEF Frame
  <2>2. (~Pooled(p)) \in BOOLEAN
    BY <1>0, <1>2 DEF Pooled, TypeOK, Entry
  <2> QED BY <2>1, <2>2 DEF Delivery
<1> HIDE DEF d
<1>5. sent' \in Seq(Delivery)
  BY <1>0, <1>3, <1>4, AppendProperties DEF TypeOK
<1>6. /\ r(outcome) \in Frame
      /\ r(outcome).ent = frame[p].ent /\ r(outcome).new = frame[p].new
      /\ r(outcome).level = frame[p].level /\ r(outcome).buf = frame[p].buf
      /\ r(outcome).observed = frame[p].observed
      /\ r(outcome).hooks = frame[p].hooks
  BY <1>0 DEF Frame
<1> HIDE DEF r
<1>7. MutexTypeOK' /\ "putBuffer" \in Labels /\ content' \in [Buffers -> Seq(Line)]
  BY <1>0, <1>1, <1>3 DEF TypeOK, MutexTypeOK, Unlock, Labels
<1>8. TypeOK'
  BY <1>1, <1>3, <1>5, <1>6, <1>7, MoveType
<1>9. /\ frame' \in [Procs -> Frame] /\ frame'[p] = r(outcome)
      /\ \A q \in Procs : q # p => frame'[q] = frame[q]
  BY <1>0, <1>3, <1>6, FrameStep
<1>10. LocalInv' /\ OwnInv'
  BY <1>1, <1>2, <1>6, <1>7, <1>9, MoveKeeps DEF HasEnt, HasNew, HasBuf, GoTo, poolVars
<1> QED BY <1>8, <1>10 DEF IInv

LEMMA PutBufferKeeps ==
  ASSUME IInv, NEW p \in Procs, PutBuffer(p)
  PROVE  IInv'
<1>0. TypeOK /\ LocalInv /\ OwnInv /\ frame[p] \in Frame
  BY DEF IInv, TypeOK
<1> DEFINE e == frame[p].new
           b == frame[p].buf
           panicLog == ~frame[p].panics /\ frame[p].level <= PanicLevel
<1>1. /\ pc[p] = "putBuffer"
      /\ heap' = [heap EXCEPT ![e].buffer = NoBuffer]
      /\ content' = [content EXCEPT ![b] = <<>>]
      /\ freeBufs' = [freeBufs EXCEPT ![frame[p].pool] = @ \cup {b}]
      /\ retained' = IF panicLog THEN retained \cup {e} ELSE retained
      /\ UNCHANGED <<mutexVars, configVars, entryPool, users, calls, sent, exited>>
  BY DEF PutBuffer, Steps, Emptied, Repooled, configVars, mutexVars
<1>2. e \in Entries /\ frame[p].ent \in Entries /\ b \in Buffers
      /\ frame[p].pool \in Pools
  BY <1>0, <1>1 DEF LocalInv, Local, HasEnt, HasNew, HasBuf, Frame
<1>3. entryPool \subseteq Entries /\ users \subseteq Entries /\ retained \subseteq Entries
  BY <1>0 DEF TypeOK
<1> DEFINE z == [heap[e] EXCEPT !.buffer = NoBuffer]
<1>4. z \in Entry /\ z.pooled = heap[e].pooled
  <2>1. heap[e] \in Entry
    BY <1>0, <1>2 DEF TypeOK
  <2> QED BY <2>1 DEF Entry
<1>5. heap' = [heap EXCEPT ![e] = z]
  BY <1>1
<1> HIDE DEF z
<1>6. /\ heap' \in [Entries -> Entry]
      /\ \A x \in Entries : x # e => heap'[x] = heap[x]
      /\ \A x \in Entries : heap'[x].pooled = heap[x].pooled
  BY <1>0, <1>2, <1>4, <1>5 DEF TypeOK
<1>7. content' \in [Buffers -> Seq(Line)] /\ freeBufs' \in [Pools -> SUBSET Buffers]
  <2> DEFINE B == freeBufs[frame[p].pool] \cup {b}
  <2>1. <<>> \in Seq(Line) /\ B \in SUBSET Buffers
    BY <1>0, <1>2 DEF TypeOK
  <2>2. content' \in [Buffers -> Seq(Line)]
    BY <1>0, <1>1, <2>1 DEF TypeOK
  <2>3. freeBufs' = [freeBufs EXCEPT ![frame[p].pool] = B]
    BY <1>1
  <2> HIDE DEF B
  <2>4. freeBufs' \in [Pools -> SUBSET Buffers]
    BY <1>0, <2>1, <2>3 DEF TypeOK
  <2> QED BY <2>2, <2>4
<1>8. /\ retained' \subseteq Entries
      /\ \A x \in retained' : x \in retained \/ ~heap[x].pooled
  <2>1. panicLog => ~heap[e].pooled
    <3>1. frame[p].level <= PanicLevel => ~(frame[p].level > PanicLevel)
      BY <1>0 DEF Frame, Levels, PanicLevel
    <3> QED BY <1>0, <1>2, <3>1 DEF OwnInv, NewOwned
  <2> QED BY <1>1, <1>2, <1>3, <2>1
<1>9. /\ \A x \in entryPool' : heap'[x].pooled
      /\ \A x \in users' \cup retained' : ~heap'[x].pooled
  BY <1>0, <1>1, <1>3, <1>6, <1>8 DEF OwnInv
<1>10. \A q \in Procs \ {p} : ~Holds(q, e)
  BY <1>2, NewExclusive
<1>11. \A q \in Procs \ {p}, x \in Entries : Holds(q, x) =>
           /\ heap'[x].pooled = heap[x].pooled /\ heap'[x].buffer = heap[x].buffer
           /\ x \in users' <=> x \in users
           /\ x \in entryPool' <=> x \in entryPool
  BY <1>1, <1>6, <1>10
<1>12. CASE Return(p) \/ Finish(p)
  <2>1. TypeOK'
    BY <1>0, <1>1, <1>6, <1>7, <1>8, <1>12, ReturnType
       DEF TypeOK, MutexTypeOK, mutexVars, configVars
  <2>2. LocalInv' /\ OwnInv'
    BY <1>9, <1>11, <1>12, ReturnKeepsAll
  <2> QED BY <2>1, <2>2 DEF IInv
<1>13. CASE ~(Return(p) \/ Finish(p))
  <2>1. /\ Pooled(p) /\ GoTo(p, "release")
        /\ frame' = [frame EXCEPT ![p].new = NoEntry, ![p].buf = NoBuffer]
    BY <1>13 DEF PutBuffer
  <2> DEFINE r == [frame[p] EXCEPT !.new = NoEntry, !.buf = NoBuffer]
  <2>2. r \in Frame /\ r.ent = frame[p].ent /\ r.new = NoEntry
    BY <1>0 DEF Frame
  <2>3. frame' = [frame EXCEPT ![p] = r]
    BY <2>1
  <2> HIDE DEF r
  <2>4. /\ pc' \in [Procs -> Labels] /\ pc'[p] = "release"
        /\ frame' \in [Procs -> Frame] /\ frame'[p] = r
        /\ \A q \in Procs : q # p => pc'[q] = pc[q] /\ frame'[q] = frame[q]
    BY <1>0, <2>1, <2>2, <2>3, PcStep, FrameStep DEF Labels
  <2>5. TypeOK'
    BY <1>0, <1>1, <1>6, <1>7, <1>8, <2>4
       DEF TypeOK, MutexTypeOK, mutexVars, configVars
  <2>6. OthersKept(p) /\ TakesFresh(p)
    BY <1>11, <2>2, <2>4, ConstantsAssumption DEF OthersKept, TakesFresh, Holds
  <2>7. Local(p)'
    BY <1>2, <1>6, <2>1, <2>2, <2>4, ConstantsAssumption
       DEF Local, HasEnt, HasNew, HasBuf, Pooled
  <2>8. EntOwned(p)' /\ NewOwned(p)'
    <3>1. NewOwned(p)'
      BY <2>2, <2>4, ConstantsAssumption DEF NewOwned
    <3>2. EntOwned(p)
      BY <1>0 DEF OwnInv
    <3>3. \A x \in Entries \ users : \A q \in Procs \ {p} : ~Holds(q, x) => ~Holds(q, x)'
      BY <2>4 DEF Holds
    <3>4. EntOwned(p)'
      BY <1>1, <1>6, <2>2, <2>4, <3>2, <3>3 DEF EntOwned
    <3> QED BY <3>1, <3>4
  <2>9. \A q \in Procs : Local(q)' /\ EntOwned(q)' /\ NewOwned(q)'
    BY <2>6, <2>7, <2>8, OthersKeep
  <2> QED BY <1>9, <2>5, <2>9 DEF IInv, LocalInv, OwnInv
<1> QED BY <1>12, <1>13

LEMMA StepKeeps ==
  ASSUME IInv, NEW p \in Procs, Step(p)
  PROVE  IInv'
  BY LoadConsoleKeeps, LoadHookKeeps, NewEntryKeeps, DeriveKeeps, ReleaseKeeps,
     LockLogKeeps, WaitLogKeeps, SnapshotKeeps, PrepareKeeps, FireHookKeeps,
     GetBufferKeeps, FormatKeeps, LockOutKeeps, WaitOutKeeps, WriteKeeps,
     PutBufferKeeps, ExitKeeps
  DEF Step

------------------------------------------------------------------------------
(* Configuration.                                                           *)

\* What no setter touches: a setter only adds to the history of the frames.
ConfigFrame == /\ UNCHANGED <<poolVars, heap, content, users, retained, pc, calls, sent,
                              exited>>
               /\ frame' \in [Procs -> Frame]
               /\ \A p \in Procs : /\ frame'[p].ent = frame[p].ent
                                   /\ frame'[p].new = frame[p].new
                                   /\ frame'[p].buf = frame[p].buf
                                   /\ frame'[p].level = frame[p].level
                                   /\ frame'[p].observed = frame[p].observed
                                   /\ frame'[p].hooks = frame[p].hooks

LEMMA ConfigFrameKeeps ==
  ASSUME IInv, ConfigFrame, MutexTypeOK',
         consoleLevel' \in Levels, hookLevel' \in Levels, stores' \in Seq(Levels),
         hooks' \in [Levels -> Seq(Hooks)], bufferPool' \in Pools,
         reportCaller' \in BOOLEAN, out' \in Outs, configs' \in Nat
  PROVE  IInv'
<1>1. TypeOK'
  BY DEF IInv, ConfigFrame, TypeOK, poolVars
<1>2. LocalInv'
  BY DEF IInv, ConfigFrame, LocalInv, Local, poolVars
<1>3. OwnInv'
  <2>1. /\ entryPool' = entryPool /\ heap' = heap /\ users' = users
        /\ retained' = retained
        /\ \A q \in Procs : /\ frame'[q].ent = frame[q].ent /\ frame'[q].new = frame[q].new
                            /\ frame'[q].level = frame[q].level
                            /\ frame'[q].observed = frame[q].observed
    BY DEF ConfigFrame, poolVars
  <2>2. \A q \in Procs, e \in Entries : Holds(q, e)' <=> Holds(q, e)
    BY <2>1 DEF Holds
  <2>3. ASSUME NEW q \in Procs
        PROVE  EntOwned(q)' /\ NewOwned(q)'
    <3>1. EntOwned(q) /\ NewOwned(q)
      BY DEF IInv, OwnInv
    <3>2. EntOwned(q)'
      BY <2>1, <2>2, <3>1 DEF EntOwned
    <3>3. NewOwned(q)'
      BY <2>1, <2>2, <3>1 DEF NewOwned
    <3> QED BY <3>2, <3>3
  <2> QED BY <2>1, <2>3 DEF IInv, OwnInv
<1> QED BY <1>1, <1>2, <1>3 DEF IInv

LEMMA WitnessFrame ==
  ASSUME IInv, NEW console \in Levels, NEW hook \in Levels, Witness(console, hook),
         UNCHANGED <<poolVars, heap, content, users, retained, pc, calls, sent, exited>>
  PROVE  ConfigFrame
<1> DEFINE s(p) == [frame[p] EXCEPT !.seen.console = @ \cup {console},
                                    !.seen.hook = @ \cup {hook}]
           r(p) == IF pc[p] = "idle" THEN frame[p] ELSE s(p)
<1>1. ASSUME NEW p \in Procs
      PROVE  /\ r(p) \in Frame
             /\ r(p).ent = frame[p].ent /\ r(p).new = frame[p].new
             /\ r(p).buf = frame[p].buf /\ r(p).level = frame[p].level
             /\ r(p).observed = frame[p].observed /\ r(p).hooks = frame[p].hooks
  <2>1. frame[p] \in Frame
    BY DEF IInv, TypeOK
  <2>2. /\ s(p) \in Frame
        /\ s(p).ent = frame[p].ent /\ s(p).new = frame[p].new
        /\ s(p).buf = frame[p].buf /\ s(p).level = frame[p].level
        /\ s(p).observed = frame[p].observed /\ s(p).hooks = frame[p].hooks
    BY <2>1 DEF Frame
  <2> QED BY <2>1, <2>2
<1>2. frame' = [p \in Procs |-> r(p)]
  BY DEF Witness
<1> HIDE DEF r
<1> QED BY <1>1, <1>2 DEF ConfigFrame

LEMMA SetLevelKeeps ==
  ASSUME IInv, SetLevel
  PROVE  IInv'
<1>0. TypeOK
  BY DEF IInv
<1>1. /\ UNCHANGED <<mutexVars, poolVars, heap, content, users, retained, pc, calls, sent,
                     exited>>
      /\ UNCHANGED <<hookLevel, hooks, bufferPool, reportCaller, out>>
      /\ configs' = configs + 1
  BY DEF SetLevel, Configure
<1>2. PICK l \in SetLevels : \E rest \in {<<l>>} \cup {<<l, h>> : h \in SetLevels} :
        consoleLevel' = l /\ stores' = rest /\ Witness(l, hookLevel)
  BY DEF SetLevel
<1>3. l \in Levels /\ stores' \in Seq(Levels) /\ hookLevel \in Levels
  <2>1. l \in Levels /\ SetLevels \subseteq Levels
    BY ConstantsAssumption
  <2>2. PICK rest \in {<<l>>} \cup {<<l, h>> : h \in SetLevels} : stores' = rest
    BY <1>2
  <2>3. CASE rest = <<l>>
    BY <1>0, <2>1, <2>2, <2>3 DEF TypeOK
  <2>4. ASSUME NEW h \in SetLevels, rest = <<l, h>>
        PROVE  stores' \in Seq(Levels)
    BY <2>1, <2>2, <2>4
  <2> QED BY <1>0, <2>1, <2>2, <2>3, <2>4 DEF TypeOK
<1>4. ConfigFrame
  BY <1>1, <1>2, <1>3, WitnessFrame
<1> QED BY <1>0, <1>1, <1>2, <1>3, <1>4, ConfigFrameKeeps DEF TypeOK, MutexTypeOK, mutexVars

LEMMA StoreHookLevelKeeps ==
  ASSUME IInv, StoreHookLevel
  PROVE  IInv'
<1>0. TypeOK /\ stores # <<>> /\ stores \in Seq(Levels)
  BY DEF IInv, StoreHookLevel, TypeOK
<1>1. /\ UNCHANGED <<mutexVars, poolVars, heap, content, users, retained, pc, calls, sent,
                     exited>>
      /\ UNCHANGED <<consoleLevel, hooks, bufferPool, reportCaller, out, configs>>
      /\ hookLevel' = Head(stores) /\ stores' = Tail(stores)
      /\ Witness(consoleLevel, Head(stores))
  BY DEF StoreHookLevel
<1>2. Head(stores) \in Levels /\ Tail(stores) \in Seq(Levels) /\ consoleLevel \in Levels
  BY <1>0, HeadTailProperties DEF TypeOK
<1>3. ConfigFrame
  BY <1>1, <1>2, WitnessFrame
<1> QED BY <1>0, <1>1, <1>2, <1>3, ConfigFrameKeeps DEF TypeOK, MutexTypeOK, mutexVars

\* The hooks stay a list per level.
LEMMA AddedType ==
  ASSUME NEW hs \in [Levels -> Seq(Hooks)], NEW h \in Hooks
  PROVE  Added(hs, h) \in [Levels -> Seq(Hooks)]
<1>1. ASSUME NEW level \in Levels
      PROVE  (IF level \in HookLevels[h] THEN Append(hs[level], h) ELSE hs[level])
               \in Seq(Hooks)
  BY AppendProperties
<1> QED BY <1>1 DEF Added

LEMMA LockedSetterKeeps ==
  ASSUME IInv, NEW op, LockedSetter(op), hooks' \in [Levels -> Seq(Hooks)],
         bufferPool' \in Pools, reportCaller' \in BOOLEAN, out' \in Outs
  PROVE  IInv'
<1>1. /\ UNCHANGED <<mutexVars, poolVars, heap, content, users, retained, pc, calls, sent,
                     exited>>
      /\ UNCHANGED <<consoleLevel, hookLevel, stores, frame>> /\ configs' = configs + 1
  BY DEF LockedSetter, Configure
<1>2. ConfigFrame
  BY <1>1 DEF ConfigFrame, IInv, TypeOK
<1> QED BY <1>1, <1>2, ConfigFrameKeeps DEF IInv, TypeOK, MutexTypeOK, mutexVars

LEMMA ConfigKeeps ==
  ASSUME IInv, Config
  PROVE  IInv'
<1>0. TypeOK
  BY DEF IInv
<1>1. CASE SetLevel
  BY <1>1, SetLevelKeeps
<1>2. CASE StoreHookLevel
  BY <1>2, StoreHookLevelKeeps
<1>3. CASE AddHook
  <2>1. hooks' \in [Levels -> Seq(Hooks)]
    BY <1>0, <1>3, AddedType DEF AddHook, TypeOK
  <2> QED BY <1>0, <1>3, <2>1, LockedSetterKeeps DEF AddHook, TypeOK
<1>4. CASE ReplaceHooks
  <2>1. NoHooks \in [Levels -> Seq(Hooks)]
    BY EmptySeq DEF NoHooks
  <2>2. hooks' \in [Levels -> Seq(Hooks)]
    BY <1>4, <2>1, AddedType DEF ReplaceHooks
  <2> QED BY <1>0, <1>4, <2>2, LockedSetterKeeps DEF ReplaceHooks, TypeOK
<1>5. CASE SetBufferPool
  BY <1>0, <1>5, LockedSetterKeeps DEF SetBufferPool, TypeOK
<1>6. CASE SetReportCaller
  BY <1>0, <1>6, LockedSetterKeeps DEF SetReportCaller, TypeOK
<1>7. CASE SetOutput
  BY <1>0, <1>7, LockedSetterKeeps DEF SetOutput, TypeOK
<1>8. CASE SetNoLock
  <2>1. /\ UNCHANGED <<configVars, poolVars, heap, content, users, retained, pc, frame,
                       calls, sent, exited>>
        /\ MutexTypeOK'
    BY <1>0, <1>8 DEF SetNoLock, Disable, TypeOK, MutexTypeOK
  <2>2. ConfigFrame
    BY <1>0, <2>1 DEF ConfigFrame, TypeOK
  <2> QED BY <1>0, <2>1, <2>2, ConfigFrameKeeps DEF TypeOK, configVars
<1> QED BY <1>1, <1>2, <1>3, <1>4, <1>5, <1>6, <1>7, <1>8 DEF Config

------------------------------------------------------------------------------
(* The theorems.                                                            *)

LEMMA EntryInvariant == Spec => []IInv
<1>1. Init => IInv
  BY InitInv
<1>2. IInv /\ [Next]_vars => IInv'
  <2> SUFFICES ASSUME IInv, [Next]_vars PROVE IInv'
    OBVIOUS
  <2>1. CASE UNCHANGED vars
    <3>1. UNCHANGED <<lock, disabled, consoleLevel, hookLevel, stores, hooks, bufferPool,
                      reportCaller, out, configs, entryPool, freeBufs, heap, content,
                      users, retained, pc, frame, calls, sent, exited>>
      BY <2>1 DEF vars, mutexVars, configVars, poolVars
    <3> QED BY <3>1 DEF IInv, TypeOK, MutexTypeOK, LocalInv, Local, OwnInv, EntOwned,
                        NewOwned, Holds
  <2>2. CASE Next
    BY <2>2, CallKeeps, StepKeeps, ConfigKeeps DEF Next
  <2> QED BY <2>1, <2>2
<1> QED BY <1>1, <1>2, PTL DEF Spec

\* Every variable keeps to its type, whatever the goroutines, hooks and setters do.
THEOREM TypeCorrect == Spec => []TypeOK
<1>1. IInv => TypeOK
  BY DEF IInv
<1> QED BY <1>1, EntryInvariant, PTL

\* For any number of goroutines, entries and hooks, a pooled entry has one user at a
\* time, none at rest, and never reaches the application or a hook.
THEOREM PooledEntriesAreOwned == Spec => []EntryOwnership
<1>1. IInv => EntryOwnership
  <2> SUFFICES ASSUME IInv PROVE EntryOwnership
    OBVIOUS
  <2>0. TypeOK /\ OwnInv
    BY DEF IInv
  <2>1. entryPool \subseteq Entries /\ users \subseteq Entries /\ retained \subseteq Entries
    BY <2>0 DEF TypeOK
  <2>2. entryPool \cap (users \cup retained) = {}
    BY <2>0 DEF OwnInv
  <2>3. \A e \in users \cup retained : ~heap[e].pooled
    BY <2>0 DEF OwnInv
  <2>4. ASSUME NEW p \in Procs, NEW e \in {frame[p].ent, frame[p].new} \ {NoEntry}
        PROVE  /\ e \notin entryPool
               /\ e \notin users =>
                    \A q \in Procs \ {p} : e \notin {frame[q].ent, frame[q].new}
    <3>1. e \in Entries
      BY <2>0 DEF TypeOK, Frame
    <3>2. CASE e = frame[p].ent
      BY <2>0, <2>2, <3>1, <3>2 DEF OwnInv, EntOwned, Holds
    <3>3. CASE e = frame[p].new
      BY <3>1, <3>3, NewExclusive DEF Holds
    <3> QED BY <3>2, <3>3
  <2> QED BY <2>2, <2>3, <2>4 DEF EntryOwnership
<1> QED BY <1>1, EntryInvariant, PTL
==============================================================================
