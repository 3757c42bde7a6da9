-------------------------------- MODULE Logger --------------------------------
(***************************************************************************)
(* One logrus Logger used by several goroutines: the whole path of a       *)
(* logging call (Logger.Info, Entry.Info, ... -> Entry.log -> Entry.write) *)
(* with the entry pool, the buffer pools, the hooks and the mutex, against *)
(* an application that reconfigures the logger at any moment.              *)
(*                                                                         *)
(* A process is a call frame: the outermost logging call of a goroutine,   *)
(* or the call a hook of another frame makes while it is being fired       *)
(* (Parent).  Entries and buffers are heap objects named by ids, because   *)
(* what can go wrong is aliasing: who still holds a pointer to what.       *)
(* A field of an entry is abstracted to the number of the call that set it *)
(* (0 is the zero value), Data to the set of who put a key there.          *)
(***************************************************************************)
EXTENDS MutexWrap, Naturals, Sequences, FiniteSets

CONSTANTS
  Parent,        \* [Procs -> Procs \cup {NoProc}]: the frame whose hook makes the call
  Entries,       \* ids of Entry objects
  NoEntry,
  Buffers,       \* ids of bytes.Buffer objects
  NoBuffer,
  Pools,         \* BufferPool values; the first one is the package default
  DefaultPool,
  Hooks,         \* Hook values
  HookLevels,    \* [Hooks -> SUBSET (0..6)]: Levels() of each hook
  ModifyHooks,   \* hooks whose Fire writes a key into entry.Data
  RetainHooks,   \* hooks that keep the *Entry after Fire returns
  Outs,          \* io.Writers for Logger.Out
  DefaultOut,    \* os.Stdout
  InitHooks,     \* what Logger.Hooks may be when the goroutines start
  LogLevels,     \* levels the application logs at
  SetLevels,     \* levels the application passes to SetLevel
  Kinds,         \* ways the application calls the logger
  ConfigOps,     \* setters the application uses
  Outcomes,      \* what hooks, formatter and Out do: "ok", "err", "panic"
  LineFeeds,     \* whether Message may end in a line feed that the formatter cuts off
  NoLockMode,    \* when SetNoLock may be called: "never", "quiescent", "anytime"
  MaxCalls,      \* bound: logging calls in a behaviour
  MaxWith,       \* bound: entries made by WithField and friends
  MaxConfig      \* bound: configuration calls in a behaviour

PanicLevel == 0
FatalLevel == 1
WarnLevel  == 3
InfoLevel  == 4
DebugLevel == 5
Levels     == 0..6

AllKinds     == {"logger", "print", "warnf", "entry", "with"}
AllConfigOps == {"level", "addHook", "replaceHooks", "pool", "caller", "out"}

ASSUME ConstantsAssumption ==
  /\ Parent \in [Procs -> Procs \cup {NoProc}]
  /\ NoEntry \notin Entries
  /\ NoBuffer \notin Buffers
  /\ Hooks \cap Outs = {}
  /\ DefaultPool \in Pools
  /\ DefaultOut \in Outs
  /\ HookLevels \in [Hooks -> SUBSET Levels]
  /\ ModifyHooks \subseteq Hooks /\ RetainHooks \subseteq Hooks
  /\ InitHooks \subseteq [Levels -> Seq(Hooks)]
  /\ LogLevels \subseteq Levels /\ SetLevels \subseteq Levels
  /\ Kinds \subseteq AllKinds /\ ConfigOps \subseteq AllConfigOps
  /\ Outcomes \subseteq {"ok", "err", "panic"}
  /\ LineFeeds \subseteq BOOLEAN /\ LineFeeds # {}
  /\ MaxCalls \in Nat /\ MaxWith \in Nat /\ MaxConfig \in Nat

VARIABLES
  consoleLevel,  \* Logger.ConsoleLevel
  hookLevel,     \* Logger.HookLevel
  stores,        \* the stores a SetLevel in progress has still to do on HookLevel
  hooks,         \* Logger.Hooks: the hooks of each level
  bufferPool,    \* what getBufferPool returns
  reportCaller,  \* Logger.ReportCaller
  out,           \* Logger.Out
  configs,       \* number of configuration calls so far
  entryPool,     \* Logger.entryPool
  freeBufs,      \* [Pools -> SUBSET Buffers]: the buffers at rest in each pool
  heap,          \* [Entries -> Entry]
  content,       \* [Buffers -> Seq(Line)]: the lines a buffer holds
  users,         \* entries the application got from WithField and friends
  retained,      \* entries a hook or a recover() still points to
  pc,            \* where each frame is
  frame,         \* the local variables of each frame; `seen' is history: the
                 \* levels in force at some time since the call began
  calls,         \* number of logging calls so far
  sent,          \* history: what hooks and Out received, in order
  exited         \* os.Exit was called

configVars == <<consoleLevel, hookLevel, stores, hooks, bufferPool,
                reportCaller, out, configs>>
poolVars   == <<entryPool, freeBufs>>
vars == <<mutexVars, configVars, poolVars, heap, content, users, retained,
          pc, frame, calls, sent, exited>>

------------------------------------------------------------------------------
(* Values.                                                                  *)

Line  == [msg: Nat, time: Nat, caller: Nat, data: SUBSET {"field", "hook"}]
Entry == [data: SUBSET {"field", "hook"}, msg: Nat, time: Nat, caller: Nat,
          buffer: Buffers \cup {NoBuffer}, consoleLevel: Levels, pooled: BOOLEAN,
          trimmed: BOOLEAN]   \* a formatter has cut the line feed off Message
Frame == [kind: AllKinds, level: Levels, call: Nat,
          ent: Entries \cup {NoEntry}, new: Entries \cup {NoEntry},
          buf: Buffers \cup {NoBuffer}, pool: Pools, out: Outs,
          hooks: Seq(Hooks), observed: BOOLEAN, caller: BOOLEAN, size: Nat,
          panics: BOOLEAN, exits: BOOLEAN,
          seen: [console: SUBSET Levels, hook: SUBSET Levels]]
Delivery == [by: Nat, sink: Hooks \cup Outs, user: BOOLEAN, line: Seq(Line)]
Labels == {"idle", "checkConsole", "checkHook", "newEntry", "derive",
           "lockLog", "waitLog", "snapshot", "prepare", "hook", "getBuffer",
           "format", "lockOut", "waitOut", "write", "putBuffer", "release", "exit"}

ZeroEntry == [data |-> {}, msg |-> 0, time |-> 0, caller |-> 0,
              buffer |-> NoBuffer, consoleLevel |-> PanicLevel, pooled |-> FALSE,
              trimmed |-> FALSE]
IdleFrame == [kind |-> "logger", level |-> PanicLevel, call |-> 0,
              ent |-> NoEntry, new |-> NoEntry, buf |-> NoBuffer,
              pool |-> DefaultPool, out |-> DefaultOut, hooks |-> <<>>,
              observed |-> FALSE, caller |-> FALSE, size |-> 0,
              panics |-> FALSE, exits |-> FALSE,
              seen |-> [console |-> {}, hook |-> {}]]

\* A formatter error leaves a beginning of a line in the buffer.
Partial == [msg |-> 0, time |-> 0, caller |-> 0, data |-> {}]

\* What a line shows of an entry.
LineOf(e) == [msg |-> e.msg, time |-> e.time, caller |-> e.caller, data |-> e.data]

\* Allocation: one object nobody points to.
Fresh(S) == IF S = {} THEN {} ELSE {CHOOSE x \in S : TRUE}

UnusedEntries == {e \in Entries : /\ e \notin entryPool \cup users \cup retained
                                  /\ \A p \in Procs : frame[p].ent # e /\ frame[p].new # e}
UnusedBuffers == {b \in Buffers : /\ \A q \in Pools : b \notin freeBufs[q]
                                  /\ \A p \in Procs : frame[p].buf # b}

NoHooks == [level \in Levels |-> <<>>]

\* LevelHooks.Add appends the hook to the list of each of its levels.
Added(hs, h) == [level \in Levels |-> IF level \in HookLevels[h]
                                      THEN Append(hs[level], h) ELSE hs[level]]

GoTo(p, label) == pc' = [pc EXCEPT ![p] = label]

Return(p) == /\ GoTo(p, "idle")
             /\ frame' = [frame EXCEPT ![p] = IdleFrame]

\* Mutant of Finish: a method of Entry logs, then calls Logln, which logs again.
FinishTwice(p) ==
  IF frame[p].kind = "entry" /\ ~frame[p].exits
  THEN /\ GoTo(p, "checkConsole")
       /\ frame' = [frame EXCEPT ![p].new = NoEntry, ![p].buf = NoBuffer]
  ELSE Return(p)

\* The end of a logging method: Fatal, Fatalf and Fatalln go on to Exit.
Finish(p) == IF frame[p].exits
             THEN /\ GoTo(p, "exit")
                  /\ frame' = [frame EXCEPT ![p].ent = NoEntry, ![p].new = NoEntry,
                                            ![p].buf = NoBuffer]
             ELSE Return(p)

Pooled(p) == frame[p].ent # NoEntry /\ heap[frame[p].ent].pooled

Steps(p, label) == ~exited /\ pc[p] = label

------------------------------------------------------------------------------
(* The logging methods up to Entry.log.                                     *)

MayStart(p) == Parent[p] # NoProc => pc[Parent[p]] = "hook"

\* A logging method is called.  Only Fatal, Fatalf and Fatalln exit; Log and
\* Logf at FatalLevel do not.
Begin(p, kind, level, e) ==
  /\ Steps(p, "idle") /\ MayStart(p)
  /\ kind \in Kinds
  /\ calls < MaxCalls
  /\ calls' = calls + 1
  /\ \E x \in BOOLEAN :
       /\ x => level = FatalLevel
       /\ frame' = [frame EXCEPT ![p] =
            [IdleFrame EXCEPT !.kind = kind, !.level = level, !.call = calls + 1,
               !.ent = e, !.exits = x,
               !.seen = [console |-> {consoleLevel}, hook |-> {hookLevel}]]]
  /\ UNCHANGED <<mutexVars, configVars, poolVars, heap, content, users, retained,
                 sent, exited>>

\* Logger.Info and the other methods that check the level, then take an entry.
LoggerCall(p) == \E level \in LogLevels : Begin(p, "logger", level, NoEntry)
                                         /\ GoTo(p, "checkConsole")

\* Logger.Print, Printf, Println and PrintFn take the entry first.
PrintCall(p) == Begin(p, "print", InfoLevel, NoEntry) /\ GoTo(p, "newEntry")

\* Logger.Warnf checks, takes an entry and calls Entry.Logf, which checks again.
WarnfCall(p) == Begin(p, "warnf", WarnLevel, NoEntry) /\ GoTo(p, "checkConsole")

\* Entry.Info and friends on an entry the application got from WithField.
EntryCall(p) == \E e \in users, level \in LogLevels :
                  Begin(p, "entry", level, e) /\ GoTo(p, "checkConsole")

\* WithField, WithFields, WithError, WithContext: of the logger, through an entry
\* of the pool, or of an entry the application holds.
WithCall(p) ==
  /\ Steps(p, "idle") /\ MayStart(p)
  /\ "with" \in Kinds
  /\ Cardinality(users) + Cardinality({q \in Procs : frame[q].kind = "with"}) < MaxWith
  /\ \E e \in users \cup {NoEntry} :
       /\ frame' = [frame EXCEPT ![p] = [IdleFrame EXCEPT !.kind = "with", !.ent = e]]
       /\ GoTo(p, IF e = NoEntry THEN "newEntry" ELSE "derive")
  /\ UNCHANGED <<mutexVars, configVars, poolVars, heap, content, users, retained,
                 calls, sent, exited>>

\* IsLevelEnabled is true: on to newEntry, or to log() if the entry is there.
Enabled(p) == /\ GoTo(p, IF frame[p].ent = NoEntry THEN "newEntry" ELSE "lockLog")
              /\ UNCHANGED frame

LoadConsole(p) ==
  /\ Steps(p, "checkConsole")
  /\ IF consoleLevel >= frame[p].level
     THEN Enabled(p)
     ELSE GoTo(p, "checkHook") /\ UNCHANGED frame
  /\ UNCHANGED <<mutexVars, configVars, poolVars, heap, content, users, retained,
                 calls, sent, exited>>

LoadHook(p) ==
  /\ Steps(p, "checkHook")
  /\ IF hookLevel >= frame[p].level THEN Enabled(p)
     ELSE IF Pooled(p) THEN GoTo(p, "release") /\ UNCHANGED frame
     ELSE Finish(p)
  /\ UNCHANGED <<mutexVars, configVars, poolVars, heap, content, users, retained,
                 calls, sent, exited>>

\* Mutant of Handed: an entry from the pool keeps the level it was created with.
HandedStale(e) ==
  IF e \in entryPool THEN heap[e]
  ELSE [ZeroEntry EXCEPT !.consoleLevel = consoleLevel, !.pooled = TRUE]

\* The entry newEntry hands out, with the level of now.
Handed(e) == [(IF e \in entryPool THEN heap[e] ELSE ZeroEntry)
              EXCEPT !.consoleLevel = consoleLevel, !.pooled = TRUE]

\* sync.Pool.Get: any entry at rest in the pool, or a new one.
NewEntry(p) ==
  /\ Steps(p, "newEntry")
  /\ \E e \in entryPool \cup Fresh(UnusedEntries) :
       /\ entryPool' = entryPool \ {e}
       /\ heap' = [heap EXCEPT ![e] = Handed(e)]
       /\ frame' = [frame EXCEPT ![p].ent = e]
  /\ GoTo(p, CASE frame[p].kind = "logger" -> "lockLog"
               [] frame[p].kind = "with"   -> "derive"
               [] OTHER                    -> "checkConsole")
  /\ UNCHANGED <<mutexVars, configVars, freeBufs, content, users, retained, calls,
                 sent, exited>>

\* Entry.WithFields: a new entry with a copy of Data and the new fields; its
\* levels keep their zero value.
Derive(p) ==
  /\ Steps(p, "derive")
  /\ \E e \in Fresh(UnusedEntries) :
       /\ heap' = [heap EXCEPT ![e] =
                    [ZeroEntry EXCEPT !.data = heap[frame[p].ent].data \cup {"field"}]]
       /\ users' = users \cup {e}
  /\ IF Pooled(p) THEN GoTo(p, "release") /\ UNCHANGED frame ELSE Return(p)
  /\ UNCHANGED <<mutexVars, configVars, poolVars, content, retained, calls, sent,
                 exited>>

\* Mutants of Cleared: the time, or the caller, of the last line stays.
ClearedButTime(e) == [e EXCEPT !.data = {}, !.msg = 0, !.trimmed = FALSE, !.caller = 0,
                               !.buffer = NoBuffer]
ClearedButCaller(e) == [e EXCEPT !.data = {}, !.msg = 0, !.trimmed = FALSE, !.time = 0,
                                 !.buffer = NoBuffer]

\* releaseEntry clears every field that logging touches.
Cleared(e) == [e EXCEPT !.data = {}, !.msg = 0, !.trimmed = FALSE, !.time = 0,
                        !.caller = 0, !.buffer = NoBuffer]

Release(p) ==
  /\ Steps(p, "release")
  /\ LET e == frame[p].ent IN
       /\ heap' = [heap EXCEPT ![e] = Cleared(@)]
       /\ entryPool' = entryPool \cup {e}
  /\ Finish(p)
  /\ UNCHANGED <<mutexVars, configVars, freeBufs, content, users, retained, calls,
                 sent, exited>>

\* Logger.Exit: os.Exit, or an ExitFunc that returns.
Exit(p) ==
  /\ Steps(p, "exit")
  /\ exited' \in BOOLEAN
  /\ Return(p)
  /\ UNCHANGED <<mutexVars, configVars, poolVars, heap, content, users, retained,
                 calls, sent>>

------------------------------------------------------------------------------
(* Entry.log and Entry.write.                                               *)

\* Mutant of Lock: the flag is read the wrong way round.
LockInverted(p, from, wait, to) ==
  /\ Steps(p, from)
  /\ GoTo(p, IF disabled THEN wait ELSE to)
  /\ UNCHANGED mutexVars

\* The beginning of mu.Lock() in log and in write.
Lock(p, from, wait, to) ==
  /\ Steps(p, from)
  /\ GoTo(p, IF disabled THEN to ELSE wait)
  /\ UNCHANGED mutexVars

\* Lock before reading the configuration: the flag, then the inner mutex.
LockLog(p) ==
  /\ Lock(p, "lockLog", "waitLog", "snapshot")
  /\ UNCHANGED <<configVars, poolVars, heap, content, users, retained, frame, calls,
                 sent, exited>>

WaitLog(p) ==
  /\ Steps(p, "waitLog")
  /\ Acquire(p)
  /\ GoTo(p, "snapshot")
  /\ UNCHANGED <<configVars, poolVars, heap, content, users, retained, frame, calls,
                 sent, exited>>

\* Mutant of Observed: the level of the console decides for the hooks too.
ObservedByConsole(p) == consoleLevel >= frame[p].level /\ hooks # NoHooks

Observed(p) == hookLevel >= frame[p].level /\ hooks # NoHooks

\* Mutant of EndSnapshot: the mutex is kept while the hooks are fired.
HoldForHooks(p) == IF Observed(p) THEN UNCHANGED mutexVars ELSE Unlock

EndSnapshot(p) == Unlock

\* The configuration is read in one critical section; the hooks are copied only
\* when they can fire at this level.
Snapshot(p) ==
  /\ Steps(p, "snapshot")
  /\ frame' = [frame EXCEPT ![p].caller = reportCaller, ![p].pool = bufferPool,
                            ![p].observed = Observed(p),
                            ![p].hooks = IF Observed(p) THEN hooks[frame[p].level]
                                                        ELSE <<>>]
  /\ EndSnapshot(p)
  /\ GoTo(p, "prepare")
  /\ UNCHANGED <<configVars, poolVars, heap, content, users, retained, calls, sent,
                 exited>>

\* Mutants of InPlace: a condition on the reuse of the entry is forgotten.
InPlaceAny(p) == frame[p].level > PanicLevel /\ ~frame[p].observed
InPlaceObserved(p) == Pooled(p) /\ frame[p].level > PanicLevel
InPlacePanic(p) == Pooled(p) /\ ~frame[p].observed

InPlace(p) == Pooled(p) /\ frame[p].level > PanicLevel /\ ~frame[p].observed

\* The entry of this log line: the pooled entry itself, or a copy (Dup); then its
\* time, message and caller.
Stamped(e, p) == [e EXCEPT !.time = IF @ = 0 THEN frame[p].call ELSE @,
                           !.msg = frame[p].call, !.trimmed = FALSE,
                           !.caller = IF frame[p].caller THEN frame[p].call ELSE @]

Dup(e) == [ZeroEntry EXCEPT !.data = e.data, !.time = e.time,
                            !.consoleLevel = consoleLevel]

Prepare(p) ==
  /\ Steps(p, "prepare")
  /\ LET entry == frame[p].ent IN
     \E e \in (IF InPlace(p) THEN {entry} ELSE Fresh(UnusedEntries)) :
       /\ heap' = [heap EXCEPT ![e] =
                    Stamped(IF e = entry THEN @ ELSE Dup(heap[entry]), p)]
       /\ frame' = [frame EXCEPT ![p].new = e]
  /\ GoTo(p, IF frame[p].hooks = <<>> THEN "getBuffer" ELSE "hook")
  /\ UNCHANGED <<mutexVars, configVars, poolVars, content, users, retained, calls,
                 sent, exited>>

\* One hook fires, without the mutex; the calls it makes itself have returned.
\* The first error ends the round, a panic leaves log() before its defer.
FireHook(p) ==
  /\ Steps(p, "hook")
  /\ \A q \in Procs : Parent[q] = p => pc[q] = "idle"
  /\ LET h == Head(frame[p].hooks)
         e == frame[p].new
     IN  /\ sent' = Append(sent, [by |-> frame[p].call, sink |-> h,
                                  user |-> ~Pooled(p), line |-> <<LineOf(heap[e])>>])
         /\ heap' = IF h \in ModifyHooks
                    THEN [heap EXCEPT ![e].data = @ \cup {"hook"}] ELSE heap
         /\ retained' = IF h \in RetainHooks THEN retained \cup {e} ELSE retained
  /\ \/ /\ "ok" \in Outcomes
        /\ frame' = [frame EXCEPT ![p].hooks = Tail(@)]
        /\ GoTo(p, IF Len(frame[p].hooks) = 1 THEN "getBuffer" ELSE "hook")
     \/ /\ "err" \in Outcomes
        /\ frame' = [frame EXCEPT ![p].hooks = <<>>]
        /\ GoTo(p, "getBuffer")
     \/ /\ "panic" \in Outcomes
        /\ Return(p)
  /\ UNCHANGED <<mutexVars, configVars, poolVars, content, users, calls, exited>>

\* Mutant of Emptied: the buffer keeps what the last call wrote.
NotEmptied(b) == content

Emptied(b) == [content EXCEPT ![b] = <<>>]

\* A buffer of the pool the snapshot chose, or a new one, emptied.
GetBuffer(p) ==
  /\ Steps(p, "getBuffer")
  /\ \E b \in freeBufs[frame[p].pool] \cup Fresh(UnusedBuffers) :
       /\ freeBufs' = [freeBufs EXCEPT ![frame[p].pool] = @ \ {b}]
       /\ content' = Emptied(b)
       /\ heap' = [heap EXCEPT ![frame[p].new].buffer = b]
       /\ frame' = [frame EXCEPT ![p].buf = b]
  /\ GoTo(p, IF heap[frame[p].new].consoleLevel >= frame[p].level
             THEN "format" ELSE "putBuffer")
  /\ UNCHANGED <<mutexVars, configVars, entryPool, users, retained, calls, sent,
                 exited>>

\* Formatter.Format, outside the lock, appends to entry.Buffer and returns the
\* bytes the buffer then holds.  printColored of the TextFormatter assigns a Message
\* without its line feed to the entry.
Trims(e) == \E cut \in LineFeeds : heap' = [heap EXCEPT ![e].trimmed = @ \/ cut]

Format(p) ==
  /\ Steps(p, "format")
  /\ LET e == frame[p].new
         b == heap[e].buffer
     IN /\ Trims(e)
        /\ \/ /\ "ok" \in Outcomes
              /\ content' = [content EXCEPT ![b] = Append(@, LineOf(heap[e]))]
              /\ frame' = [frame EXCEPT ![p].size = Len(content[b]) + 1]
              /\ GoTo(p, "lockOut")
           \/ \E outcome \in Outcomes \ {"ok"} :
                /\ content' = [content EXCEPT ![b] = Append(@, Partial)]
                /\ frame' = [frame EXCEPT ![p].panics = (outcome = "panic")]
                /\ GoTo(p, "putBuffer")
  /\ UNCHANGED <<mutexVars, configVars, poolVars, users, retained, calls, sent, exited>>

\* Lock before writing, and the read of Logger.Out under it.
LockOut(p) ==
  /\ Lock(p, "lockOut", "waitOut", "write")
  /\ frame' = IF disabled THEN [frame EXCEPT ![p].out = out] ELSE frame
  /\ UNCHANGED <<configVars, poolVars, heap, content, users, retained, calls, sent,
                 exited>>

WaitOut(p) ==
  /\ Steps(p, "waitOut")
  /\ Acquire(p)
  /\ frame' = [frame EXCEPT ![p].out = out]
  /\ GoTo(p, "write")
  /\ UNCHANGED <<configVars, poolVars, heap, content, users, retained, calls, sent,
                 exited>>

\* What Format returned is a slice of the buffer.
Serialized(p) == LET s == content[frame[p].buf]
                 IN  SubSeq(s, 1, IF frame[p].size <= Len(s) THEN frame[p].size
                                                             ELSE Len(s))

\* Mutant of EndWrite: Unlock is not deferred, a panic of Out skips it.
EndWriteUnlessPanic(outcome) == IF outcome = "panic" THEN UNCHANGED mutexVars ELSE Unlock

EndWrite(outcome) == Unlock

\* Out.Write and the deferred Unlock.
Write(p) ==
  /\ Steps(p, "write")
  /\ \E outcome \in Outcomes :
       /\ sent' = IF outcome = "ok"
                  THEN Append(sent, [by |-> frame[p].call, sink |-> frame[p].out,
                                     user |-> ~Pooled(p), line |-> Serialized(p)])
                  ELSE sent
       /\ frame' = [frame EXCEPT ![p].panics = (outcome = "panic")]
       /\ EndWrite(outcome)
  /\ GoTo(p, "putBuffer")
  /\ UNCHANGED <<configVars, poolVars, heap, content, users, retained, calls, exited>>

\* Mutants of Repooled: the buffer goes to the pool of now; the entry is cut off from
\* its buffer first and nothing is returned.
RepooledNow(p) == [freeBufs EXCEPT ![bufferPool] = @ \cup {frame[p].buf}]
RepooledNil(p) == [freeBufs EXCEPT ![frame[p].pool] = @ \cup {NoBuffer}]

Repooled(p) == [freeBufs EXCEPT ![frame[p].pool] = @ \cup {frame[p].buf}]

\* The deferred function of log(): the buffer goes back to its pool.  A panic of
\* the formatter or of Out goes on; at PanicLevel the entry is the panic value.
PutBuffer(p) ==
  /\ Steps(p, "putBuffer")
  /\ LET e == frame[p].new
         b == frame[p].buf
         panicLog == ~frame[p].panics /\ frame[p].level <= PanicLevel
     IN  /\ heap' = [heap EXCEPT ![e].buffer = NoBuffer]
         /\ content' = Emptied(b)
         /\ freeBufs' = Repooled(p)
         /\ retained' = IF panicLog THEN retained \cup {e} ELSE retained
         /\ IF frame[p].panics \/ panicLog THEN Return(p)
            ELSE IF Pooled(p)
            THEN /\ GoTo(p, "release")
                 /\ frame' = [frame EXCEPT ![p].new = NoEntry, ![p].buf = NoBuffer]
            ELSE Finish(p)
  /\ UNCHANGED <<mutexVars, configVars, entryPool, users, calls, sent, exited>>

------------------------------------------------------------------------------
(* Configuration, by one goroutine of the application.                      *)

Configure(op) == /\ ~exited
                 /\ op \in ConfigOps
                 /\ stores = <<>>
                 /\ configs < MaxConfig
                 /\ configs' = configs + 1
                 /\ UNCHANGED <<mutexVars, poolVars, heap, content, users, retained,
                                pc, calls, sent, exited>>

\* The history of the levels each call in progress has lived through.
Witness(console, hook) ==
  frame' = [p \in Procs |->
             IF pc[p] = "idle" THEN frame[p]
             ELSE [frame[p] EXCEPT !.seen.console = @ \cup {console},
                                   !.seen.hook = @ \cup {hook}]]

\* SetLevel(l) and SetLevel(l, h): up to three separate atomic stores.
SetLevel ==
  /\ Configure("level")
  /\ \E l \in SetLevels : \E rest \in {<<l>>} \cup {<<l, h>> : h \in SetLevels} :
       /\ consoleLevel' = l
       /\ stores' = rest
       /\ Witness(l, hookLevel)
  /\ UNCHANGED <<hookLevel, hooks, bufferPool, reportCaller, out>>

StoreHookLevel ==
  /\ ~exited
  /\ stores # <<>>
  /\ hookLevel' = Head(stores)
  /\ stores' = Tail(stores)
  /\ Witness(consoleLevel, Head(stores))
  /\ UNCHANGED <<mutexVars, consoleLevel, hooks, bufferPool, reportCaller, out,
                 configs, poolVars, heap, content, users, retained, pc, calls, sent,
                 exited>>

\* Mutant of SetterEnters: the setter does not take the mutex.
SetterBarges == TRUE

\* A setter whose critical section is one assignment.  Without the mutex only a
\* setter that nothing races with is considered.
SetterEnters == IF disabled THEN \A p \in Procs : pc[p] = "idle" ELSE lock = NoProc

LockedSetter(op) ==
  /\ Configure(op)
  /\ SetterEnters
  /\ UNCHANGED <<consoleLevel, hookLevel, stores, frame>>

AddHook == /\ LockedSetter("addHook")
           /\ \E h \in Hooks : hooks' = Added(hooks, h)
           /\ UNCHANGED <<bufferPool, reportCaller, out>>

ReplaceHooks == /\ LockedSetter("replaceHooks")
                /\ hooks' \in {NoHooks} \cup {Added(NoHooks, h) : h \in Hooks}
                /\ UNCHANGED <<bufferPool, reportCaller, out>>

SetBufferPool == /\ LockedSetter("pool")
                 /\ bufferPool' \in Pools
                 /\ UNCHANGED <<hooks, reportCaller, out>>

SetReportCaller == /\ LockedSetter("caller")
                   /\ reportCaller' \in BOOLEAN
                   /\ UNCHANGED <<hooks, bufferPool, out>>

SetOutput == /\ LockedSetter("out")
             /\ out' \in Outs
             /\ UNCHANGED <<hooks, bufferPool, reportCaller>>

\* SetNoLock takes no lock: nothing but the application keeps it away from calls.
SetNoLock ==
  /\ ~exited /\ ~disabled
  /\ \/ NoLockMode = "quiescent" /\ \A p \in Procs : pc[p] = "idle"
     \/ NoLockMode = "anytime"
  /\ Disable
  /\ UNCHANGED <<configVars, poolVars, heap, content, users, retained, pc, frame,
                 calls, sent, exited>>

------------------------------------------------------------------------------
\* New(), and what main registers before the goroutines start.
Init ==
  /\ MutexInit
  /\ consoleLevel = DebugLevel /\ hookLevel = DebugLevel /\ stores = <<>>
  /\ hooks \in InitHooks
  /\ bufferPool = DefaultPool /\ reportCaller = TRUE /\ out = DefaultOut
  /\ configs = 0
  /\ entryPool = {} /\ freeBufs = [q \in Pools |-> {}]
  /\ heap = [e \in Entries |-> ZeroEntry] /\ content = [b \in Buffers |-> <<>>]
  /\ users = {} /\ retained = {}
  /\ pc = [p \in Procs |-> "idle"] /\ frame = [p \in Procs |-> IdleFrame]
  /\ calls = 0 /\ sent = <<>> /\ exited = FALSE

Call(p) == LoggerCall(p) \/ PrintCall(p) \/ WarnfCall(p) \/ EntryCall(p) \/ WithCall(p)

Step(p) == \/ LoadConsole(p) \/ LoadHook(p) \/ NewEntry(p) \/ Derive(p) \/ Release(p)
           \/ LockLog(p) \/ WaitLog(p) \/ Snapshot(p) \/ Prepare(p) \/ FireHook(p)
           \/ GetBuffer(p) \/ Format(p) \/ LockOut(p) \/ WaitOut(p) \/ Write(p)
           \/ PutBuffer(p) \/ Exit(p)

Config == SetLevel \/ StoreHookLevel \/ AddHook \/ ReplaceHooks \/ SetBufferPool
          \/ SetReportCaller \/ SetOutput \/ SetNoLock

Next == (\E p \in Procs : Call(p) \/ Step(p)) \/ Config

\* A goroutine that runs keeps running, a waiter of sync.Mutex is not starved, and
\* hooks, formatters and writers return.  Nobody has to call the logger.
Fairness == \A p \in Procs : WF_vars(Step(p))

Spec == Init /\ [][Next]_vars
FairSpec == Spec /\ Fairness

------------------------------------------------------------------------------
(* Properties.                                                              *)

\* Every variable keeps to its type.
TypeOK ==
  /\ MutexTypeOK
  /\ consoleLevel \in Levels /\ hookLevel \in Levels /\ stores \in Seq(Levels)
  /\ hooks \in [Levels -> Seq(Hooks)] /\ bufferPool \in Pools /\ reportCaller \in BOOLEAN
  /\ out \in Outs /\ configs \in Nat
  /\ entryPool \subseteq Entries /\ freeBufs \in [Pools -> SUBSET Buffers]
  /\ heap \in [Entries -> Entry] /\ content \in [Buffers -> Seq(Line)]
  /\ users \subseteq Entries /\ retained \subseteq Entries
  /\ pc \in [Procs -> Labels] /\ frame \in [Procs -> Frame]
  /\ calls \in Nat /\ sent \in Seq(Delivery) /\ exited \in BOOLEAN

\* As long as nobody called SetNoLock, at most one goroutine is inside Out.Write,
\* and it writes to the Out of the logger: once SetOutput has returned, the old
\* writer receives nothing more (entry.go write, logger.go SetOutput).
Writing(p) == pc[p] = "write"

WritesSerialised == ~disabled => \A p, q \in Procs : Writing(p) /\ Writing(q) => p = q

OutputFence == ~disabled => \A p \in Procs : Writing(p) => frame[p].out = out

\* A buffer is at rest in one pool or used by one call, never both and never two
\* calls; what is at rest, or lost to a panic, is empty; and no entry that is not
\* being logged points to a buffer (entry.go log, buffer_pool.go).
Users(b) == {p \in Procs : frame[p].buf = b}
Homes(b) == {q \in Pools : b \in freeBufs[q]}

BufferOwnership ==
  \A b \in Buffers :
    /\ Cardinality(Users(b)) + Cardinality(Homes(b)) <= 1
    /\ Users(b) = {} => content[b] = <<>>
    /\ \A e \in Entries : heap[e].buffer = b => \E p \in Users(b) : frame[p].new = e

\* A buffer goes back to the pool it came from, whatever SetBufferPool did since.
BufferGoesHome ==
  [][\A p \in Procs, b \in Buffers :
       /\ frame[p].buf = b /\ frame'[p].buf # b
       => b \in freeBufs'[frame[p].pool]]_vars

\* A pooled entry is used by one call at a time, nobody can reach it while it is at
\* rest, and neither a hook nor the application ever gets to see one: they get
\* copies (logger.go newEntry and releaseEntry, entry.go log).
EntryOwnership ==
  /\ entryPool \cap (users \cup retained) = {}
  /\ \A e \in users \cup retained : ~heap[e].pooled
  /\ \A p \in Procs : \A e \in {frame[p].ent, frame[p].new} \ {NoEntry} :
       /\ e \notin entryPool
       /\ e \notin users => \A q \in Procs \ {p} : e \notin {frame[q].ent, frame[q].new}

\* An entry at rest is pristine: newEntry sees nothing of an earlier call.
PoolPristine ==
  \A e \in entryPool : LineOf(heap[e]) = LineOf(ZeroEntry) /\ heap[e].buffer = NoBuffer
                         /\ ~heap[e].trimmed

\* Whatever is written to Out is one whole line of the call that writes it: its own
\* message, time and caller, the fields of its entry and no other call's.
LineIntegrity ==
  \A i \in DOMAIN sent :
    LET d == sent[i] IN
    d.sink \in Outs =>
      /\ Len(d.line) = 1
      /\ LET l == d.line[1] IN
           /\ l.msg = d.by /\ l.time = d.by /\ l.caller \in {0, d.by}
           /\ "field" \in l.data <=> d.user
           /\ "hook" \in l.data <=>
                \E j \in 1..(i - 1) : sent[j].by = d.by /\ sent[j].sink \in ModifyHooks

\* A call that returns has written its line if its level was enabled for the console
\* all along, and nothing if it never was; the same for the hooks (logger.go
\* SetLevel and IsLevelEnabled, entry.go log).
SinksOf(call) == {sent[i].sink : i \in {j \in DOMAIN sent : sent[j].by = call}}

Completes(p) == pc[p] \notin {"idle", "exit"} /\ pc'[p] \in {"idle", "exit"}

Honoured(p) ==
  LET f == frame[p]
      sinks == SinksOf(f.call)
  IN  /\ (\A l \in f.seen.console : l >= f.level) => sinks \cap Outs # {}
      /\ (\A l \in f.seen.console : l < f.level) => sinks \cap Outs = {}
      /\ (\A l \in f.seen.hook : l < f.level) => sinks \cap Hooks = {}

LevelsHonoured ==
  [][\A p \in Procs : Completes(p) /\ frame[p].kind # "with" => Honoured(p)]_vars

\* The hooks: with a level enabled for hooks all along, every hook registered for
\* it before the call began has fired when the call returns.
HooksHonoured ==
  [][\A p \in Procs :
       Completes(p) /\ frame[p].kind # "with"
         /\ (\A l \in frame[p].seen.hook : l >= frame[p].level)
       => LET hs == hooks[frame[p].level] IN
          \A i \in DOMAIN hs : hs[i] \in SinksOf(frame[p].call)]_vars

\* Logging never writes to an entry the application got from WithField, and to one that a
\* hook keeps, or that is a panic value, only as long as the call it was copied for goes on:
\* the hooks of that call may write all of it; afterwards log() lends and takes back
\* Buffer, and a formatter may cut the line feed off Message, nothing else (entry.go Dup and
\* log, text_formatter.go:263).  Once the call is over the entry stays as it is.
EntriesStable ==
  [][\A e \in users \cup retained :
       heap'[e] # heap[e] =>
         /\ e \notin users
         /\ \E p \in Procs :
              /\ frame[p].new = e
              /\ pc[p] = "hook"
                   \/ heap'[e] = [heap[e] EXCEPT !.buffer = heap'[e].buffer,
                                                 !.trimmed = heap'[e].trimmed]]_vars

\* The inner mutex is held only by a goroutine inside a critical section: no error
\* and no panic of a hook, the formatter or Out leaves it locked (entry.go write).
LockHeldOnlyInside ==
  ~disabled /\ lock # NoProc => pc[lock] \in {"snapshot", "write"}

\* What README_en.md says ("The mutex is held when calling hooks and writing logs"):
\* hooks and writes exclude each other.  The code fires the hooks after Unlock.
HooksUnderMutex ==
  \A p, q \in Procs : pc[p] \in {"hook", "write"} /\ pc[q] \in {"hook", "write"} => p = q

\* Every logging call returns, unless the program exits: no call waits for ever for the
\* mutex, not even one that a hook makes while it is being fired.  With SetNoLock at any
\* moment a call may be stranded that has read disabled = FALSE before the switch
\* (logger.go:64) and finds that the inner mutex was not released by its last holder, whose
\* Unlock came after the switch; and with it the call whose hook made it.  A call that
\* reads the flag after the switch always returns (logger.go MutexWrap).
Stranded(p) == disabled /\ lock # NoProc /\ pc[p] \in {"waitLog", "waitOut"}

CallsReturnUnlessStranded ==
  \A p \in Procs : pc[p] # "idle"
                   ~> \/ pc[p] = "idle" \/ exited
                      \/ \E q \in Procs : (q = p \/ Parent[q] = p) /\ Stranded(q)
==============================================================================
