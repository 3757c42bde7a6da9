------------------------------- MODULE LfsHook -------------------------------
(***************************************************************************)
(* ConfigLocalFileSystemLogger (lfs_exported.go) and the LfsHook it adds   *)
(* (lfs_hook.go), on top of the rotating writers: one writer per level and *)
(* a common one, written one after the other by io.MultiWriter under the   *)
(* hook's mutex.  Loggers fire the hook from several goroutines at once.   *)
(*                                                                         *)
(* Nothing closes the writers, so Close of RotatingFile is no step here.   *)
(* ConfigLocalFileSystemLogger is called once in the life of a process.    *)
(***************************************************************************)
EXTENDS RotatingFile, SequencesExt

CONSTANTS
  Order,        \* the writers, as ConfigLocalFileSystemLogger creates them
  Levels,
  WriterMap,    \* [a subset of Levels -> Seq(Writers)]: what each MultiWriter holds
  Fallbacks,    \* what may be given to SetDefaultWriter
  Ages,         \* arguments of SetMaxAge
  DefaultAge,   \* Logger.MaxAge of a new logger
  FormatFails,  \* whether Format may fail; that of SimpleFormatter does not
  MaxFires,     \* bound: calls of Fire
  MaxEvents     \* bound: calls of SetMaxAge and SetDefaultWriter, and restarts, together

ASSUME LfsAssumption ==
  /\ Order \in Seq(Writers) /\ ToSet(Order) = Writers /\ Order # <<>>
  /\ DOMAIN WriterMap \subseteq Levels
  /\ \A l \in DOMAIN WriterMap : WriterMap[l] \in Seq(Writers) /\ IsInjective(WriterMap[l])
  /\ Fallbacks \subseteq Writers /\ FormatFails \in BOOLEAN
  /\ \A age \in Ages \cup {DefaultAge} : age \in Nat /\ \A w \in Writers : MaxAge[w] <= age
  /\ MaxFires \in Nat /\ MaxEvents \in Nat

VARIABLES
  config,    \* ConfigLocalFileSystemLogger: "before", "making", "failed", "added"
  made,      \* how many writers it has created
  maxAge,    \* Logger.MaxAge
  fallback,  \* defaultWriter, <<>> without hasDefaultWriter
  sets,      \* number of settings so far
  hookLock,  \* LfsHook.lock
  fire,      \* [Goroutines -> the call of Fire each one is in]
  fired,     \* history: the entries fired, [level, result] of each
  entryOf    \* history: the entry that each write was for

confVars == <<config, made, maxAge, fallback, sets>>
hookVars == <<hookLock, fire, fired, entryOf>>
lfsVars  == <<vars, confVars, hookVars>>

NoFire == [pc |-> "idle", entry |-> 0, left |-> <<>>]

------------------------------------------------------------------------------
(* The configuration.                                                       *)

\* createRotatingWriter for the next writer, with the age the logger has at the moment.
CreateWriter ==
  /\ config \in {"before", "making"}
  /\ New(Order[made + 1], maxAge)
  /\ made' = made + 1
  /\ config' = IF made + 1 = Len(Order) THEN "added" ELSE "making"
  /\ UNCHANGED <<maxAge, fallback, sets, hookVars>>

\* The first error ends it: no hook, and the writers made so far stay open.
CreateFails ==
  /\ config \in {"before", "making"}
  /\ NewFails(Order[made + 1])
  /\ config' = "failed"
  /\ UNCHANGED <<made, maxAge, fallback, sets, hookVars>>

\* Logger.SetMaxAge
SetMaxAge(age) ==
  /\ maxAge # age /\ sets + crashes < MaxEvents
  /\ maxAge' = age /\ sets' = sets + 1
  /\ UNCHANGED <<vars, config, made, fallback, hookVars>>

\* LfsHook.SetDefaultWriter
SetDefaultWriter(w) ==
  /\ config = "added" /\ hookLock = NoGoroutine /\ sets + crashes < MaxEvents
  /\ fallback' = <<w>> /\ sets' = sets + 1
  /\ UNCHANGED <<vars, config, made, maxAge, hookVars>>

------------------------------------------------------------------------------
(* Fire.                                                                    *)

\* io.MultiWriter or the default writer; <<>> drops the entry.
Route(level) == IF level \in DOMAIN WriterMap THEN WriterMap[level] ELSE fallback

\* Mutant of MayLock: Fire without the mutex.
MayLockAlways == TRUE

MayLock == hookLock = NoGoroutine

\* The call ends: the deferred Unlock, and its result.
Answer(g, n, result) ==
  /\ hookLock' = NoGoroutine
  /\ fire' = [fire EXCEPT ![g] = NoFire]
  /\ fired' = [fired EXCEPT ![n].result = result]

\* Lock, the lookup, Format.
StartFire(g, level) ==
  /\ config = "added" /\ fire[g].pc = "idle" /\ Len(fired) < MaxFires
  /\ MayLock
  /\ \E result \in IF Route(level) = <<>> THEN {"nil"}
                   ELSE {"pending"} \cup {"error" : f \in {FormatFails} \cap {TRUE}} :
       /\ fired' = Append(fired, [level |-> level, result |-> result])
       /\ IF result # "pending" THEN UNCHANGED <<hookLock, fire>>
          ELSE /\ hookLock' = g
               /\ fire' = [fire EXCEPT ![g] = [pc |-> "next", entry |-> Len(fired) + 1,
                                               left |-> Route(level)]]
  /\ UNCHANGED <<vars, confVars, entryOf>>

\* MultiWriter calls Write of the next writer.
WriteNext(g) ==
  /\ fire[g].pc = "next"
  /\ Enter(g, Head(fire[g].left))
  /\ entryOf' = Append(entryOf, fire[g].entry)
  /\ fire' = [fire EXCEPT ![g].pc = "in"]
  /\ UNCHANGED <<confVars, hookLock, fired>>

\* Mutant of AfterError: the MultiWriter goes on to the next writer.
AfterErrorOn(left) == Tail(left)

\* What MultiWriter still writes after the writer at the head has failed.
AfterError(left) == <<>>

Advanced(g) ==
  LET n    == fire[g].entry
      left == fire[g].left
      good == accepted' # accepted
      rest == IF good THEN Tail(left) ELSE AfterError(left)
  IN  IF call'[g].pc # "idle" THEN UNCHANGED <<hookLock, fire, fired>>
      ELSE IF rest = <<>> THEN Answer(g, n, IF good THEN "nil" ELSE "error")
      ELSE /\ fire' = [fire EXCEPT ![g].pc = "next", ![g].left = rest]
           /\ UNCHANGED <<hookLock, fired>>

\* A step inside Write of the rotating writer, and what MultiWriter does when it returns.
WriteStep(g) ==
  /\ fire[g].pc = "in"
  /\ CallStep(g)
  /\ Advanced(g)
  /\ UNCHANGED <<confVars, entryOf>>

------------------------------------------------------------------------------

\* The clock and the cleanup goroutines go on by themselves.
Background == /\ Advance \/ \E w \in Writers : CleanerStep(w)
              /\ UNCHANGED <<confVars, hookVars>>

\* The process starts again with a new standard logger.
Restart ==
  /\ Crash /\ sets + crashes < MaxEvents
  /\ config' = "before" /\ made' = 0 /\ maxAge' = DefaultAge /\ fallback' = <<>>
  /\ hookLock' = NoGoroutine /\ fire' = [g \in Goroutines |-> NoFire]
  /\ fired' = [i \in DOMAIN fired |->
       IF fired[i].result = "pending" THEN [fired[i] EXCEPT !.result = "crash"] ELSE fired[i]]
  /\ UNCHANGED <<sets, entryOf>>

LfsInit ==
  /\ Init
  /\ config = "before" /\ made = 0 /\ maxAge = DefaultAge /\ fallback = <<>> /\ sets = 0
  /\ hookLock = NoGoroutine /\ fire = [g \in Goroutines |-> NoFire]
  /\ fired = <<>> /\ entryOf = <<>>

LfsNext ==
  \/ CreateWriter \/ CreateFails \/ Background \/ Restart
  \/ \E age \in Ages : SetMaxAge(age)
  \/ \E w \in Fallbacks : SetDefaultWriter(w)
  \/ \E g \in Goroutines :
       \/ \E level \in Levels : StartFire(g, level)
       \/ WriteNext(g) \/ WriteStep(g)

LfsSpec == LfsInit /\ [][LfsNext]_lfsVars

------------------------------------------------------------------------------
(* Properties.                                                              *)

LfsTypeOK ==
  /\ RotatingTypeOK
  /\ config \in {"before", "making", "failed", "added"} /\ made \in 0..Len(Order)
  /\ hookLock \in Goroutines \cup {NoGoroutine}
  /\ \A g \in Goroutines : fire[g].pc # "idle" => hookLock = g /\ fired[fire[g].entry].result = "pending"
  /\ sets \in 0..MaxEvents /\ Len(fired) <= MaxFires /\ Len(entryOf) = writes

Holds(w, n) == \E rec \in accepted : rec.by = w /\ entryOf[rec.id] = n

\* An entry whose Fire returned nil is in the file of its level and in the common file;
\* one whose Fire failed, or was cut short by a crash, is in the files from the first
\* of them on, never in a later one alone (lfs_exported.go, the MultiWriters).
NilMeansEverywhere ==
  \A n \in DOMAIN fired :
    LET level == fired[n].level IN
    level \in DOMAIN WriterMap =>
      /\ fired[n].result = "nil" => \A w \in ToSet(WriterMap[level]) : Holds(w, n)
      /\ \A i \in 2..Len(WriterMap[level]) :
           Holds(WriterMap[level][i], n) => Holds(WriterMap[level][i - 1], n)

\* Any two entries that are in two files stand in the same order in both: what two
\* goroutines log at once cannot be swapped between a level's file and the common one.
SameOrder ==
  \A a, b, c, d \in accepted :
    /\ a.by = b.by /\ c.by = d.by
    /\ entryOf[a.id] = entryOf[c.id] /\ entryOf[b.id] = entryOf[d.id]
    /\ a.id < b.id
    => c.id <= d.id

\* README_en.md, the example and "retention: configurable via SetMaxAge": a cleanup pass
\* removes what is older than the age the logger has been given.
CleanupHonoursMaxAge ==
  [][\A w \in Writers :
       cleaner[w].pc = "wait" /\ cleaner'[w].pc = "examine"
       => cleaner'[w].cutoff = ticks[w] - maxAge]_lfsVars
=============================================================================
