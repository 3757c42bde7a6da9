----------------------------- MODULE RotatingFile -----------------------------
(***************************************************************************)
(* RotatingFileWriter (rotate_writer.go): writers that append to files     *)
(* named by the minute in which they were opened, rotate by time and by    *)
(* size, keep a link to the newest file, and run a goroutine that removes  *)
(* old files without the writer's mutex.                                   *)
(*                                                                         *)
(* Several writers share a directory, as in lfs_exported.go.  The cleanup  *)
(* of one recognises files by a prefix of their names, so it may also see  *)
(* the files of others (Covers).  The process may crash and start again.   *)
(* Sizes are counted in bytes, and Write is given records of the lengths   *)
(* Lengths; time is counted in units of Minute and Rotation.               *)
(***************************************************************************)
EXTENDS Integers, Sequences, FiniteSets

CONSTANTS
  Writers,      \* the RotatingFileWriters, one per base name
  Goroutines,   \* callers of Write and Close
  NoGoroutine,
  Covers,       \* [Writers -> SUBSET Writers]: whose files have the prefix of w
  Minute,       \* the resolution of file names
  Rotation,     \* RotatingFileConfig.Rotation
  MaxAge,       \* [Writers -> Nat]: RotatingFileConfig.MaxAge, the least one w is made with
  MaxSize,      \* RotatingFileConfig.MaxSize, 0: no limit
  Lengths,      \* the lengths of what Write is given
  Faults,       \* what may fail: "open", "stat", "link", "write", "list"
  MaxTime,      \* bound: the last moment
  MaxWrites,    \* bound: calls of Write
  MaxCrashes    \* bound: crashes

ASSUME RotatingAssumption ==
  /\ NoGoroutine \notin Goroutines
  /\ Covers \in [Writers -> SUBSET Writers] /\ \A w \in Writers : w \in Covers[w]
  /\ Minute \in Nat \ {0} /\ Rotation \in Nat \ {0} /\ MaxSize \in Nat
  /\ MaxAge \in [Writers -> Nat \ {0, 1}]
  /\ Lengths \subseteq Nat \ {0}
  /\ Faults \subseteq {"open", "stat", "link", "write", "list"}
  /\ MaxTime \in Nat /\ MaxWrites \in Nat /\ MaxCrashes \in Nat

VARIABLES
  now,       \* the clock
  files,     \* the files ever created: their records, size and time of the last write
  dir,       \* [Writers -> [Names -> 0..Len(files)]]: the directory, 0: no entry
  link,      \* [Writers -> [to, mtime, failed]]: the symbolic links; history: whether
             \*   the last step of the writer that set its link failed
  writer,    \* [Writers -> WriterState]: the fields of each RotatingFileWriter
  fds,       \* [Writers -> Nat]: open file descriptors
  lock,      \* [Writers -> Goroutines \cup {NoGoroutine}]: w.mu
  call,      \* [Goroutines -> CallState]: the Write each goroutine is in
  ticks,     \* [Writers -> time of the tick in ticker.C, or NoTick]
  cleaner,   \* [Writers -> CleanerState]: the cleanup goroutines
  accepted,  \* history: the writes that returned nil
  writes,    \* number of calls of Write so far
  crashes

fileVars == <<files, dir, link>>
memVars  == <<writer, fds, lock, call, ticks, cleaner>>
vars == <<now, fileVars, memVars, accepted, writes, crashes>>

MinuteOf(t) == t \div Minute
Period(t)   == t - (t % Rotation)      \* t.Truncate(w.rotation)
Names  == 0..MinuteOf(MaxTime)
NoName == -1                           \* also stands for the link in a listing
NoTick == -1

Absent  == [status |-> "none", file |-> 0, name |-> NoName, open |-> FALSE,
            size |-> 0, openedAt |-> 0, started |-> 0, age |-> 0]
Resting == [pc |-> "off", cutoff |-> 0, todo |-> {}, victim |-> <<>>]
Waiting == [Resting EXCEPT !.pc = "wait"]
Idle(g) == call[g].pc = "idle"
NoCall  == [pc |-> "idle", on |-> CHOOSE w \in Writers : TRUE, at |-> 0, id |-> 0]

------------------------------------------------------------------------------
(* Opening a file.                                                          *)

\* Mutant of SizeAt: the size of a file that is there already is not looked up.
SizeAtZero(file) == 0

SizeAt(file) == files'[file].size

\* Mutant of LinkTo: Symlink without the Remove before it.
LinkKept(w, name) ==
  IF link[w].to = NoName THEN [to |-> name, mtime |-> now, failed |-> FALSE] ELSE link[w]

LinkTo(w, name) == [to |-> name, mtime |-> now, failed |-> FALSE]

\* os.Remove and os.Symlink, whose errors are dropped: when Remove fails Symlink finds
\* the old link there and leaves it; when only Symlink fails there is no link.
SetLink(w, name) ==
  \/ link' = [link EXCEPT ![w] = LinkTo(w, name)]
  \/ "link" \in Faults /\ link' = [link EXCEPT ![w].failed = TRUE]
  \/ "link" \in Faults /\ link' = [link EXCEPT ![w].to = NoName, ![w].failed = TRUE]

\* os.OpenFile with O_APPEND|O_CREATE: the file of that name, or a new one.
Created(w, name) ==
  IF dir[w][name] # 0 THEN UNCHANGED <<files, dir>>
  ELSE /\ files' = Append(files, [recs |-> <<>>, size |-> 0, mtime |-> now])
       /\ dir' = [dir EXCEPT ![w][name] = Len(files) + 1]

\* openFile(t), with the old descriptor closed before (`left' are open).
OpenFile(w, t, left) ==
  LET name == MinuteOf(t) IN
  /\ Created(w, name)
  /\ SetLink(w, name)
  /\ fds' = [fds EXCEPT ![w] = left + 1]
  /\ writer' = [writer EXCEPT
       ![w] = [@ EXCEPT !.file = dir'[w][name], !.name = name, !.open = TRUE,
                        !.size = SizeAt(dir'[w][name]), !.openedAt = Period(t)]]

\* openFile fails before or after the file was created: the fields stay.
OpenFails(w, t) ==
  /\ \/ "open" \in Faults /\ UNCHANGED <<files, dir>>
     \/ "stat" \in Faults /\ Created(w, MinuteOf(t))
  /\ UNCHANGED link

\* NewRotatingFileWriter, and the start of its cleanup goroutine.
New(w, age) ==
  /\ writer[w].status = "none"
  /\ LET name == MinuteOf(now) IN
       /\ Created(w, name)
       /\ SetLink(w, name)
       /\ fds' = [fds EXCEPT ![w] = 1]
       /\ writer' = [writer EXCEPT
            ![w] = [status |-> "open", file |-> dir'[w][name], name |-> name,
                    open |-> TRUE, size |-> SizeAt(dir'[w][name]),
                    openedAt |-> Period(now), started |-> now, age |-> age]]
  /\ cleaner' = [cleaner EXCEPT ![w] = Waiting]
  /\ UNCHANGED <<now, lock, call, ticks, accepted, writes, crashes>>

NewFails(w) ==
  /\ writer[w].status = "none"
  /\ OpenFails(w, now)
  /\ UNCHANGED <<now, memVars, accepted, writes, crashes>>

------------------------------------------------------------------------------
(* Write and Close.                                                         *)

\* Mutants of NeedRotate.
RotateBySizeOnly(w, t) == MaxSize > 0 /\ writer[w].size >= MaxSize
RotateByTimeOnly(w, t) == Period(t) # writer[w].openedAt

NeedRotate(w, t) == \/ Period(t) # writer[w].openedAt
                    \/ MaxSize > 0 /\ writer[w].size >= MaxSize

\* Mutant of MayWrite: the flag is not looked at.
MayWriteAlways(w) == TRUE

MayWrite(w) == writer[w].status = "open"

\* Lock, the check of closed, and the moment time.Now() gives.
Enter(g, w) ==
  /\ Idle(g) /\ lock[w] = NoGoroutine
  /\ writer[w].status \in {"open", "closed"} /\ writes < MaxWrites
  /\ writes' = writes + 1
  /\ IF MayWrite(w)
     THEN /\ lock' = [lock EXCEPT ![w] = g]
          /\ call' = [call EXCEPT ![g] =
               [pc |-> IF NeedRotate(w, now) THEN "rotate" ELSE "append",
                on |-> w, at |-> now, id |-> writes + 1]]
     ELSE UNCHANGED <<lock, call>>
  /\ UNCHANGED <<now, fileVars, writer, fds, ticks, cleaner, accepted, crashes>>

Leave(g) == /\ lock' = [lock EXCEPT ![call[g].on] = NoGoroutine]
            /\ call' = [call EXCEPT ![g] = NoCall]

\* Mutants of StillOpen: the old file is not closed; it is closed again after a
\* rotation that failed.
StillOpenAll(w) == fds[w]
StillOpenTwice(w) == fds[w] - 1

\* The descriptors left open when rotateIfNeeded has closed its own.
StillOpen(w) == IF writer[w].open THEN fds[w] - 1 ELSE fds[w]

Rotate(g) ==
  LET w == call[g].on
      t == call[g].at
  IN  /\ call[g].pc = "rotate"
      /\ \/ /\ OpenFile(w, t, StillOpen(w))
            /\ call' = [call EXCEPT ![g].pc = "append"]
            /\ UNCHANGED lock
         \/ /\ OpenFails(w, t)
            /\ fds' = [fds EXCEPT ![w] = StillOpen(w)]
            /\ writer' = [writer EXCEPT ![w].open = FALSE]
            /\ Leave(g)
      /\ UNCHANGED <<now, ticks, cleaner, accepted, writes, crashes>>

\* file.Write: all of it; a part, with an error; nothing, with an error.
AppendRecord(g) ==
  LET w == call[g].on
      f == writer[w].file
      rec == [id |-> call[g].id, at |-> call[g].at, by |-> w, pos |-> files[f].size]
      Put(r, n) == /\ files' = [files EXCEPT ![f] =
                          [recs |-> Append(@.recs, r), size |-> @.size + n, mtime |-> now]]
                   /\ writer' = [writer EXCEPT ![w].size = @ + n]
  IN  /\ call[g].pc = "append"
      /\ \/ /\ writer[w].open
            /\ \E n \in Lengths : Put(rec, n)
            /\ accepted' = accepted \cup {rec}
         \/ /\ "write" \in Faults /\ writer[w].open
            /\ \E n \in Lengths : \E part \in 1..(n - 1) : Put([rec EXCEPT !.id = 0], part)
            /\ UNCHANGED accepted
         \/ /\ "write" \in Faults \/ ~writer[w].open
            /\ UNCHANGED <<files, writer, accepted>>
      /\ Leave(g)
      /\ UNCHANGED <<now, dir, link, fds, ticks, cleaner, writes, crashes>>

\* Mutant of CloseSignal: Close does not close the channel of the cleanup goroutine.
NoCloseSignal(w) == FALSE

CloseSignal(w) == writer[w].status = "closed"

\* Close, under the mutex; the second Close does nothing.
Close(w) ==
  /\ lock[w] = NoGoroutine /\ writer[w].status = "open"
  /\ writer' = [writer EXCEPT ![w].status = "closed", ![w].open = FALSE]
  /\ fds' = [fds EXCEPT ![w] = StillOpen(w)]
  /\ UNCHANGED <<now, fileVars, lock, call, ticks, cleaner, accepted, writes, crashes>>

------------------------------------------------------------------------------
(* The cleanup goroutine.                                                   *)

\* select picks either case when both are ready.
Stop(w) == /\ cleaner[w].pc = "wait" /\ CloseSignal(w)
           /\ cleaner' = [cleaner EXCEPT ![w].pc = "done"]
           /\ UNCHANGED <<now, fileVars, writer, fds, lock, call, ticks, accepted, writes,
                          crashes>>

Present(entry) == IF entry[2] = NoName THEN link[entry[1]].to # NoName
                  ELSE dir[entry[1]][entry[2]] # 0

\* What os.ReadDir lists with the prefix of w: its files and those it covers, and
\* their links.
Listed(w) == {entry \in Covers[w] \X (Names \cup {NoName}) : Present(entry)}

\* entry.Info() looks the file up again; its modification time decides.
Expired(entry, cutoff) ==
  /\ Present(entry)
  /\ (IF entry[2] = NoName THEN link[entry[1]].mtime
      ELSE files[dir[entry[1]][entry[2]]].mtime) < cutoff

\* Modification times only grow, so an entry that is young when it is listed is young when
\* it is looked up: the model does not take it up at all.
Candidates(w, cutoff) == {entry \in Listed(w) : Expired(entry, cutoff)}

\* The rest of a pass, or its end.
Pass(cutoff, todo) ==
  IF todo = {} THEN Waiting
  ELSE [pc |-> "examine", cutoff |-> cutoff, todo |-> todo, victim |-> <<>>]

List(w) ==
  /\ cleaner[w].pc = "wait" /\ ticks[w] # NoTick
  /\ LET cutoff == ticks[w] - writer[w].age IN
     \E todo \in {Candidates(w, cutoff)} \cup {{} : f \in Faults \cap {"list"}} :
       cleaner' = [cleaner EXCEPT ![w] = Pass(cutoff, todo)]
  /\ ticks' = [ticks EXCEPT ![w] = NoTick]
  /\ UNCHANGED <<now, fileVars, writer, fds, lock, call, accepted, writes, crashes>>

\* ReadDir sorts by name: minutes in order, the link after them, and the files that
\* only share the prefix after the minutes of w.
Before(w, a, b) == \/ a[1] = w /\ b[1] # w /\ a[2] # NoName
                   \/ a[1] = b[1] /\ a[2] # NoName /\ (b[2] = NoName \/ a[2] < b[2])

Examine(w) ==
  LET todo  == cleaner[w].todo
      entry == CHOOSE e \in todo : \A e2 \in todo : ~Before(w, e2, e)
  IN  /\ cleaner[w].pc = "examine"
      /\ cleaner' = [cleaner EXCEPT ![w] =
           IF Expired(entry, @.cutoff)
           THEN [@ EXCEPT !.pc = "unlink", !.todo = todo \ {entry}, !.victim = entry]
           ELSE Pass(@.cutoff, todo \ {entry})]
      /\ UNCHANGED <<now, fileVars, writer, fds, lock, call, ticks, accepted, writes, crashes>>

\* os.Remove: whatever has the name by now.
Unlink(w) ==
  /\ cleaner[w].pc = "unlink"
  /\ LET v == cleaner[w].victim[1]
         name == cleaner[w].victim[2]
     IN  IF name = NoName
         THEN link' = [link EXCEPT ![v].to = NoName] /\ UNCHANGED dir
         ELSE dir' = [dir EXCEPT ![v][name] = 0] /\ UNCHANGED link
  /\ cleaner' = [cleaner EXCEPT ![w] = Pass(@.cutoff, @.todo)]
  /\ UNCHANGED <<now, files, writer, fds, lock, call, ticks, accepted, writes, crashes>>

------------------------------------------------------------------------------
(* The clock, crashes.                                                      *)

\* A ticker sends every maxAge/2 and drops the tick when the last is still there.
Advance ==
  /\ now < MaxTime
  /\ now' = now + 1
  /\ ticks' = [w \in Writers |->
       IF /\ cleaner[w].pc \notin {"off", "done"} /\ ticks[w] = NoTick
          /\ (now + 1 - writer[w].started) % (writer[w].age \div 2) = 0
       THEN now + 1 ELSE ticks[w]]
  /\ UNCHANGED <<fileVars, writer, fds, lock, call, cleaner, accepted, writes, crashes>>

\* The process dies at any point and is started again; New follows.
Crash ==
  /\ crashes < MaxCrashes
  /\ crashes' = crashes + 1
  /\ writer' = [w \in Writers |-> Absent] /\ fds' = [w \in Writers |-> 0]
  /\ lock' = [w \in Writers |-> NoGoroutine] /\ call' = [g \in Goroutines |-> NoCall]
  /\ ticks' = [w \in Writers |-> NoTick] /\ cleaner' = [w \in Writers |-> Resting]
  /\ UNCHANGED <<now, fileVars, accepted, writes>>

Init ==
  /\ now = 0 /\ files = <<>> /\ dir = [w \in Writers |-> [name \in Names |-> 0]]
  /\ link = [w \in Writers |-> [to |-> NoName, mtime |-> 0, failed |-> FALSE]]
  /\ writer = [w \in Writers |-> Absent] /\ fds = [w \in Writers |-> 0]
  /\ lock = [w \in Writers |-> NoGoroutine] /\ call = [g \in Goroutines |-> NoCall]
  /\ ticks = [w \in Writers |-> NoTick] /\ cleaner = [w \in Writers |-> Resting]
  /\ accepted = {} /\ writes = 0 /\ crashes = 0

CallStep(g) == Rotate(g) \/ AppendRecord(g)
CleanerStep(w) == Stop(w) \/ List(w) \/ Examine(w) \/ Unlink(w)

Next == \/ \E w \in Writers : New(w, MaxAge[w]) \/ NewFails(w) \/ Close(w) \/ CleanerStep(w)
        \/ \E g \in Goroutines : CallStep(g) \/ \E w \in Writers : Enter(g, w)
        \/ Advance \/ Crash

\* Callers that are inside Write and cleanup goroutines keep running.
Fairness == /\ \A g \in Goroutines : WF_vars(CallStep(g))
            /\ \A w \in Writers : WF_vars(CleanerStep(w))

Spec == Init /\ [][Next]_vars
FairSpec == Spec /\ Fairness

------------------------------------------------------------------------------
(* Properties.                                                              *)

\* Types of the writers' fields.
RotatingTypeOK ==
  /\ now \in 0..MaxTime /\ writes \in 0..MaxWrites /\ crashes \in 0..MaxCrashes
  /\ \A w \in Writers :
       /\ dir[w] \in [Names -> 0..Len(files)] /\ link[w].to \in Names \cup {NoName}
       /\ writer[w].status \in {"none", "open", "closed"}
       /\ writer[w].file \in 0..Len(files) /\ fds[w] \in Nat
       /\ lock[w] \in Goroutines \cup {NoGoroutine}
       /\ ticks[w] \in {NoTick} \cup 0..MaxTime
       /\ cleaner[w].pc \in {"off", "wait", "examine", "unlink", "done"}
  /\ \A g \in Goroutines : call[g].pc \in {"idle", "rotate", "append"}

\* A write that was accepted can be read from a file of its writer for at least
\* maxAge less what one file may span, whatever the cleanup of this or another
\* writer, a rotation, a fault or a crash does (rotate_writer.go removeOldFiles).
Larger(a, b) == IF a > b THEN a ELSE b
Kept(rec) == \E name \in Names :
               /\ dir[rec.by][name] # 0
               /\ \E i \in DOMAIN files[dir[rec.by][name]].recs :
                    files[dir[rec.by][name]].recs[i] = rec

AcceptedWritesKept ==
  \A rec \in accepted :
    now - rec.at <= MaxAge[rec.by] - Larger(Rotation, Minute) => Kept(rec)

\* A file holds only what was written in a rotation period that its minute touches, in
\* the order in which Write was entered (rotate_writer.go rotateIfNeeded, openFile).
FilesByPeriod ==
  \A w \in Writers, name \in Names :
    LET recs == IF dir[w][name] = 0 THEN <<>> ELSE files[dir[w][name]].recs IN
    /\ \A i \in DOMAIN recs :
         \E t \in (name * Minute)..((name + 1) * Minute - 1) : Period(t) = Period(recs[i].at)
    /\ \A i, j \in DOMAIN recs : i < j /\ recs[i].id # 0 /\ recs[j].id # 0
                                 => recs[i].id < recs[j].id

\* What MaxSize does (rotate_writer.go:105, before a write of any length): a record that
\* begins at MaxSize or beyond it was written in the minute that names its file.  In a
\* later minute a file passes MaxSize by the end of one record, never by a second one.
OversizeByOneRecord ==
  MaxSize > 0 =>
    \A w \in Writers, name \in Names : dir[w][name] # 0 =>
      LET recs == files[dir[w][name]].recs IN
      \A i \in DOMAIN recs : recs[i].pos >= MaxSize => MinuteOf(recs[i].at) = name

\* The descriptors: a writer has at most one, none once it is closed, and what Write
\* is about to use is open, even after a rotation has failed.
DescriptorsBalanced ==
  \A w \in Writers :
    /\ fds[w] = IF writer[w].open THEN 1 ELSE 0
    /\ writer[w].status # "open" => fds[w] = 0
    /\ \A g \in Goroutines : call[g].pc = "append" /\ call[g].on = w => writer[w].open

\* The size Write counts is the size of the file, after restarts and failed writes too.
SizeCounted ==
  \A w \in Writers : writer[w].open => writer[w].size = files[writer[w].file].size

\* At rest the link leads to the file the writer has open or is gone.  It leads to an
\* older file only if setting it failed when that file was opened, the errors that
\* rotate_writer.go:93-94 drops; a later rotation or restart that sets it mends it.
StaleLinkExplained ==
  \A w \in Writers : writer[w].open /\ lock[w] = NoGoroutine
                     => link[w].to \in {writer[w].name, NoName} \/ link[w].failed

\* Once Close has returned no write is accepted any more.
NothingAfterClose ==
  [][\A w \in Writers : writer[w].status = "closed"
                        => {r \in accepted' : r.by = w} = {r \in accepted : r.by = w}]_vars

\* The cleanup goroutine of a closed writer ends, unless the process does.
CleanerEnds ==
  \A w \in Writers : writer[w].status = "closed"
                     ~> cleaner[w].pc = "done" \/ writer[w].status = "none"
==============================================================================
