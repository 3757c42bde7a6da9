# A TLA+ model of logrus (bnulwh fork)

This directory holds a specification of the logging library in the repository, the
TLC configurations that check it on small instances and the theorems that tlapm
proves about it for every instance. Line numbers refer to the sources of the commit
the project was written against.

## 1. The system and its parts

| Part | State it keeps | Operations | Where |
|---|---|---|---|
| Logger mutex | inner `sync.Mutex`, `disabled` | `Lock`, `Unlock`, `Disable` | `logger.go:58-77` |
| Logger, Entry: the logging call | entry pool, entries, local variables of `log()` | some 70 logging methods, `WithField(s)`, `WithError`, `WithContext`, `WithTime` | `logger.go`, `entry.go`, `exported.go` |
| Logger configuration | levels, hooks, `Out`, formatter, buffer pool, caller flag, max age | the setters, `SetNoLock` | `logger.go:531-614` |
| Buffer pools | buffers at rest | `Get`, `Put`, `SetBufferPool` | `buffer_pool.go`, `entry.go:298-325` |
| Hooks | `LevelHooks` | `Add`, `Fire` | `hooks.go` |
| Exit handlers | `handlers` | `RegisterExitHandler`, `DeferExitHandler`, `Exit` | `alt_exit.go` |
| Rotating file writer | open file, size, period, `closed`, cleanup goroutine | `Write`, `Close`, rotation, cleanup | `rotate_writer.go` |
| Local file system hook | writers per level, formatter | `Fire`, `ConfigLocalFileSystemLogger` | `lfs_hook.go`, `lfs_exported.go` |
| Pipe writer | a pipe and its reader goroutine | `WriterLevel`, `Close` | `writer.go` |
| Fields and formatters | `Entry.Data`, `Entry.err`, formatter settings | `WithFields`, `prefixFieldClashes`, `Format` | `entry.go`, `formatter.go`, `*_formatter.go` |
| Levels, caller lookup, test/syslog/writer hooks, terminal checks | none worth a model | | see `PROJECT.json` |

How they interact. An application goroutine calls a logging method. The method reads
the levels with atomic loads, takes an Entry from the logger's pool and calls
`Entry.log`. That takes the mutex once to copy the configuration, lets go of it, fires
the hooks, takes a buffer from a pool, formats the entry into it, takes the mutex again
for `Out.Write`, and returns the buffer in a deferred function; the method then clears
the entry and returns it to the pool. Hooks are application code: they may change the
entry, keep it, log themselves, fail or panic. Setters run at any moment. So the parts
share memory, and what can go wrong is a matter of who holds which object, and of what
was read when.

The packages around the logger use it in three ways. A pipe writer has a goroutine that
turns lines into logging calls, and a pipe at fatal level runs the exit handlers on that
goroutine, whose code may write to the pipe. The file hook is fired by all logging
goroutines; under its mutex it writes one line to the writer of a level and to the common
writer, each of which rotates and has a cleanup goroutine that removes files by the prefix
of their names, and these prefixes overlap. The formatters are shared too: they read
`Logger.ReportCaller` several times per line, without the mutex.

What makes this hard: entries and buffers are recycled across goroutines; an entry is
logged in place unless somebody else could see it; user code runs in the middle of a
call and may fail anywhere; the configuration is read at three different moments of one
call; the mutex can be switched off while it is held.

For each part, what makes it correct:

- mutex: at most one writer; never left locked;
- logging call: a line written is one whole line of the call that writes it; at most
  one write per call, after its hooks; every call returns;
- entry pool: an entry has one user, is pristine at rest, is never seen by anybody
  who may keep it;
- buffer pools: a buffer is in one place, empty at rest, and goes home;
- configuration: a call honours the levels in force while it runs; after `SetOutput`
  has returned nobody writes to the old writer;
- rotating writer: every accepted write is in a file of the writer, in order, and stays
  there for maxAge less one rotation; one file is open at a time; nothing is written after `Close`;
- file hook: what `Fire` accepted is in the file of its level and in the common file, in
  one order in both;
- formatters: no field of the user is lost, none stands for a default field, no refused
  field goes unreported;
- exit handlers: each registered handler runs, in order, whatever the others do;
- pipe writer: each line written becomes one logging call, in order; no `Write` waits for
  ever; a `Write` that fails has an explanation in the log.

## 2. The modules

| Module | What it is |
|---|---|
| `MutexWrap` | the logger's mutex: `lock`, `disabled`, steps `Acquire`, `Unlock`, `Disable` |
| `Logger` | the whole logging call and the configuration, with the properties |
| `LogDelivery` | abstract: what a call may deliver, and when; a hook that panics ends the call it was given (`Break`) |
| `LoggerDelivery` | the mapping from `Logger` to `LogDelivery` |
| `AsyncHook` | `Logger` with a hook's worker that formats the entry it kept |
| `MCLogger` | the instances of these for TLC |
| `EntryProofs` | the mutex, types, the ownership of entries |
| `BufferProofs`, `LineProofs`, `DeliveryProofs` | buffers; lines; the implementation of `LogDelivery`, levels and hooks: each on top of the one before |
| `RotatingFile` | the rotating writers, their files, the clock, the cleanup goroutines, crashes |
| `LfsHook` | `RotatingFile` with the file hook and its configuration |
| `Formatters` | fields, clashes and what the three formatters show of them |
| `ExitHandlers` | exit handlers and the ways to run them |
| `PipeWriter` | the pipe, the scanner goroutine |
| `PipeExit` | the two together |
| `MCRotatingFile`, `MCLfsHook`, `MCFormatters`, `MCPipeExit` | their instances for TLC |
| `RotatingFileProofs`, `LfsHookProofs`, `PipeExitProofs`, `FormattersProofs` | their theorems |

### Logger

A *process* is a call frame, not a goroutine: `Parent[p]` is the frame whose hook makes
the call, so recursion through a hook is a second process that starts only while its
parent is at `"hook"`, and the parent's hook ends only when the child is idle.
`pc[p]` says where the frame is, `frame[p]` holds its local variables. Entries and
buffers are ids in `heap` and `content`; an entry's fields hold the number of the call
that set them (0 is Go's zero value), so that "a field of another call" is visible.

| Label of a frame | Action | Code |
|---|---|---|
| idle | `LoggerCall`, `PrintCall`, `WarnfCall`, `EntryCall`, `WithCall` | the methods; `print` takes the entry before it checks the level, `warnf` checks twice, `entry` is a call on an entry of `WithField`, `with` is `WithField` itself |
| checkConsole, checkHook | `LoadConsole`, `LoadHook` | the two loads of `IsLevelEnabled`, `logger.go:571` |
| newEntry | `NewEntry` | `logger.go:104-114`; `sync.Pool` gives any entry at rest or a new one |
| derive | `Derive` | `entry.go:131-186` |
| lockLog, waitLog | `LockLog`, `WaitLog` | `entry.go:256`: read of `disabled`, then the inner lock |
| snapshot | `Snapshot` | `entry.go:257-270` |
| prepare | `Prepare` | `entry.go:278-292`: in place or `Dup`, time, message, caller |
| hook | `FireHook` | `hooks.go:35-43`, one hook per step |
| getBuffer | `GetBuffer` | `entry.go:298-308` |
| format | `Format` | `entry.go:328-332` |
| lockOut, waitOut, write | `LockOut`, `WaitOut`, `Write` | `entry.go:333-338` |
| putBuffer | `PutBuffer` | the deferred function and the panic, `entry.go:299-317` |
| release | `Release` | `logger.go:116-131` |
| exit | `Exit` | `logger.go:520-526` |

The configuration is one more goroutine. `SetLevel` and `StoreHookLevel` are the stores
of `logger.go:545-549` one by one. A setter under the mutex (`LockedSetter`) is one step:
its critical section is one assignment, so it can be anywhere a frame is outside its own
critical sections. `SetNoLock` takes no lock. Without the mutex a setter races with
everything, which Go does not define; the model then lets it run only between calls.

Abstractions. The text of a line is the record `Line` of what it shows (message, time and
caller by call number, which kinds of fields). The formatter appends one line, or a
partial one when it fails, to the buffer of the entry, which is what all three formatters
do with `entry.Buffer`. The text formatter with colours also cuts a line feed off
`entry.Message` in place (`text_formatter.go:263`), in the very entry the hooks were given: that is
`Trims`, the field `trimmed` says it has happened, and `LineFeeds` whether messages end in
one. `Out` takes a line or fails. Time is the call number. Left out:
`Entry.Context`, `Entry.err`, the time of `WithTime`, `Entry.HookLevel` (never read), the
text layout, and exit handlers (`Exit` is one step).

What a held entry may go through is the subject of `EntriesStable`. One that `WithField` gave to the
application is never written. One that a hook keeps, or that is a panic value, is the copy its
call goes on with: the hooks of that call may change it, then `log()` sets and clears
its `Buffer` (`entry.go:300`, `:305`, `:310`) and the formatter may trim its message. After the
call it stays as it is. `AsyncHook` shows what the first of these does to a worker.

### RotatingFile

Sizes are bytes: a write is a record of one of `Lengths`, at a position `pos` of its file.
`now` counts minutes, hours or whatever `Minute` and
`Rotation` are given in. `files` is every file ever made (what it holds, its size, when it was
last written), `dir` says which file a name leads to, so a file can be open and have no
name. `accepted` is the history of writes that returned nil.

| Action | Code |
|---|---|
| `New`, `NewFails` | `NewRotatingFileWriter`, `rotate_writer.go:42-68`; a directory that cannot be made is a failure to open |
| `Enter` | `Write` up to the decision to rotate, `:117-124`; the time is read here |
| `Rotate` | close, open, `Stat`, link, `:111-114`, `:76-97` |
| `SetLink` | part of `Rotate` and `New`, `:91-95`: `Remove` and `Symlink`, each of which may fail and say nothing |
| `AppendRecord` | `:127-129`: all of the record, some of its bytes, or nothing |
| `Close`, `Stop` | `:132-144`, `:154` |
| `List`, `Examine`, `Unlink` | `removeOldFiles`, one entry at a time: look at its age, then remove it, `:162-184` |
| `Advance` | the clock, and the ticker with its channel of one |
| `Crash` | the process ends anywhere; `New` is the restart |

`rotateIfNeeded` is one step after the old file is closed: nothing else may take the
writer's mutex, and the cleanup goroutine does not look at the writer's fields. The
link is replaced in the same step. When `Remove` fails, `Symlink` finds the old link and fails too, so
the link stays on the older file; when `Symlink` alone fails there is none. Nothing tells
the caller. `failed` remembers that the last attempt failed, and `StaleLinkExplained` says
that nothing else leaves a link on an older file at rest, and that the next file whose link can
be set mends it. The link is always asked for (`LinkName` set, as in
`lfs_exported.go`) and resolves; its target contains the directory, so with a relative
directory the real one does not. That is left out.

A cleanup pass asks `ReadDir` for all names once and for the time of each file when it gets
to it. The model keeps of the names only those that are old when they are listed
(`Candidates`): times of writing only grow, so a file that is young then is young at its
turn too. The file may be written after it is listed, and between the look at its age and
its removal, which is the race that matters. `age` is the writer's own copy of maxAge.

`AcceptedWritesKept` promises maxAge less the longer of rotation and minute, and that
is all there is: with `SetMaxAge` below an hour the cleanup may remove the file that is
open, and everything accepted until the next rotation goes with it.

`OversizeByOneRecord` says what `MaxSize` comes to. The size is looked at before a write,
whatever its length (`:105`), so a file passes `MaxSize` by the end of one record, in any minute. A
second one beyond it comes only in the minute of the file's name, in which a rotation opens
the same file again.

### Formatters

A goroutine builds an entry by calls of `WithFields`, logs it, and formats it with one
formatter that all share. A key is a sequence of names, so that the `fields.` prefix is a
longer key; a value says whose it is (the user's, a default field's, the caller's
blank). A line is the set of pairs of key and value it shows.

| Action | Code |
|---|---|
| `With` | `entry.go:146-186`: good fields are added; of the bad ones of a call, one names the error |
| `Start` | `log()` decides under the mutex whether the entry gets a caller |
| `Clash` | the copy of the fields and `prefixFieldClashes`, `formatter.go:45-78` |
| `Fill` | `JSONFormatter.Format` from there on |
| `Fix`, `Sort`, `InitOnce` | `TextFormatter.Format`: the fixed keys, the order, the `sync.Once` |
| `PrintColored`, `PrintPlain`, `EmitCaller` | what follows; each `func` and `file` reads `HasCaller` anew |
| `FormatSimple` | `simple_formatter.go`, the caller from the entry alone |
| `SetReportCaller` | at any moment |

Each read of `HasCaller` (`entry.go:243`) is a step of its own, as it is not under the
mutex. `calm` says that no `SetReportCaller` came since the line was begun, `settled` that
the terminal had been looked up before. `FieldsSurvive` makes one exception, `Shadowed`: a user
who sets both `time` and `fields.time` loses the second, over which the first is moved.
`DefaultKeysTrue` is about the keys of time, level, msg and logrus_error; those of `func` and
`file` are what the race on `ReportCaller` is about. The properties hold with these two and
`FieldsNeverOverwritten`, without `calm`, does not (section 5). What the model shows
besides, and the code does on purpose or by its documents: colours leave out the error
of an entry; two bad fields in one `WithFields` name one of them; the text formatter without
colours prints `func` twice when the user has a field `func` and the caller is reported; the first
colored line with a `SortingFunc` is unsorted, since `isColored` is read before the terminal
is looked up; the simple formatter prints no fields. `FieldMap` leaves the default fields
with distinct keys of one part each (`FormattersAssumption`): with two names mapped to one key
the lines say what the application asked for, and nothing can be promised of them.

### LfsHook

It extends `RotatingFile`: a `Fire` is a sequence of `Write` calls of that module.

| Action | Code |
|---|---|
| `CreateWriter`, `CreateFails` | one turn of `ConfigLocalFileSystemLogger`, `lfs_exported.go:14-70`; `New` gets the age the logger has then |
| `SetMaxAge`, `SetDefaultWriter` | the setters |
| `StartFire` | `lfs_hook.go`: lock, look up the writer of the level, format |
| `WriteNext`, `WriteStep` | `io.MultiWriter`: the next writer, the steps inside it, the first error ends it |
| `Background` | clock and cleanup goroutines |
| `Restart` | a crash; the new process configures itself again |

Fire's mutex is held over all its writes. Nobody closes the writers, so `Close` is no step
here. `LfsHook.SetFormatter` is left out; whether formatting may fail is `FormatFails`.

### ExitHandlers, PipeWriter, PipeExit

`ExitHandlers` has one stack of frames per goroutine: `Exit` pushes a frame with the slice as
`range` has evaluated it, a handler may return, panic, register, exit again (one more
frame) or end its goroutine, and the last step of a frame calls `os.Exit` or the logger's
`ExitFunc`, which may come back. Registrations are atomic: the slice has no lock, and
callers that overlap them have a data race.

`PipeWriter` has the two halves of the pipe. `io.Pipe` and `bufio.Scanner` are not under `src/`
and are modelled from their use in `writer.go`: `Write` holds the pipe's write lock, offers its
bytes and returns when all are taken or an end is closed; the scanner reads into a
buffer of `Limit` bytes, splits it at line feeds and gives up on a longer line or too many
empty reads. `HandOver` is `printFunc`, `Complain` and `CloseReader` are the end of
`writerScanner`, `CloseWriter` is `Close` or the finalizer.

`PipeExit` composes them. `printFunc` is `Info` for all levels that only log, `Fatal`, whose exit
handlers run on the scanner's goroutine, or `Panic`, which nobody recovers. The handlers
are user code, which may write to the pipe. Then the scanner waits for itself: that is
`Jammed`, and the two liveness properties say that it is the only way to wait for ever.
A handler may exit in turn, and then runs again inside itself. `MaxDepth` is what the
stack has room for, at least one call and otherwise left open; the call beyond it is
`Overflow`, the end of the process by Go's stack limit. So a handler that exits each time it runs
ends the process too, though never by `os.Exit` (section 5). `MaxCalls` bounds the calls: a handler that
exits by an `ExitFunc` that returns, and does so in a loop, goes on for ever, which is
the handler's own doing.

### Properties

`PROJECT.json` names, for each property, a mutation of the code that breaks it; the
mutated operators stand in the modules beside the originals (`HandedStale`, `NotEmptied`,
`InPlaceAny`, ...), each one a plausible edit of the Go code, among them the double log
line of `Infoln` that CHANGELOG.md records.

## 3. The runs

Deadlock is not checked: bounded calls end, and processes exit. `expect` says which runs are
there to show a difference between code and documents.

| Run | Question | Bounds |
|---|---|---|
| `logger_sharing` | Is anything shared used by two? Does the logger keep its promise? | 2 goroutines, 2 calls, 1 `WithField`, 1 setter call (also `AddHook`, `ReplaceHooks`), 2 pools, 2 writers, 1 hook that changes and keeps its entry, messages with a line feed |
| `logger_failures` | Does every error path give back what it took, and is the promise kept all the same? | 2 goroutines, 2 calls at Panic, Fatal, Info, 2 hooks; hooks, formatter and writer succeed, fail or panic |
| `logger_levels` | Does a call honour the levels? | 1 goroutine, 2 calls of every kind, 2 `SetLevel` with 1 or 2 arguments |
| `logger_returns` | Does every call return, and whom does `SetNoLock` at any time strand? | 2 goroutines, the call that a hook makes, 2 calls in all, any failure |
| `logger_hooks_concurrent` | Is the mutex held when hooks fire, as README_en.md:397 says? It is not. | 2 goroutines |
| `async_hook` | May a hook's worker use its entry later, as entry.go:52-53 says? Its line lands in the buffer of the call. | 2 goroutines, 1 hook |
| `rotating_files` | Does the writer keep its files, sizes and descriptors straight whatever fails, and end its goroutine? | 1 writer, 2 goroutines, 3 writes, 1 crash, time 0..3, maxAge 2, rotation 2, size limit 3 bytes, records of 2, all faults |
| `lfs_files` | Are accepted lines kept, in both files, in one order, whatever cleanup, settings and restarts do? | 2 writers with one prefix, 2 goroutines, 2 fires (4 writes), 1 event, maxAge 2, time 0..3, open may fail |
| `lfs_max_age` | Does cleanup follow `SetMaxAge`, as README_en.md:172 says? Not after the configuration. | 1 goroutine, 1 fire |
| `formatters` | Do fields survive, and do default keys tell the truth? | 2 goroutines, 4 field sets, 9 formatters, 2 `WithFields`, 2 lines, 1 `SetReportCaller` |
| `format_caller_race` | Are fields never overwritten, as formatter.go:30 says? With `SetReportCaller` in between they are. | 1 goroutine, text and JSON, 1 line, 2 `SetReportCaller` |
| `pipe_exit` | Are lines whole, do handlers all run, does every `Write` return and every `Exit` end, also when handlers exit? | scanner and 1 goroutine, 2 handlers; registrations, exits (besides those of Fatal) and writes 4 in all, at most 2 writes; lines of 2 bytes, a stack of 2 |

Why the bounds are enough. Sharing needs two parties, and each object is shared by a
later call only through a pool: two calls cover "a call after", "a call beside" and "a
call inside" another. The ids of entries and buffers are more than any behaviour within
the bounds uses at once, so that no step is missing for want of memory (checked by
running with `UnusedEntries` and `UnusedBuffers` non-empty as an invariant). The levels
run needs one goroutine only, since levels are decided per call.

For `logger_returns`: the calls that may be stranded are those that have read `disabled` as
false (`logger.go:64`) before the switch and wait for the inner mutex when its holder's `Unlock`
comes after the switch and does nothing. The holder may have locked before the switch, or
after it, if it too had read the flag before: two calls between the read and the lock are enough, and
the run has them. All other calls return, those that begin after the switch among them.

For the files: with a size limit of 3 bytes and records of 2, `rotating_files` has a file that is
short of the limit, one that a record has carried past it, and one that stands at it or
beyond after a partial write; a second write in the same minute, one
in the next minute of the same period and one in the next period, at each of which any
system call may fail. `lfs_files` runs until files of the first minute are past maxAge, with
a write at any point of a cleanup, by two writers whose prefixes overlap, and one
event besides: a setting or a restart. Two events at once add no actor that the two runs
do not have. All kinds of faults beside expiry, in one writer, are in `rotating_files`; two
writers need the failure to open only.

For the formatters: the four sets of fields clash with a default key, with the key that a
clash moves to, with the caller's, and not at all; two calls of `WithFields` are what
"chained" means; one call of `SetReportCaller` can come between any two reads of one line;
two lines are what "the first one" and "a later one" need. The formatters are one for each setting.

For the pipe: a chunk of one empty line and the start of the next, a chunk that fills the
buffer, so that the next byte makes the line too long, and an empty chunk, the one empty
read that is too many (100 in `bufio`). `Exit` is nested twice, a handler more than the
first is registered, and one goroutine besides the scanner is enough to write, close and
exit against it. Registrations, writes and calls of `Exit` are four in all: among
these are one handler and three exits, one more than the stack has room for, and a line at
fatal level whose handler exits twice.

Symmetry is declared for the goroutines of `formatters` and `lfs_files`, which only check
invariants that treat them alike. The other runs have temporal properties, or hooks and
calls that are not interchangeable.

Fairness. `FairSpec` asks weak fairness of `Step(p)` of each frame: a goroutine that can
run runs, and a waiter gets the mutex. Weak fairness is enough for the second because
within the bounds the mutex cannot be taken for ever by others; Go's `sync.Mutex` gives
more (starvation mode). It also says that hooks, formatters and writers return, which is
the application's part. In `RotatingFile`, callers inside `Write` and cleanup goroutines
go on; the bounded clock stops the ticks, where Go's `select` would choose the closed
channel with probability 1. In `PipeExit`,
the scanner goes on, and so does a goroutine inside `Write`, inside `runHandlers`, or in a
handler that does not wait for the pipe; the fairness is on what changes the state but for
`printFunc`, which never changes. That handlers end is the application's part. Nobody is
obliged to start a call, to write or to call a setter.

## 4. The proofs

Every invariant and every action property that a passing run checks, and the refinement,
is also a theorem of its specification, for all values of the constants: any number of
goroutines, hooks, writers, files, any bounds, sizes and periods. `PROJECT.json` lists the
theorems with the properties they state; each stands at the end of its module. The
four liveness properties are left to TLC.

| Module | About | Theorems |
|---|---|---|
| `EntryProofs` | `Logger` | `MutualExclusion`, `MutexReleased`, `TypeCorrect`, `PooledEntriesAreOwned` |
| `BufferProofs` | `Logger` | `BuffersAreOwned`, `EntriesRestPristine`, `BuffersGoHome`, `HeldEntriesStay` |
| `LineProofs` | `Logger` | `LinesAreWhole`, `OutputIsFenced` |
| `DeliveryProofs` | `LoggerDelivery` | `DeliversAsPromised`, `LevelsAreHonoured`, `HooksAreHonoured` |
| `RotatingFileProofs` | `RotatingFile` | seven, and `AcceptedStayReadable` |
| `LfsHookProofs` | `LfsHook` | `FilesAgreeOnOrder`, `NilReachesEveryFile`, `LfsWritesStayReadable`, two more |
| `PipeExitProofs` | `PipeExit` | `HandlersRunInOrder`, `LinesAreFaithful`, `RefusalsAreExplained`, `PipeExitTypeCorrect` |
| `FormattersProofs` | `Formatters` | `EveryFieldSurvives`, `DefaultKeysTellTrue`, `RefusalsStayNamed`, `OrderFitsThePrint`, `FormattersTypeCorrect` |

### The logger

Four layers, each an inductive invariant that takes the one below for granted.

1. *Mutex.* `LockInv`: while the mutex is on, a frame is at `snapshot` or `write` exactly when it
   holds the inner lock. `SetNoLock` makes it void, which is why `WritesSerialised`,
   `LockHeldOnlyInside` and `OutputFence` are about `~disabled`.
2. *Entries.* `IInv` has three parts that need each other. `LocalInv` says what a frame knows
   at each label (it has an entry, a line's entry, a buffer). `OwnInv` says who may hold an
   entry: a frame's own pooled entry is held by nobody else, the entry of a line is the pooled
   one only when it is logged in place below Panic with no hooks to observe it, and what the
   application or a hook holds is never pooled. `TypeOK` rests on both, since
   `heap[frame[p].new]` has a type only where there is such an entry. The lemma `OthersKeep`
   carries the invariant over for all frames but the one that steps, so each action's
   lemma is about its own frame.
3. *Buffers.* `BufInv`: a frame's buffer is no other frame's and in no pool, one at rest is
   empty and in one pool, and an entry points to a buffer only while its line is
   between `getBuffer` and `putBuffer`. Here the ownership of entries is used: an entry that
   two frames used would lend one frame's buffer to the other. With `PoolPristine` this is
   `RestingInv`, from which the two action properties follow step by step.
   What the lemmas `TrimsOnly` and `FormatOnly` say, that formatting changes no field of an entry but
   that one, carries the rest of the invariant over the formatter's write to a held entry.
   `HeldEntriesStay` follows from both layers: an entry held by others is the one of a line only
   for the frame whose call it is.
4. *Lines.* `LineInv` numbers the calls: a frame's entry holds the time, caller and fields
   of the frame's own call and no other, its data shows a key of a hook only when that hook
   was delivered the entry, and what is in its buffer is a line of this call. `LineIntegrity`
   alone is not inductive, as it speaks of what has been written and not of what is being
   prepared.

`DeliveryProofs` shows `Init => LD!Init` and that each step is a step of `LogDelivery` or a
stutter. The mapping needs that each call's number is on one frame at most (`LineInv`) and on none at
rest (`EndInv`), so that `StatusOf` changes only where a call starts or returns, and that a call that
can still deliver has not written. `LevelInv` and `FiredInv` relate what a frame has read of the levels to
the history variables that say whether a level was enabled all along or never.
Two theorems have hypotheses, both of the run `logger_levels` and both necessary: with
failures a call may return without its line (`Outcomes \subseteq {"ok"}`), and a hook
added while a call is under way need not fire for it (no `addHook`, `replaceHooks`).

### The files

`RInv` ties the fields of a writer to the directory: the descriptor, the size and the link
belong to the file that is open; a call inside `Write` holds its writer's mutex; a
file's records are of a period its minute touches, in the order of their numbers, and those that begin
beyond `MaxSize` of that one minute; the link is that of the open file, gone, or marked as failed; a cleanup pass under way has an entry to look at. The properties are
consequences, some by arithmetic about minutes and periods (`Euclid`, `SpanBound`).

Retention, `AcceptedWritesKept`, needs more (`KeepInv`). The argument is about the minute in a
name: no file was last written before it (`StampInv`), so what a cleanup pass is about to remove
has a name from before the pass's cutoff, which lies a MaxAge back (`PassInv`), and the file that is open
has its name still, unless that minute is longer than MaxAge past (`GoneInv`). Whatever such a file
holds was accepted at most one span after the minute it is named by, a write between the look at
its age and its removal included.

Two hypotheses are limits of the code, not of the proof:

- `Nested`: of minute and rotation period, one divides the other, as with the
  defaults of 24 hours and the minute in the name. Otherwise a file can span more than either: with
  a minute of 3 and a rotation of 4 units, 5.
- `Covering`: a writer that by its prefix removes files of another one was made with at least
  that one's MaxAge. In `LfsHook` this is proved from `LfsAssumption`, not assumed: all writers are
  made with an age of the logger at least as long as what the theorem promises.

`HInv` says of the hook that who fires holds the mutex and fires the last entry, and that
writes are numbered in the order of entries (`OrderInv`), once per file (`OnceInv`). The
steps of `LfsHook` are steps of the writers (`FitStep`), so all of `RInv` and `KeepInv` carry over.

### The pipe and the exit handlers

`ExitInv`: the slice of handlers is the order that the two registering functions document
(`InOrder`, which counts the registrations that go before one), and each frame of
`runHandlers` has run a prefix of the slice as it was when `range` evaluated it. `PipeInv`: what was
printed, joined by line feeds, and what the buffer holds are the text taken; the scanner's
labels and its error determine what has been logged and closed. `Nested` ties the two together:
the scanner's goroutine runs handlers only below `printFunc`.

`LinesFaithful` is about the join of all lines printed, which the community modules define by
a fold. What a fold computes is proved by induction; `SetInduction` derives it for a
*set* of numbers from the library's well-foundedness of `<`, which is first-order, where the
library's induction theorems take an operator as a parameter and no installed prover can use
them.

### The formatters

`FormatInv` follows a line through the labels. The core is `ClashedFacts`, about
`prefixFieldClashes` for any function from keys to values: nothing is left under the key of a
default field, and each value is still there unless another key was renamed onto its key.
It rests on the lengths of keys: a renamed key has one part more than any that clashes, so it
does not clash again, and two keys are not renamed onto one. `DataInv` then says that
what the user wants (`Wanted`) is at a key no default field will take; `EmitInv` that it
is printed or waits at the caller's key, which is only when the caller is not shown. For a line that
`SetReportCaller` disturbed, this is lost, and the rest is not.

### Assumptions

Of the constants, only the named assumptions that TLC evaluates on each run:
`NoProcAssumption`, `ConstantsAssumption` (with `Hooks \cap Outs = {}`: a hook is no writer),
`RotatingAssumption`, `LfsAssumption`, `ExitAssumption`, `PipeAssumption`, `PipeExitAssumption`,
`FormattersAssumption`; and the hypotheses named above. The invariants were checked by TLC on
the instances of the runs before they were proved.

### What stays with TLC

- Liveness (`CallsReturnUnlessStranded`, `CleanerEnds`, `WritersReturn`, `ExitsEnd`): tlapm has no
  rules for `ENABLED`, and so none for fairness.
- The four properties that runs show violated.
- `AsyncHook`, whose run is such a one.

## 5. Where the code and its documents differ

- README_en.md:397 says the mutex is held when hooks are called; since hooks are fired
  after the unlock (`entry.go:270`, `294`) they run concurrently (`logger_hooks_concurrent`).
- entry.go:52-53 lets entries be passed around freely, hooks.go:6-9 tells hooks to use
  workers; an entry kept by a worker shares its buffer with the call (`async_hook`).
- README_en.md:150-152 sets the retention after the file hook is configured, and :172 says it
  is configurable by `SetMaxAge`; the writers have read the age by then (`lfs_max_age`).
- The comment at formatter.go:30 says fields of the user are not silently overwritten; a
  `SetReportCaller` while a line is formatted lets `func` and `file` go over them
  (`format_caller_race`).

Three more that no run is about: the comment at alt_exit.go:48 says `Exit` runs the handlers and
then calls `os.Exit`, but a handler that calls `Exit` or logs a fatal entry is called again
inside itself (`alt_exit.go:43`), and the process ends when the stack is full (`Overflow`); README_en.md:15 says the writer rotates by size, but a file
name has only the minute, so within a minute the full file is opened again
(`OversizeByOneRecord` states what does hold); README_en.md:163 has all levels in the common
file, but `WriterMap` has no entry for trace (`Route` gives `<<>>` for such a level).

## 6. Not modelled

Level names are string tables. `getCaller` walks the Go stack. The test hook is a slice
under a mutex. The syslog and writer hooks write one formatted line and keep no state: any
hook of `Logger` stands for them. Terminal checks are system calls. Of the formatters,
quoting, escaping, colours, number formats, `DisableColors` and the environment are left out;
of the setters, the two `SetFormatter`s. The logger's formatter is an interface value read
without the lock, and a torn one has no outcome to reason about; the hook's is set under the
hook's mutex and changes nothing but the text of later lines. The package-level `SetBufferPool`
(`buffer_pool.go:31`) stores without any mutex, so it has to come before the first call: `SetBufferPool`
of the model is the logger's.

## 7. Plan

The model is complete but for what section 6 lists, and the safety properties are proved. What is
left to say:

1. `RotatingFile`: without `Nested`, an accepted write should stay for MaxAge less
   `Rotation + Minute - 2`; to be checked with a minute of 3 and a rotation of 4, then proved as the
   general form of `AcceptedStayReadable`.
2. `Logger`: that levels are honoured with failures, for calls whose hooks and writer succeed; this
   needs a history of the failures of a call.
3. `LfsHook`: an abstract specification, a sequence of entries per file, and the mapping to it, so that
   `SameOrder` and `NilMeansEverywhere` become consequences of one refinement.
4. `PipeExit`: the same for the pipe: a queue of lines between `Write` and `printFunc`.
