------------------------------- MODULE PipeExit -------------------------------
(***************************************************************************)
(* The pipe writer and the exit handlers together: printFunc of a pipe at  *)
(* fatal level (Entry.Fatal) runs the exit handlers on the scanner's own   *)
(* goroutine, and exit handlers write to the pipe and close it.            *)
(***************************************************************************)
EXTENDS ExitHandlers, PipeWriter

CONSTANTS
  Scanner,  \* the goroutine of writerScanner
  MaxDepth, \* how many calls of Exit, each in a handler of the last, a stack has room for
  MaxCalls, \* bound: registrations, writes and calls of Exit (but those of Fatal on the pipe)
  Levels    \* arguments of WriterLevel: "info" stands for all that only log

ASSUME PipeExitAssumption ==
  /\ Scanner \in Threads /\ Producers = Threads
  /\ Levels \subseteq {"info", "fatal", "panic"}
  /\ MaxDepth \in Nat \ {0} /\ MaxCalls \in Nat

VARIABLES
  printFunc,  \* the method of Entry that it is, chosen once by the level
  exits       \* number of calls of Exit

stepVars == <<exitVars, pipeVars, exits>>
allVars  == <<stepVars, printFunc>>

\* A goroutine in Write does nothing else; the scanner's runs user code in handlers only.
Free(t) == UserCode(t) /\ offer[t].pc = "idle" /\ (t = Scanner => InHandler(t))

------------------------------------------------------------------------------
(* The steps of user code.                                                  *)

MoreCalls == Len(registered) + exits + chunks < MaxCalls

UserRegister(t) == /\ Free(t) /\ MoreCalls
                   /\ \E h \in Handlers, first \in BOOLEAN : Register(t, h, first)
                   /\ UNCHANGED <<pipeVars, exits>>

\* Handlers that exit each time they run go on until the stack is used up, which is the
\* end of the process: no recover stops it, and os.Exit is not reached.
Overflow == /\ ended' = [how |-> "overflow", frame |-> NoFrame]
            /\ UNCHANGED <<handlers, registered, frames, gone>>

\* Exit and Fatal, in the caller's code or in a handler.
UserExit(t) == /\ Free(t) /\ MoreCalls /\ exits' = exits + 1
               /\ \/ Len(frames[t]) < MaxDepth /\ Exit(t)
                  \/ Len(frames[t]) = MaxDepth /\ Overflow
               /\ UNCHANGED pipeVars

UserWrite(t) == /\ Free(t) /\ MoreCalls
                /\ \E c \in Chunks : Write(t, c)
                /\ UNCHANGED <<exitVars, exits>>

UserClose(t) == Free(t) /\ CloseWriter /\ UNCHANGED <<exitVars, exits>>

HandlerEnds(t) == /\ Free(t)
                  /\ \E how \in {"return", "panic"} : EndHandler(t, how)
                  /\ UNCHANGED <<pipeVars, exits>>

HandlerGoexit(t) == Free(t) /\ Goexit(t) /\ UNCHANGED <<pipeVars, exits>>

------------------------------------------------------------------------------
(* The steps of the library.                                                *)

ExitStep(t) == (StartHandler(t) \/ Finish(t)) /\ UNCHANGED <<pipeVars, exits>>

PipeStep(t) == Running /\ (LockPipe(t) \/ WriteFails(t)) /\ UNCHANGED <<exitVars, exits>>

\* Entry.Info; Entry.Fatal, which goes on in Exit; Entry.Panic, which nobody recovers.
PrintLine ==
  CASE printFunc = "info"  -> HandOver("split") /\ UNCHANGED exitVars
    [] printFunc = "fatal" -> HandOver("exiting") /\ Exit(Scanner)
    [] printFunc = "panic" -> /\ HandOver("split")
                          /\ ended' = [how |-> "panic", frame |-> NoFrame]
                          /\ UNCHANGED <<handlers, registered, frames, gone>>

\* ExitFunc has returned, and Fatal with it.
PrintReturns ==
  /\ scan.pc = "exiting" /\ frames[Scanner] = <<>>
  /\ scan' = [scan EXCEPT !.pc = "split"]
  /\ UNCHANGED <<exitVars, wrMu, offer, closed, taken, printed, complained, chunks, refused>>

ScannerStep ==
  /\ Running /\ Scanner \notin gone /\ UNCHANGED exits
  /\ \/ PrintLine \/ PrintReturns
     \/ (ReadEnd \/ Split \/ Complain \/ CloseReader) /\ UNCHANGED exitVars
     \/ \E p \in Producers : Read(p) /\ UNCHANGED exitVars

\* WriterLevel: the pipe, printFunc, and the goroutine of writerScanner.
PipeExitInit == ExitInit /\ PipeInit /\ printFunc \in Levels /\ exits = 0

PipeExitNext ==
  /\ \/ ScannerStep
     \/ \E t \in Threads :
          \/ UserRegister(t) \/ UserExit(t) \/ UserWrite(t) \/ UserClose(t)
          \/ HandlerEnds(t) \/ HandlerGoexit(t) \/ ExitStep(t) \/ PipeStep(t)
  /\ UNCHANGED printFunc

\* Goroutines keep running, and handlers end unless they wait for the pipe.
PipeExitFairness ==
  /\ WF_stepVars(ScannerStep)
  /\ \A t \in Threads : /\ WF_stepVars(ExitStep(t)) /\ WF_stepVars(PipeStep(t))
                        /\ WF_stepVars(HandlerEnds(t) \/ HandlerGoexit(t))

PipeExitSpec == PipeExitInit /\ [][PipeExitNext]_allVars /\ PipeExitFairness

------------------------------------------------------------------------------
(* Properties.                                                              *)

PipeExitTypeOK ==
  /\ ExitTypeOK /\ PipeTypeOK /\ printFunc \in Levels
  /\ scan.pc = "exiting" \/ Scanner \in gone \/ frames[Scanner] = <<>>
  /\ offer[Scanner].pc # "idle" => InHandler(Scanner)

\* The scanner's goroutine has ended in an exit handler, or waits in one for itself.
Jammed == Scanner \in gone \/ offer[Scanner].pc # "idle"

\* A Write ends, also when the scanner has given up or the writer is closed, unless an
\* exit handler on the scanner's goroutine writes to the pipe or ends that goroutine.
WritersReturn ==
  \A p \in Producers : offer[p].pc # "idle" ~> offer[p].pc = "idle" \/ ~Running \/ Jammed

\* Exit and Fatal come to an end, short of Goexit and of the scanner waiting for itself: by
\* os.Exit, by the return of ExitFunc, or, when the handlers exit or log a fatal entry each
\* time they run (alt_exit.go:43), by running out of stack.  Assumed of a handler is that it
\* calls Exit only so often before it returns (MaxCalls).
ExitsEnd == \A t \in Threads : frames[t] # <<>> ~> frames[t] = <<>> \/ ~Running \/ Jammed
===============================================================================
