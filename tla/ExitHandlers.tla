----------------------------- MODULE ExitHandlers -----------------------------
(***************************************************************************)
(* The exit handlers (alt_exit.go) and the two ways to run them: Exit,     *)
(* which ends the process, and Logger.Exit (logger.go), which calls        *)
(* Logger.ExitFunc, so that it may come back.                              *)
(*                                                                         *)
(* Threads run Exit at the same time; a handler may return, panic, end its *)
(* goroutine, register handlers, or log a fatal entry and so run all       *)
(* handlers again.  Registrations are atomic here: callers do not overlap  *)
(* them, as the slice has no lock.                                         *)
(***************************************************************************)
EXTENDS Integers, Sequences, SequencesExt

CONSTANTS
  Threads,
  Handlers,
  ExitFuncs,   \* what Logger.ExitFunc may do: "exits", "returns"
  MaxHandlers  \* bound: registrations

ASSUME ExitAssumption ==
  /\ ExitFuncs \subseteq {"exits", "returns"}
  /\ MaxHandlers \in Nat

VARIABLES
  handlers,    \* the slice of that name
  registered,  \* history: the registrations, [handler, first]
  frames,      \* [Threads -> Seq(Frame)]: the calls of runHandlers, the innermost last
  gone,        \* the goroutines that have ended by Goexit
  ended        \* [how, frame]: the end of the process, how = "no" before it

exitVars == <<handlers, registered, frames, gone, ended>>

\* all is the slice that range has evaluated, next the index in it, ran what has ended.
Frame(all, exitFunc) ==
  [all |-> all, next |-> 1, pc |-> "loop", ran |-> <<>>, exitFunc |-> exitFunc,
   known |-> Len(registered)]
NoFrame == [all |-> <<>>, next |-> 1, pc |-> "loop", ran |-> <<>>, exitFunc |-> "exits",
            known |-> 0]
Running == ended.how = "no"

InHandler(t) == frames[t] # <<>> /\ Last(frames[t]).pc = "body"
\* The caller's code, or a handler's.
UserCode(t) == Running /\ t \notin gone /\ (frames[t] = <<>> \/ InHandler(t))

SetTop(t, frame) == frames' = [frames EXCEPT ![t] = Append(Front(@), frame)]

------------------------------------------------------------------------------
\* Mutant of Prepended: the handlers that are there are dropped.
PrependedAlone(h) == <<h>>

Prepended(h) == <<h>> \o handlers

\* RegisterExitHandler and DeferExitHandler
Register(t, h, first) ==
  /\ UserCode(t) /\ Len(handlers) < MaxHandlers
  /\ handlers' = IF first THEN Prepended(h) ELSE Append(handlers, h)
  /\ registered' = Append(registered, [handler |-> h, first |-> first])
  /\ UNCHANGED <<frames, gone, ended>>

\* Exit and Logger.Exit, and Fatal after its entry: runHandlers begins.
Exit(t) ==
  /\ UserCode(t)
  /\ \E f \in ExitFuncs :
       frames' = [frames EXCEPT ![t] = Append(@, Frame(handlers, f))]
  /\ UNCHANGED <<handlers, registered, gone, ended>>

\* Mutant of MayRun: runHandlers holds a mutex from its first handler to its last.
MayRunLocked(t) == Len(frames[t]) = 1

\* runHandlers takes no lock.
MayRun(t) == TRUE

StartHandler(t) ==
  /\ Running /\ frames[t] # <<>> /\ MayRun(t)
  /\ LET top == Last(frames[t]) IN
       /\ top.pc = "loop" /\ top.next <= Len(top.all)
       /\ SetTop(t, [top EXCEPT !.pc = "body"])
  /\ UNCHANGED <<handlers, registered, gone, ended>>

\* Mutant of Recovered: runHandler has no recover.
RecoveredNot(how) == how = "return"

Recovered(how) == TRUE

\* A handler returns or panics.
EndHandler(t, how) ==
  /\ Running /\ InHandler(t)
  /\ LET top == Last(frames[t]) IN
     IF Recovered(how)
     THEN /\ SetTop(t, [top EXCEPT !.pc = "loop", !.next = @ + 1,
                                   !.ran = Append(@, top.all[top.next])])
          /\ UNCHANGED ended
     ELSE ended' = [how |-> "panic", frame |-> top] /\ UNCHANGED frames
  /\ UNCHANGED <<handlers, registered, gone>>

\* A handler calls runtime.Goexit (t.FailNow does): the goroutine ends, not the process.
Goexit(t) ==
  /\ Running /\ InHandler(t)
  /\ frames' = [frames EXCEPT ![t] = <<>>] /\ gone' = gone \cup {t}
  /\ UNCHANGED <<handlers, registered, ended>>

\* os.Exit or Logger.ExitFunc
Finish(t) ==
  /\ Running /\ frames[t] # <<>>
  /\ LET top == Last(frames[t]) IN
       /\ top.pc = "loop" /\ top.next > Len(top.all)
       /\ IF top.exitFunc = "exits"
          THEN ended' = [how |-> "exit", frame |-> top] /\ UNCHANGED frames
          ELSE frames' = [frames EXCEPT ![t] = Front(@)] /\ UNCHANGED ended
  /\ UNCHANGED <<handlers, registered, gone>>

ExitInit ==
  /\ handlers = <<>> /\ registered = <<>> /\ frames = [t \in Threads |-> <<>>]
  /\ gone = {} /\ ended = [how |-> "no", frame |-> NoFrame]

------------------------------------------------------------------------------
(* Properties.                                                              *)

ExitTypeOK ==
  /\ handlers \in Seq(Handlers) /\ Len(registered) = Len(handlers)
  /\ ended.how \in {"no", "exit", "panic", "overflow"} /\ gone \subseteq Threads
  /\ \A t \in Threads : \A i \in DOMAIN frames[t] :
       /\ frames[t][i].next \in 1..Len(frames[t][i].all) + 1
       /\ frames[t][i].pc \in {"loop", "body"}

\* The order the comments of RegisterExitHandler and DeferExitHandler give: what was
\* deferred, the latest first, then what was registered, the earliest first.  These are
\* the registrations whose handlers go before that of the i-th.
Ahead(history, i) ==
  {j \in DOMAIN history : IF history[i].first THEN history[j].first /\ j > i
                          ELSE history[j].first \/ j < i}
InOrder(list, history) ==
  /\ Len(list) = Len(history)
  /\ \A i \in DOMAIN history :
       list[Cardinality(Ahead(history, i)) + 1] = history[i].handler

\* When the process ends by Exit or Fatal, every handler that had been registered before
\* that call has run to its end or to its panic, in that order, whatever other goroutines
\* and the handlers themselves do; and no panic of a handler ends the process.
ExitRunsHandlers ==
  /\ ended.how = "exit" =>
       InOrder(ended.frame.ran, SubSeq(registered, 1, ended.frame.known))
  /\ ended.how = "panic" => ended.frame = NoFrame
===============================================================================
