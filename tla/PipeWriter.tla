------------------------------ MODULE PipeWriter ------------------------------
(***************************************************************************)
(* Logger.Writer (writer.go): a pipe, and a goroutine whose scanner turns  *)
(* what is written into lines and prints each one.  io.Pipe and            *)
(* bufio.Scanner are external: modelled as far as writer.go depends on     *)
(* them -- Write returns once the reader has taken all of it, in pieces    *)
(* that fit the scanner's buffer; a line that does not fit, and too many   *)
(* empty reads, end the scanner.                                           *)
(*                                                                         *)
(* Text is a sequence of "x" and "nl".  The carriage return that           *)
(* ScanLines drops is left out.                                            *)
(***************************************************************************)
EXTENDS Integers, Sequences, SequencesExt

CONSTANTS
  Producers,   \* the goroutines that write to the pipe
  NoProducer,
  Chunks,      \* arguments of Write
  Limit,       \* bufio.MaxScanTokenSize
  EmptyReads,  \* maxConsecutiveEmptyReads
  MaxChunks    \* bound: calls of Write

ASSUME PipeAssumption ==
  /\ NoProducer \notin Producers /\ Chunks \subseteq Seq({"x", "nl"})
  /\ Limit \in Nat \ {0} /\ EmptyReads \in Nat /\ MaxChunks \in Nat

VARIABLES
  wrMu,      \* the producer that is inside the pipe's Write
  offer,     \* [Producers -> [pc, rest]]: the Write each one is in
  closed,    \* a subset of {"reader", "writer"}
  scan,      \* the scanner: pc, buf, err, empties, line
  taken,     \* history: the text the scanner has read
  printed,   \* the lines given to printFunc
  complained,\* whether "Error while reading from Writer" was logged
  chunks,    \* number of calls of Write
  refused    \* history: whether some Write failed while the writer was open

pipeVars == <<wrMu, offer, closed, scan, taken, printed, complained, chunks, refused>>

NoOffer == [pc |-> "idle", rest |-> <<>>]

------------------------------------------------------------------------------
(* The pipe.                                                                *)

Write(p, c) ==
  /\ offer[p].pc = "idle" /\ chunks < MaxChunks
  /\ chunks' = chunks + 1
  /\ offer' = [offer EXCEPT ![p] = [pc |-> "wait", rest |-> c]]
  /\ UNCHANGED <<wrMu, closed, scan, taken, printed, complained, refused>>

LockPipe(p) ==
  /\ offer[p].pc = "wait" /\ wrMu = NoProducer /\ closed = {}
  /\ wrMu' = p /\ offer' = [offer EXCEPT ![p].pc = "offer"]
  /\ UNCHANGED <<closed, scan, taken, printed, complained, chunks, refused>>

Freed(p) == IF wrMu = p THEN NoProducer ELSE wrMu

\* io.ErrClosedPipe
WriteFails(p) ==
  /\ offer[p].pc # "idle" /\ closed # {}
  /\ offer' = [offer EXCEPT ![p] = NoOffer] /\ wrMu' = Freed(p)
  /\ refused' = (refused \/ "writer" \notin closed)
  /\ UNCHANGED <<closed, scan, taken, printed, complained, chunks>>

\* PipeWriter.Close: of a user, or of writerFinalizer when nobody can write any more.
CloseWriter ==
  /\ closed' = closed \cup {"writer"} /\ closed' # closed
  /\ UNCHANGED <<wrMu, offer, scan, taken, printed, complained, chunks, refused>>

------------------------------------------------------------------------------
(* The scanner.                                                             *)

Room == Limit - Len(scan.buf)

\* Read takes what fits of the Write that is inside; Write returns with its last piece.
Read(p) ==
  /\ scan.pc = "read" /\ closed = {} /\ offer[p].pc = "offer"
  /\ LET piece == SubSeq(offer[p].rest, 1, Min({Room, Len(offer[p].rest)}))
         rest  == SubSeq(offer[p].rest, Len(piece) + 1, Len(offer[p].rest))
     IN  /\ taken' = taken \o piece
         /\ offer' = [offer EXCEPT ![p] = IF rest = <<>> THEN NoOffer ELSE [@ EXCEPT !.rest = rest]]
         /\ wrMu' = IF rest = <<>> THEN NoProducer ELSE p
         /\ scan' = IF piece # <<>>
                    THEN [scan EXCEPT !.buf = @ \o piece, !.pc = "split", !.empties = 0]
                    ELSE IF scan.empties < EmptyReads THEN [scan EXCEPT !.empties = @ + 1]
                    ELSE [scan EXCEPT !.err = "progress", !.pc = "split"]
  /\ UNCHANGED <<closed, printed, complained, chunks, refused>>

\* io.EOF
ReadEnd ==
  /\ scan.pc = "read" /\ "writer" \in closed
  /\ scan' = [scan EXCEPT !.err = "eof", !.pc = "split"]
  /\ UNCHANGED <<wrMu, offer, closed, taken, printed, complained, chunks, refused>>

\* Where the first line of the text ends, 0 without a line feed.
LineEnd(text) == IF \E i \in DOMAIN text : text[i] = "nl"
                 THEN CHOOSE i \in DOMAIN text : /\ text[i] = "nl"
                                                 /\ \A j \in 1..(i - 1) : text[j] # "nl"
                 ELSE 0

\* The rest of Scan: ScanLines on the buffer, an error at its end or a buffer that is full.
Split ==
  /\ scan.pc = "split"
  /\ LET end == LineEnd(scan.buf) IN
     scan' = IF end # 0
             THEN [scan EXCEPT !.pc = "print", !.line = SubSeq(scan.buf, 1, end - 1),
                               !.buf = SubSeq(@, end + 1, Len(@))]
             ELSE IF scan.err # "no"
             THEN IF scan.buf = <<>> THEN [scan EXCEPT !.pc = "stop"]
                  ELSE [scan EXCEPT !.pc = "print", !.line = scan.buf, !.buf = <<>>]
             ELSE IF Room = 0 THEN [scan EXCEPT !.pc = "stop", !.err = "long"]
             ELSE [scan EXCEPT !.pc = "read", !.empties = 0]
  /\ UNCHANGED <<wrMu, offer, closed, taken, printed, complained, chunks, refused>>

\* Mutant of Handed: scanner.Text() is looked at before it is printed, empty lines are not.
HandedNonEmpty == IF scan.line = <<>> THEN printed ELSE Append(printed, scan.line)

Handed == Append(printed, scan.line)

\* printFunc(scanner.Text()); then is where the scanner goes on, "split" if it returns.
HandOver(then) ==
  /\ scan.pc = "print"
  /\ printed' = Handed
  /\ scan' = [scan EXCEPT !.pc = then, !.line = <<>>]
  /\ UNCHANGED <<wrMu, offer, closed, taken, complained, chunks, refused>>

\* Mutant of Complains: scanner.Err() is not looked at.
ComplainsNever == FALSE

Complains == scan.err # "eof"

\* Errorf, when scanner.Err() is an error.
Complain ==
  /\ scan.pc = "stop"
  /\ complained' = Complains
  /\ scan' = [scan EXCEPT !.pc = "close"]
  /\ UNCHANGED <<wrMu, offer, closed, taken, printed, chunks, refused>>

\* Mutant of AtEnd: the reader is left open.
AtEndOpen == closed

AtEnd == closed \cup {"reader"}

\* reader.Close()
CloseReader ==
  /\ scan.pc = "close"
  /\ closed' = AtEnd
  /\ scan' = [scan EXCEPT !.pc = "ended"]
  /\ UNCHANGED <<wrMu, offer, taken, printed, complained, chunks, refused>>

PipeInit ==
  /\ wrMu = NoProducer /\ offer = [p \in Producers |-> NoOffer] /\ closed = {}
  /\ scan = [pc |-> "split", buf |-> <<>>, err |-> "no", empties |-> 0, line |-> <<>>]
  /\ taken = <<>> /\ printed = <<>> /\ complained = FALSE /\ chunks = 0 /\ refused = FALSE

------------------------------------------------------------------------------
(* Properties.                                                              *)

PipeTypeOK ==
  /\ wrMu \in Producers \cup {NoProducer} /\ chunks \in 0..MaxChunks
  /\ \A p \in Producers : offer[p].pc = "offer" => wrMu = p
  /\ Len(scan.buf) <= Limit /\ scan.empties <= EmptyReads
  /\ scan.err \in {"no", "eof", "long", "progress"}
  /\ scan.pc \in {"read", "split", "print", "exiting", "stop", "close", "ended"}

\* The text that a list of lines stands for, with a line feed after each one.
Unlines(list) == FlattenSeq([i \in DOMAIN list |-> Append(list[i], "nl")])

\* What was printed, in its order, and what the scanner still holds make up exactly what it
\* has taken from the writes, so no byte a Write was answered for is lost or doubled as long as
\* the scanner runs; when it has ended by EOF everything is printed, the unfinished last
\* line too.
LinesFaithful ==
  LET text == Unlines(printed)
      held == IF scan.pc = "print" THEN scan.line \o <<"nl">> \o scan.buf ELSE scan.buf
  IN  /\ text \o held \in {taken, Append(taken, "nl")}
      /\ scan.pc = "ended" /\ scan.err = "eof" => text \in {taken, Append(taken, "nl")}

\* A Write fails on a pipe whose writer nobody has closed only after the error that ended
\* the scanner was logged.
RefusalsExplained == refused => complained \/ "writer" \in closed
===============================================================================
