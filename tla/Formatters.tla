------------------------------ MODULE Formatters ------------------------------
(***************************************************************************)
(* What a line says: WithFields (entry.go), prefixFieldClashes             *)
(* (formatter.go), and the Format methods of the text, JSON and simple     *)
(* formatters.  Goroutines format entries of their own with one formatter  *)
(* that they share, while another one calls SetReportCaller; the           *)
(* formatters read Logger.ReportCaller again and again without a lock, and *)
(* the text formatter reads isTerminal outside of its sync.Once.           *)
(*                                                                         *)
(* A key is a sequence of names: <<"time">> is the key time, and           *)
(* <<"fields", "time">> the key fields.time.  A value says whose it is.    *)
(* Quoting, colours and layout are left out; the order of the keys is the  *)
(* name of the order they were put in.                                     *)
(***************************************************************************)
EXTENDS Integers, Sequences, FiniteSets

CONSTANTS
  Goroutines,
  Names,        \* what keys are made of
  FieldSets,    \* arguments of WithFields: [good, bad], sets of keys
  Formats,      \* the formatters to start with
  MaxWith,      \* bound: calls of WithFields
  MaxLines,     \* bound: lines
  MaxToggles    \* bound: calls of SetReportCaller

DefaultNames == {"time", "msg", "level", "logrus_error", "func", "file"}
CallerNames  == {"func", "file"}
Under(key)   == <<"fields">> \o key

\* A formatter: the settings of TextFormatter and JSONFormatter that matter here.  renamed
\* is FieldMap, stamp is ~DisableTimestamp, empties what CallerPrettyfier blanks, nest is
\* DataKey or <<>>, tty whether Logger.Out is a terminal.
IsFormat(f) ==
  /\ f.kind \in {"text", "json", "simple"}
  /\ DOMAIN f.renamed \subseteq DefaultNames
  /\ \A n \in DOMAIN f.renamed : f.renamed[n] \in Seq(Names) /\ Len(f.renamed[n]) = 1
  /\ {f.stamp, f.force, f.tty} \subseteq BOOLEAN
  /\ f.sorting \in {"none", "default", "custom"}
  /\ f.empties \subseteq CallerNames
  /\ f.nest \in Seq(Names) /\ (f.nest # <<>> => f.kind = "json")

\* FieldMap.resolve, in the formatter f.
KeyOf(f, n) == IF n \in DOMAIN f.renamed THEN f.renamed[n] ELSE <<n>>

\* FieldMap leaves different names with different keys, none of them a clash's new name.
ASSUME FormattersAssumption ==
  /\ MaxWith \in Nat /\ MaxLines \in Nat /\ MaxToggles \in Nat
  /\ DefaultNames \cup {"fields"} \subseteq Names
  /\ \A f \in Formats : IsFormat(f) /\ \A m, n \in DefaultNames :
                          KeyOf(f, m) = KeyOf(f, n) => m = n
  /\ \A s \in FieldSets : /\ s.good \cup s.bad \subseteq Seq(Names)
                          /\ s.good \cap s.bad = {}

VARIABLES
  formatter,     \* the shared formatter, fixed once chosen
  terminal,      \* isTerminal
  initialised,   \* terminalInitOnce
  reportCaller,  \* Logger.ReportCaller
  line,          \* [Goroutines -> the entry and the local variables of Format]
  withs, lines, toggles   \* how often each was done

sharedVars == <<formatter, terminal, initialised, reportCaller>>
counts == <<withs, lines, toggles>>
vars == <<sharedVars, line, counts>>

------------------------------------------------------------------------------
(* Entries.                                                                 *)

Users(key)   == [of |-> "user", key |-> key]
Defaults(n)  == [of |-> "default", key |-> <<n>>]
Missing      == [of |-> "nil", key |-> <<>>]
Nested(key)  == [of |-> "data", key |-> key]

\* named is what entry.err names, refused the bad fields of each WithFields so far.
NewEntry == [data |-> {}, named |-> {}, refused |-> {}, caller |-> FALSE, msg |-> TRUE]

\* Mutant of ErrOf: the error of the entry is forgotten.
ErrOfLast(named, bad) == IF bad = {} THEN {named} ELSE {{key} : key \in bad}

\* fieldErr: what the entry had, and the last of the bad fields, in any order of the map.
ErrOf(named, bad) == IF bad = {} THEN {named} ELSE {named \cup {key} : key \in bad}

WithFields(e, s) ==
  {[e EXCEPT !.data = @ \cup s.good, !.named = named,
             !.refused = IF s.bad = {} THEN @ ELSE @ \cup {s.bad}] :
     named \in ErrOf(e.named, s.bad)}

NoLine == [pc |-> "idle", entry |-> NewEntry, data |-> <<>>, fixed |-> {},
           keys |-> "map", all |-> "map", todo |-> {}, out |-> {}, colored |-> FALSE,
           settled |-> TRUE, calm |-> TRUE]

------------------------------------------------------------------------------
(* Keys and clashes.                                                        *)

Resolve(n) == KeyOf(formatter, n)
Resolved(names) == {Resolve(n) : n \in names}

\* Entry.HasCaller
HasCaller(e) == reportCaller /\ e.caller

\* Mutant of Moved: level is forgotten.
MovedButLevel == Resolved({"time", "msg", "logrus_error"})

\* The keys that prefixFieldClashes renames.
Moved == Resolved({"time", "msg", "level", "logrus_error"})

\* Mutant of Copied: only the keys that are always there are looked at.
CopiedNone(caller) == {}

\* The keys that it copies and leaves where they are.
Copied(caller) == IF caller THEN Resolved(CallerNames) ELSE {}

Clashed(data, caller) ==
  LET clashes == (Moved \cup Copied(caller)) \cap DOMAIN data
      kept    == DOMAIN data \ Moved
  IN  [key \in kept \cup {Under(k) : k \in clashes} |->
         IF \E k \in clashes : key = Under(k) THEN data[CHOOSE k \in clashes : key = Under(k)]
         ELSE data[key]]

Shown(e) == [key \in e.data |-> Users(key)]

\* JSONFormatter.DataKey
Wrapped(e) == IF formatter.nest = <<>> THEN Shown(e)
              ELSE [key \in {formatter.nest} |-> Nested(key)]

CallerKeys(e) == IF HasCaller(e) THEN CallerNames \ formatter.empties ELSE {}

\* The default keys of a line.
FixedNames(e, callers) ==
  (IF formatter.stamp THEN {"time"} ELSE {}) \cup {"level"}
  \cup (IF e.msg THEN {"msg"} ELSE {}) \cup (IF e.named # {} THEN {"logrus_error"} ELSE {})
  \cup callers

Pairs(data) == {<<key, data[key]>> : key \in DOMAIN data}

------------------------------------------------------------------------------
(* The steps of a call.                                                     *)

\* Building the entry.
With(g) ==
  /\ line[g].pc = "idle" /\ withs < MaxWith
  /\ \E s \in FieldSets : \E e \in WithFields(line[g].entry, s) :
       line' = [line EXCEPT ![g].entry = e]
  /\ withs' = withs + 1 /\ UNCHANGED <<sharedVars, lines, toggles>>

\* log() has decided under the mutex whether the entry gets its caller.
Start(g) ==
  /\ line[g].pc = "idle" /\ lines < MaxLines
  /\ lines' = lines + 1
  /\ \E msg \in BOOLEAN :
       line' = [line EXCEPT ![g] =
         [@ EXCEPT !.pc = IF formatter.kind = "simple" THEN "simple" ELSE "clash",
                   !.entry = [line[g].entry EXCEPT !.caller = reportCaller, !.msg = msg],
                   !.settled = initialised, !.calm = TRUE]]
  /\ UNCHANGED <<sharedVars, withs, toggles>>

\* SimpleFormatter: the caller by the entry alone, no fields.
FormatSimple(g) ==
  /\ line[g].pc = "simple"
  /\ line' = [line EXCEPT ![g] =
       [@ EXCEPT !.pc = "done",
                 !.out = {<<<<>>, Defaults(n)>> :
                            n \in {"time", "level", "msg"}
                                  \cup (IF line[g].entry.caller THEN CallerNames ELSE {})}]]
  /\ UNCHANGED <<sharedVars, counts>>

\* The copy of the fields and prefixFieldClashes, both formatters.
Clash(g) ==
  /\ line[g].pc = "clash"
  /\ LET e == line[g].entry IN
     line' = [line EXCEPT ![g] =
       IF formatter.kind = "json"
       THEN [@ EXCEPT !.data = Clashed(Wrapped(e), HasCaller(e)), !.pc = "fill"]
       ELSE [@ EXCEPT !.data = Clashed(Shown(e), HasCaller(e)), !.pc = "fix"]]
  /\ UNCHANGED <<sharedVars, counts>>

\* JSONFormatter: the default keys go over the fields, whatever is there.
Fill(g) ==
  /\ line[g].pc = "fill"
  /\ LET e     == [line[g].entry EXCEPT !.msg = TRUE]
         names == FixedNames(e, CallerKeys(e))
         data  == line[g].data
     IN  line' = [line EXCEPT ![g] =
           [@ EXCEPT !.pc = "done",
                     !.out = {pair \in Pairs(data) : pair[1] \notin Resolved(names)}
                             \cup {<<Resolve(n), Defaults(n)>> : n \in names}]]
  /\ UNCHANGED <<sharedVars, counts>>

\* TextFormatter: fixedKeys.
Fix(g) ==
  /\ line[g].pc = "fix"
  /\ line' = [line EXCEPT ![g] =
       [@ EXCEPT !.pc = "sort", !.fixed = FixedNames(line[g].entry, CallerKeys(line[g].entry))]]
  /\ UNCHANGED <<sharedVars, counts>>

\* f.ForceColors or a terminal; DisableColors and the environment are not modelled.
Colored == formatter.force \/ terminal

\* Mutant of Ordered: SortingFunc is applied to the fixed keys whatever is printed.
OrderedFixed ==
  CASE formatter.sorting = "none"    -> [keys |-> "map", all |-> "map"]
    [] formatter.sorting = "default" -> [keys |-> "default", all |-> "default"]
    [] OTHER                         -> [keys |-> "map", all |-> "custom"]

\* The orders of keys (used with colours) and of fixedKeys (used without).
Ordered ==
  CASE formatter.sorting = "none"    -> [keys |-> "map", all |-> "map"]
    [] formatter.sorting = "default" -> [keys |-> "default", all |-> "default"]
    [] OTHER -> IF Colored THEN [keys |-> "custom", all |-> "none"]
                           ELSE [keys |-> "map", all |-> "custom"]

Sort(g) ==
  /\ line[g].pc = "sort"
  /\ line' = [line EXCEPT ![g] =
       [@ EXCEPT !.pc = "once", !.keys = Ordered.keys, !.all = Ordered.all]]
  /\ UNCHANGED <<sharedVars, counts>>

\* Mutant of InitOnce: it does not remember that it was done.
InitOnceForgotten(g) ==
  /\ line[g].pc = "once"
  /\ terminal' = IF initialised THEN terminal ELSE formatter.tty
  /\ line' = [line EXCEPT ![g].pc = "print"]
  /\ UNCHANGED <<formatter, initialised, reportCaller, counts>>

\* terminalInitOnce.Do(f.init)
InitOnce(g) ==
  /\ line[g].pc = "once"
  /\ initialised' = TRUE
  /\ terminal' = IF initialised THEN terminal ELSE formatter.tty
  /\ line' = [line EXCEPT ![g].pc = "print"]
  /\ UNCHANGED <<formatter, reportCaller, counts>>

\* printColored shows time, level, message and the caller by their place, then the fields;
\* not entry.err.
PrintColored(g) ==
  /\ line[g].pc = "print" /\ Colored
  /\ LET e == line[g].entry
         names == (FixedNames([e EXCEPT !.msg = TRUE], CallerKeys(e)) \ {"logrus_error"})
     IN  line' = [line EXCEPT ![g] =
           [@ EXCEPT !.pc = "done", !.colored = TRUE,
                     !.out = Pairs(line[g].data) \cup {<<<<>>, Defaults(n)>> : n \in names}]]
  /\ UNCHANGED <<sharedVars, counts>>

\* Without colours: every key of fixedKeys, with the value the switch gives it; the
\* keys of the caller are left for EmitCaller, once for each time they occur.
PrintPlain(g) ==
  /\ line[g].pc = "print" /\ ~Colored
  /\ LET names == line[g].fixed
         data  == line[g].data
         fields == IF line[g].all = "none" THEN {} ELSE DOMAIN data
     IN  line' = [line EXCEPT ![g] =
           [@ EXCEPT !.pc = "emit",
                     !.out = {<<Resolve(n), Defaults(n)>> : n \in names \ CallerNames}
                             \cup {<<key, data[key]>> : key \in fields \ Resolved(CallerNames)},
                     !.todo = {<<n, "fixed">> : n \in names \cap CallerNames}
                              \cup {<<n, "field">> : n \in {c \in CallerNames : Resolve(c) \in fields}}]]
  /\ UNCHANGED <<sharedVars, counts>>

\* funcVal and fileVal are blank unless they were among the fixed keys.
EmitCaller(g) ==
  /\ line[g].pc = "emit"
  /\ LET data == line[g].data
         shown(n) == IF HasCaller(line[g].entry)
                     THEN IF n \in line[g].fixed THEN Defaults(n)
                          ELSE [Defaults(n) EXCEPT !.of = "empty"]
                     ELSE IF Resolve(n) \in DOMAIN data THEN data[Resolve(n)] ELSE Missing
     IN  \/ \E key \in line[g].todo :
              line' = [line EXCEPT ![g].todo = @ \ {key},
                                   ![g].out = @ \cup {<<Resolve(key[1]), shown(key[1])>>}]
         \/ line[g].todo = {} /\ line' = [line EXCEPT ![g].pc = "done"]
  /\ UNCHANGED <<sharedVars, counts>>

Return(g) == /\ line[g].pc = "done"
             /\ line' = [line EXCEPT ![g] = NoLine]
             /\ UNCHANGED <<sharedVars, counts>>

SetReportCaller ==
  /\ toggles < MaxToggles
  /\ toggles' = toggles + 1 /\ reportCaller' = ~reportCaller
  /\ line' = [g \in Goroutines |-> [line[g] EXCEPT !.calm = FALSE]]
  /\ UNCHANGED <<formatter, terminal, initialised, withs, lines>>

Init ==
  /\ formatter \in Formats /\ terminal = FALSE /\ initialised = FALSE
  /\ reportCaller \in BOOLEAN
  /\ line = [g \in Goroutines |-> NoLine] /\ withs = 0 /\ lines = 0 /\ toggles = 0

Next == \/ \E g \in Goroutines :
             \/ With(g) \/ Start(g) \/ FormatSimple(g) \/ Clash(g) \/ Fill(g) \/ Fix(g)
             \/ Sort(g) \/ InitOnce(g) \/ PrintColored(g) \/ PrintPlain(g) \/ EmitCaller(g)
             \/ Return(g)
        \/ SetReportCaller

Spec == Init /\ [][Next]_vars

------------------------------------------------------------------------------
(* Properties.                                                              *)

Orders == {"map", "default", "custom", "none"}

FormattersTypeOK ==
  /\ formatter \in Formats
  /\ {initialised, reportCaller} \subseteq BOOLEAN
  /\ terminal = (initialised /\ formatter.tty)
  /\ withs \in 0..MaxWith /\ lines \in 0..MaxLines /\ toggles \in 0..MaxToggles
  /\ \A g \in Goroutines :
       /\ line[g].pc \in {"idle", "simple", "clash", "fill", "fix", "sort", "once",
                          "print", "emit", "done"}
       /\ line[g].fixed \subseteq DefaultNames
       /\ {line[g].keys, line[g].all} \subseteq Orders

Printed(g) == line[g].pc = "done" /\ formatter.kind # "simple"
Values(g)  == {pair[2] : pair \in line[g].out}

\* The user has set both time and fields.time: the second one makes way for the first,
\* which prefixFieldClashes moves there.  FieldsKept exempts that one loss.
Shadowed(key, e) == \E k \in e.data : /\ key = Under(k)
                                      /\ k \in Moved \cup Copied(e.caller)

FieldsKept(g) ==
  IF formatter.nest # <<>> THEN Nested(formatter.nest) \in Values(g)
  ELSE \A key \in line[g].entry.data :
         Shadowed(key, line[g].entry) \/ Users(key) \in Values(g)

\* No field the user added is lost from a line of text or JSON: not to a default field of
\* its name, not to FieldMap, DataKey or the caller's func and file -- as long as nobody
\* calls SetReportCaller while the line is formatted.  Not covered is the field that a
\* second one of the user's own makes way for (Shadowed: time moved over fields.time).
FieldsSurvive == \A g \in Goroutines : Printed(g) /\ line[g].calm => FieldsKept(g)

\* The same whatever other goroutines do: what the comment at prefixFieldClashes says of
\* time, msg, func and level.
FieldsNeverOverwritten == \A g \in Goroutines : Printed(g) => FieldsKept(g)

\* Nothing the user added stands under the keys of time, level, msg and logrus_error, in
\* any formatter; and the level is always there.  Those of func and file are not among
\* them: the race on ReportCaller may leave them to the user's fields.
DefaultKeysTrue ==
  \A g \in Goroutines : Printed(g) =>
    /\ \A pair \in line[g].out : \A n \in {"time", "level", "msg", "logrus_error"} :
         pair[1] = Resolve(n) => pair[2] = Defaults(n)
    /\ Defaults("level") \in Values(g)

\* Whoever chained a call of WithFields with a field of function type sees an error in the
\* line that names a field of that very call, whatever was chained after it (colours show
\* no errors).
RefusalsNamed ==
  \A g \in Goroutines : Printed(g) /\ ~line[g].colored /\ line[g].entry.refused # {} =>
    /\ \A bad \in line[g].entry.refused : bad \cap line[g].entry.named # {}
    /\ Defaults("logrus_error") \in Values(g)

\* A line begun after the first one is printed in the order SortingFunc gives the keys
\* of that kind of line, although isColored was asked twice, before and after the
\* initialisation of the terminal.
SortedAsPrinted ==
  \A g \in Goroutines :
    Printed(g) /\ formatter.kind = "text" /\ formatter.sorting = "custom" /\ line[g].settled =>
      IF line[g].colored THEN line[g].keys = "custom" ELSE line[g].all = "custom"
=============================================================================
