----------------------------- MODULE MCFormatters -----------------------------
(***************************************************************************)
(* Instances of Formatters: fields that clash with the default ones, and   *)
(* one formatter for each setting that changes what a line says.           *)
(***************************************************************************)
EXTENDS Formatters, TLC

CONSTANTS g1, g2

Symmetry == Permutations(Goroutines)

Time == <<"time">>
Level == <<"level">>
Func == <<"func">>
Own == <<"user">>

MCNames == DefaultNames \cup {"fields", "user", "caller", "at", "f1", "f2", "f3"}

MCFieldSets ==
  {[good |-> {Own, Level}, bad |-> {}],
   [good |-> {Time, Under(Time)}, bad |-> {}],
   [good |-> {Func}, bad |-> {<<"f1">>}],
   [good |-> {}, bad |-> {<<"f2">>, <<"f3">>}]}

Plain == [kind |-> "text", renamed |-> <<>>, stamp |-> TRUE, sorting |-> "default",
          force |-> FALSE, tty |-> FALSE, empties |-> {}, nest |-> <<>>]

MCFormats ==
  {Plain,
   [Plain EXCEPT !.renamed = [level |-> Own, func |-> <<"caller">>], !.stamp = FALSE],
   [Plain EXCEPT !.sorting = "custom", !.tty = TRUE],
   [Plain EXCEPT !.sorting = "custom", !.empties = {"func"}],
   [Plain EXCEPT !.sorting = "none", !.force = TRUE],
   [Plain EXCEPT !.kind = "json"],
   [Plain EXCEPT !.kind = "json", !.nest = Level, !.empties = CallerNames],
   [Plain EXCEPT !.kind = "json", !.renamed = [time |-> Own, file |-> <<"at">>]],
   [Plain EXCEPT !.kind = "simple"]}

\* The default text and JSON formatters alone.
DefaultFormats == {Plain, [Plain EXCEPT !.kind = "json"]}
=============================================================================
