--------------------------- MODULE FormattersProofs ---------------------------
(***************************************************************************)
(* Proofs about Formatters, for any number of goroutines, any fields and   *)
(* any formatters that keep their default fields apart.                    *)
(***************************************************************************)
EXTENDS Formatters, SequenceTheorems, TLAPS

------------------------------------------------------------------------------
(* The inductive invariant.                                                 *)

Key   == Seq(Names)
Value == [of : {"user", "default", "data", "nil", "empty"}, key : Key]

EntryState == [data : SUBSET Key, named : SUBSET Key, refused : SUBSET SUBSET Key,
               caller : BOOLEAN, msg : BOOLEAN]

Data == {<<>>} \cup UNION {[S -> Value] : S \in SUBSET Key}

Labels == {"idle", "simple", "clash", "fill", "fix", "sort", "once", "print", "emit", "done"}

LineState ==
  [pc : Labels, entry : EntryState, data : Data, fixed : SUBSET DefaultNames,
   keys : Orders, all : Orders, todo : SUBSET (CallerNames \X {"fixed", "field"}),
   out : SUBSET (Key \X Value), colored : BOOLEAN, settled : BOOLEAN, calm : BOOLEAN]

\* Each refusal is named; a calm line has the caller that ReportCaller asks for; the
\* terminal was looked up before a settled line.
EntryInv(g) ==
  /\ \A bad \in line[g].entry.refused : bad \cap line[g].entry.named # {}
  /\ line[g].pc # "idle" /\ line[g].calm => line[g].entry.caller = reportCaller
  /\ line[g].pc # "idle" /\ line[g].settled => initialised

\* The labels of each formatter; only printColored is colored.
KindInv(g) ==
  /\ line[g].pc = "simple" => formatter.kind = "simple"
  /\ line[g].pc = "clash"  => formatter.kind # "simple"
  /\ line[g].pc = "fill" => formatter.kind = "json"
  /\ line[g].pc \in {"fix", "sort", "once", "print", "emit"} => formatter.kind = "text"
  /\ line[g].colored => line[g].pc = "done"

\* No key stands for one that the caller's fields, if they are shown, take.
Safe(g, key) == key \notin Moved \cup Copied(line[g].entry.caller)

\* A value of the user's is at a key that no default field will take.
InData(g, value) ==
  \E key \in DOMAIN line[g].data : line[g].data[key] = value /\ Safe(g, key)

\* The values that FieldsKept wants in a line.
Wanted(g) ==
  IF formatter.nest # <<>> THEN {Nested(formatter.nest)}
  ELSE {Users(key) : key \in {k \in line[g].entry.data : ~Shadowed(k, line[g].entry)}}

\* After prefixFieldClashes.
DataInv(g) ==
  line[g].pc \in {"fill", "fix", "sort", "once", "print", "emit"} =>
    /\ DOMAIN line[g].data \cap Moved = {}
    /\ line[g].calm => \A value \in Wanted(g) : InData(g, value)

\* After fixedKeys and the choice of an order.
FixedInv(g) ==
  /\ line[g].pc \in {"sort", "once", "print"} =>
       /\ "level" \in line[g].fixed
       /\ line[g].entry.named # {} => "logrus_error" \in line[g].fixed
  /\ line[g].pc \in {"once", "print"} =>
       /\ line[g].all = "none" => Colored
       /\ formatter.sorting = "custom" /\ line[g].settled =>
            IF Colored THEN line[g].keys = "custom" ELSE line[g].all = "custom"

\* No pair of the line stands under the key of a default field that is not the caller's.
OutTrue(g) ==
  \A pair \in line[g].out : \A n \in {"time", "level", "msg", "logrus_error"} :
    pair[1] = Resolve(n) => pair[2] = Defaults(n)

\* A value is printed, or waits under a key of the caller, who is not shown.
Promised(g, value) ==
  \/ value \in Values(g)
  \/ /\ ~line[g].entry.caller
     /\ \E n \in CallerNames : /\ <<n, "field">> \in line[g].todo
                               /\ Resolve(n) \in DOMAIN line[g].data
                               /\ line[g].data[Resolve(n)] = value

EmitInv(g) ==
  line[g].pc = "emit" =>
    /\ OutTrue(g)
    /\ Defaults("level") \in Values(g)
    /\ line[g].entry.named # {} => Defaults("logrus_error") \in Values(g)
    /\ formatter.sorting = "custom" /\ line[g].settled => line[g].all = "custom"
    /\ line[g].calm => \A value \in Wanted(g) : Promised(g, value)

DoneInv(g) ==
  Printed(g) =>
    /\ OutTrue(g)
    /\ Defaults("level") \in Values(g)
    /\ line[g].calm => Wanted(g) \subseteq Values(g)
    /\ ~line[g].colored /\ line[g].entry.named # {} => Defaults("logrus_error") \in Values(g)
    /\ formatter.kind = "text" /\ formatter.sorting = "custom" /\ line[g].settled =>
         IF line[g].colored THEN line[g].keys = "custom" ELSE line[g].all = "custom"

LineInv(g) == EntryInv(g) /\ KindInv(g) /\ DataInv(g) /\ FixedInv(g) /\ EmitInv(g) /\ DoneInv(g)

FormatInv == /\ FormattersTypeOK
             /\ line \in [Goroutines -> LineState]
             /\ \A g \in Goroutines : LineInv(g)

------------------------------------------------------------------------------
(* Keys.                                                                    *)

\* A renamed key is one name longer than the key it makes way for, and tells it.
LEMMA UnderFacts ==
  /\ \A k \in Key : Under(k) \in Key /\ Len(Under(k)) = Len(k) + 1
  /\ \A j, k \in Key : Under(j) = Under(k) => j = k
<1>1. <<"fields">> \in Seq(Names) /\ Len(<<"fields">>) = 1
  BY FormattersAssumption
<1>2. ASSUME NEW k \in Key
      PROVE  /\ Under(k) \in Key /\ Len(Under(k)) = Len(k) + 1
             /\ \A i \in 1..Len(k) : Under(k)[i + 1] = k[i]
  <2>1. k \in Seq(Names)
    BY DEF Key
  <2>2. /\ <<"fields">> \o k \in Seq(Names) /\ Len(<<"fields">> \o k) = 1 + Len(k)
        /\ \A i \in 1..Len(<<"fields">> \o k) :
             (<<"fields">> \o k)[i] = IF i <= Len(<<"fields">>) THEN <<"fields">>[i]
                                      ELSE k[i - Len(<<"fields">>)]
    BY <1>1, <2>1, ConcatProperties
  <2>3. Len(k) \in Nat
    BY <2>1
  <2>4. ASSUME NEW i \in 1..Len(k) PROVE Under(k)[i + 1] = k[i]
    <3>1. i + 1 \in 1..Len(<<"fields">> \o k) /\ ~(i + 1 <= 1) /\ (i + 1) - 1 = i
      BY <2>2, <2>3
    <3> QED BY <1>1, <2>2, <3>1 DEF Under
  <2> QED BY <2>2, <2>3, <2>4 DEF Under, Key
<1>3. ASSUME NEW j \in Key, NEW k \in Key, Under(j) = Under(k) PROVE j = k
  <2>1. j \in Seq(Names) /\ k \in Seq(Names) /\ Len(j) \in Nat /\ Len(k) \in Nat
    BY DEF Key
  <2>2. Len(j) = Len(k)
    BY <1>2, <1>3, <2>1
  <2>3. \A i \in 1..Len(j) : j[i] = k[i]
    BY <1>2, <1>3, <2>2
  <2> QED BY <2>1, <2>2, <2>3, SeqEqual
<1> QED BY <1>2, <1>3

\* The default fields have keys of one name, each its own.
LEMMA ResolveFacts ==
  ASSUME formatter \in Formats
  PROVE  /\ \A n \in DefaultNames : Resolve(n) \in Key /\ Len(Resolve(n)) = 1
         /\ \A m, n \in DefaultNames : Resolve(m) = Resolve(n) => m = n
<1>1. IsFormat(formatter)
  BY FormattersAssumption
<1>2. \A m, n \in DefaultNames : KeyOf(formatter, m) = KeyOf(formatter, n) => m = n
  BY FormattersAssumption
<1>3. ASSUME NEW n \in DefaultNames PROVE Resolve(n) \in Key /\ Len(Resolve(n)) = 1
  <2>1. CASE n \in DOMAIN formatter.renamed
    BY <1>1, <2>1 DEF IsFormat, Resolve, KeyOf, Key
  <2>2. CASE n \notin DOMAIN formatter.renamed
    <3>1. n \in Names
      BY FormattersAssumption
    <3>2. <<n>> \in Seq(Names) /\ Len(<<n>>) = 1
      BY <3>1
    <3> QED BY <2>2, <3>2 DEF Resolve, KeyOf, Key
  <2> QED BY <2>1, <2>2
<1> QED BY <1>2, <1>3 DEF Resolve

\* No renamed key is that of a default field, if it was one that clashes.
LEMMA MovedFacts ==
  ASSUME formatter \in Formats, NEW caller \in BOOLEAN
  PROVE  /\ Moved \subseteq Key /\ Copied(caller) \subseteq Key
         /\ \A k \in Moved \cup Copied(caller) : Len(k) = 1
         /\ \A n \in {"time", "msg", "level", "logrus_error"} : Resolve(n) \in Moved
         /\ Resolved(CallerNames) \cap Moved = {}
BY ResolveFacts DEF Moved, Copied, Resolved, DefaultNames, CallerNames

\* prefixFieldClashes leaves nothing where a default field goes, whatever caller says, and
\* keeps every value but that of a key that an other one is renamed to.
LEMMA ClashedFacts ==
  ASSUME formatter \in Formats, NEW caller \in BOOLEAN, NEW S \in SUBSET Key,
         NEW data \in [S -> Value]
  PROVE  /\ Clashed(data, caller) \in Data
         /\ DOMAIN Clashed(data, caller) \cap Moved = {}
         /\ \A key \in S :
              \/ \E k \in S \cap (Moved \cup Copied(caller)) : key = Under(k)
              \/ \E k \in DOMAIN Clashed(data, caller) :
                   /\ Clashed(data, caller)[k] = data[key]
                   /\ k \notin Moved \cup Copied(caller)
<1> DEFINE both    == Moved \cup Copied(caller)
           clashes == both \cap S
           kept    == S \ Moved
           keys    == kept \cup {Under(k) : k \in clashes}
           val(key) == IF \E k \in clashes : key = Under(k)
                       THEN data[CHOOSE k \in clashes : key = Under(k)] ELSE data[key]
<1>1. DOMAIN data = S
  OBVIOUS
<1>2. Clashed(data, caller) = [key \in keys |-> val(key)]
  BY <1>1 DEF Clashed
<1>3. /\ \A k \in Key : Under(k) \in Key /\ Len(Under(k)) = Len(k) + 1
      /\ \A j, k \in Key : Under(j) = Under(k) => j = k
  BY UnderFacts
<1>4. both \subseteq Key /\ \A k \in both : Len(k) = 1
  BY MovedFacts
<1>5. keys \subseteq Key
  BY <1>3
<1>6. \A k \in clashes : Under(k) \notin both
  <2> SUFFICES ASSUME NEW k \in clashes, Under(k) \in both PROVE FALSE
    OBVIOUS
  <2>1. Len(k) = 1 /\ Len(Under(k)) = 1 /\ Len(Under(k)) = Len(k) + 1
    BY <1>3, <1>4
  <2> QED BY <2>1
<1>7. ASSUME NEW k \in clashes PROVE val(Under(k)) = data[k] /\ Under(k) \in keys
  <2>1. (CHOOSE j \in clashes : Under(k) = Under(j)) = k
    BY <1>3
  <2> QED BY <2>1
<1>8. ASSUME NEW key \in keys PROVE val(key) \in Value
  BY <1>7
<1>9. Clashed(data, caller) \in Data
  <2>1. keys \in SUBSET Key
    BY <1>5
  <2>2. [key \in keys |-> val(key)] \in [keys -> Value]
    BY <1>8
  <2> HIDE DEF keys, val
  <2> QED BY <1>2, <2>1, <2>2 DEF Data
<1>10. DOMAIN Clashed(data, caller) = keys
  BY <1>2
<1>11. keys \cap Moved = {}
  BY <1>6
<1>12. ASSUME NEW key \in S, ~ \E k \in S \cap both : key = Under(k)
       PROVE  \E k \in keys : val(k) = data[key] /\ k \notin both
  <2>1. CASE key \in both
    <3>1. key \in clashes
      BY <2>1
    <3> QED BY <3>1, <1>6, <1>7
  <2>2. CASE key \notin both
    <3>1. key \in kept /\ val(key) = data[key]
      BY <1>12, <2>2
    <3> QED BY <3>1, <2>2
  <2> QED BY <2>1, <2>2
<1>13. \A key \in keys : Clashed(data, caller)[key] = val(key)
  BY <1>2
<1> HIDE DEF keys, val, both
<1>14. ASSUME NEW key \in S
       PROVE  \/ \E k \in S \cap both : key = Under(k)
              \/ \E k \in DOMAIN Clashed(data, caller) :
                   Clashed(data, caller)[k] = data[key] /\ k \notin both
  BY <1>10, <1>12, <1>13
<1> QED BY <1>9, <1>10, <1>11, <1>14 DEF both

------------------------------------------------------------------------------
(* Steps of one goroutine.                                                  *)

\* What stays the same but in SetReportCaller: the lookup of the terminal is done once.
SharedKept ==
  /\ UNCHANGED <<formatter, reportCaller>>
  /\ initialised' \in BOOLEAN /\ terminal' = (initialised' /\ formatter.tty)
  /\ initialised => UNCHANGED <<initialised, terminal>>
  /\ withs' \in 0..MaxWith /\ lines' \in 0..MaxLines /\ toggles' \in 0..MaxToggles

LEMMA NothingShared ==
  ASSUME FormatInv, UNCHANGED <<sharedVars, counts>>
  PROVE  SharedKept
BY DEF FormatInv, FormattersTypeOK, SharedKept, sharedVars, counts

\* A line keeps its invariant while others go on.
LEMMA OthersKeep ==
  ASSUME FormatInv, SharedKept, NEW h \in Goroutines, line'[h] = line[h]
  PROVE  LineInv(h)'
<1> USE DEF SharedKept
<1>1. LineInv(h)
  BY DEF FormatInv
<1>2. EntryInv(h)'
  BY <1>1 DEF LineInv, EntryInv
<1>3. KindInv(h)'
  BY <1>1 DEF LineInv, KindInv
<1>4. Moved' = Moved /\ \A caller : Copied(caller)' = Copied(caller)
  BY DEF Moved, Copied, Resolved, Resolve
<1>5. Wanted(h)' = Wanted(h)
  BY <1>4 DEF Wanted, Shadowed
<1>6. DataInv(h)'
  <2>1. DataInv(h)
    BY <1>1 DEF LineInv
  <2>2. \A value : InData(h, value)' <=> InData(h, value)
    BY <1>4 DEF InData, Safe
  <2> QED BY <1>4, <1>5, <2>1, <2>2 DEF DataInv
<1>7. FixedInv(h)'
  <2>1. FixedInv(h) /\ EntryInv(h)
    BY <1>1 DEF LineInv
  <2>2. Colored => Colored'
    BY DEF Colored, FormatInv, FormattersTypeOK
  <2>3. line[h].pc # "idle" /\ line[h].settled => (Colored' <=> Colored)
    BY <2>1 DEF Colored, EntryInv
  <2> QED BY <2>1, <2>2, <2>3 DEF FixedInv
<1>8. OutTrue(h)' <=> OutTrue(h)
  BY DEF OutTrue, Resolve
<1>9. Values(h)' = Values(h)
  BY DEF Values
<1>10. EmitInv(h)'
  <2>1. EmitInv(h)
    BY <1>1 DEF LineInv
  <2>2. \A value : Promised(h, value)' <=> Promised(h, value)
    BY <1>9 DEF Promised, Resolve
  <2> QED BY <1>5, <1>8, <1>9, <2>1, <2>2 DEF EmitInv
<1>11. DoneInv(h)'
  <2>1. DoneInv(h) /\ (Printed(h)' <=> Printed(h))
    BY <1>1 DEF LineInv, Printed
  <2> QED BY <1>5, <1>8, <1>9, <2>1 DEF DoneInv
<1> QED BY <1>2, <1>3, <1>6, <1>7, <1>10, <1>11 DEF LineInv

\* So a step of one goroutine has to see to its own line only.
LEMMA OwnLine ==
  ASSUME NEW g \in Goroutines, NEW r \in LineState, FormatInv, SharedKept,
         line' = [line EXCEPT ![g] = r], LineInv(g)'
  PROVE  FormatInv'
<1>1. line \in [Goroutines -> LineState]
  BY DEF FormatInv
<1>2. line' \in [Goroutines -> LineState]
  BY <1>1
<1>3. \A h \in Goroutines : LineInv(h)'
  <2> SUFFICES ASSUME NEW h \in Goroutines PROVE LineInv(h)'
    OBVIOUS
  <2>1. CASE h = g
    BY <2>1
  <2>2. CASE h # g
    BY <1>1, <2>2, OthersKeep
  <2> QED BY <2>1, <2>2
<1>4. FormattersTypeOK'
  <2>1. \A h \in Goroutines : line'[h] \in LineState
    BY <1>2
  <2>2. \A h \in Goroutines :
          /\ line'[h].pc \in Labels /\ line'[h].fixed \subseteq DefaultNames
          /\ {line'[h].keys, line'[h].all} \subseteq Orders
    BY <2>1 DEF LineState
  <2> QED BY <2>2 DEF FormatInv, FormattersTypeOK, SharedKept, Labels
<1> QED BY <1>2, <1>3, <1>4 DEF FormatInv

\* What the invariant says of the state before a step.
LEMMA Before ==
  ASSUME FormatInv, NEW g \in Goroutines
  PROVE  /\ formatter \in Formats /\ IsFormat(formatter)
         /\ line[g] \in LineState /\ line[g].entry \in EntryState
         /\ EntryInv(g) /\ KindInv(g) /\ DataInv(g) /\ FixedInv(g) /\ EmitInv(g) /\ DoneInv(g)
BY FormattersAssumption DEF FormatInv, FormattersTypeOK, LineInv, LineState

LEMMA DefaultValues ==
  \A n \in DefaultNames : Defaults(n) \in Value /\ [Defaults(n) EXCEPT !.of = "empty"] \in Value
<1> SUFFICES ASSUME NEW n \in DefaultNames
             PROVE  Defaults(n) \in Value /\ [Defaults(n) EXCEPT !.of = "empty"] \in Value
  OBVIOUS
<1>1. n \in Names
  BY FormattersAssumption
<1>2. <<n>> \in Key
  BY <1>1 DEF Key
<1> QED BY <1>2 DEF Defaults, Value

LEMMA WithKeeps ==
  ASSUME FormatInv, NEW g \in Goroutines, With(g) PROVE FormatInv'
<1> DEFINE e == line[g].entry
<1>1. PICK s \in FieldSets : \E d \in WithFields(e, s) : line' = [line EXCEPT ![g].entry = d]
  BY DEF With
<1>2. PICK named \in ErrOf(e.named, s.bad) :
        line' = [line EXCEPT ![g].entry =
                   [e EXCEPT !.data = @ \cup s.good, !.named = named,
                             !.refused = IF s.bad = {} THEN @ ELSE @ \cup {s.bad}]]
  BY <1>1 DEF WithFields
<1> DEFINE d == [e EXCEPT !.data = @ \cup s.good, !.named = named,
                          !.refused = IF s.bad = {} THEN @ ELSE @ \cup {s.bad}]
           r == [line[g] EXCEPT !.entry = d]
<1>3. line[g] \in LineState /\ e \in EntryState /\ EntryInv(g) /\ KindInv(g)
  BY Before
<1>4. s.good \subseteq Key /\ s.bad \subseteq Key
  BY FormattersAssumption DEF Key
<1>5. named \subseteq Key /\ e.named \subseteq named /\ (s.bad # {} => s.bad \cap named # {})
  BY <1>3, <1>4 DEF ErrOf, EntryState
<1>6. /\ d \in EntryState /\ d.named = named
      /\ d.refused = IF s.bad = {} THEN e.refused ELSE e.refused \cup {s.bad}
  <2> DEFINE all == IF s.bad = {} THEN e.refused ELSE e.refused \cup {s.bad}
  <2>1. e.data \cup s.good \in SUBSET Key /\ named \in SUBSET Key
    BY <1>3, <1>4, <1>5 DEF EntryState
  <2>2. all \in SUBSET SUBSET Key
    BY <1>3, <1>4 DEF EntryState
  <2>3. d = [e EXCEPT !.data = e.data \cup s.good, !.named = named, !.refused = all]
    BY SMTT(30)
  <2> HIDE DEF all
  <2>4. d \in EntryState /\ d.named = named /\ d.refused = all
    BY <1>3, <2>1, <2>2, <2>3 DEF EntryState
  <2> QED BY <2>4 DEF all
<1>7. r \in LineState
  BY <1>3, <1>6 DEF LineState
<1>8. line' = [line EXCEPT ![g] = r]
  BY <1>2 DEF FormatInv
<1>9. line'[g] = r
  BY <1>8 DEF FormatInv
<1>10. line[g].pc = "idle" /\ r.pc = "idle" /\ r.entry = d /\ r.colored = line[g].colored
  BY <1>3 DEF With, LineState
<1>11. SharedKept
  BY FormattersAssumption DEF With, SharedKept, FormatInv, FormattersTypeOK, sharedVars
<1> HIDE DEF r, d
<1>12. EntryInv(g)'
  <2>1. \A bad \in d.refused : bad \cap d.named # {}
    BY <1>3, <1>5, <1>6 DEF EntryInv
  <2> QED BY <1>9, <1>10, <2>1 DEF EntryInv
<1>13. LineInv(g)'
  BY <1>3, <1>9, <1>10, <1>12
     DEF LineInv, KindInv, DataInv, FixedInv, EmitInv, DoneInv, Printed
<1> QED BY <1>7, <1>8, <1>11, <1>13, OwnLine

LEMMA StartKeeps ==
  ASSUME FormatInv, NEW g \in Goroutines, Start(g) PROVE FormatInv'
<1> DEFINE label == IF formatter.kind = "simple" THEN "simple" ELSE "clash"
<1>1. PICK msg \in BOOLEAN :
        line' = [line EXCEPT ![g] =
          [line[g] EXCEPT !.pc = label,
                          !.entry = [line[g].entry EXCEPT !.caller = reportCaller, !.msg = msg],
                          !.settled = initialised, !.calm = TRUE]]
  BY DEF Start
<1> DEFINE e == [line[g].entry EXCEPT !.caller = reportCaller, !.msg = msg]
           r == [line[g] EXCEPT !.pc = label, !.entry = e,
                                !.settled = initialised, !.calm = TRUE]
<1>2. line[g] \in LineState /\ line[g].entry \in EntryState /\ EntryInv(g) /\ KindInv(g)
  BY Before
<1>3. reportCaller \in BOOLEAN /\ initialised \in BOOLEAN
  BY DEF FormatInv, FormattersTypeOK
<1>4. /\ e \in EntryState /\ e.caller = reportCaller /\ e.named = line[g].entry.named
      /\ e.refused = line[g].entry.refused
  BY <1>2, <1>3 DEF EntryState
<1>5. r \in LineState
  BY <1>2, <1>3, <1>4 DEF LineState, Labels
<1>6. line' = [line EXCEPT ![g] = r] /\ line'[g] = r
  BY <1>1 DEF FormatInv
<1>7. /\ r.pc = label /\ r.entry = e /\ r.settled = initialised
      /\ r.colored = line[g].colored /\ line[g].pc = "idle"
  BY <1>2 DEF LineState, Start
<1>8. SharedKept
  BY FormattersAssumption DEF Start, SharedKept, FormatInv, FormattersTypeOK, sharedVars
<1> HIDE DEF r, e
<1>9. EntryInv(g)'
  BY <1>2, <1>4, <1>6, <1>7, <1>8 DEF EntryInv, SharedKept
<1>10. KindInv(g)'
  BY <1>2, <1>6, <1>7, <1>8 DEF KindInv, SharedKept
<1>11. LineInv(g)'
  BY <1>6, <1>7, <1>9, <1>10 DEF LineInv, DataInv, FixedInv, EmitInv, DoneInv, Printed
<1> QED BY <1>5, <1>6, <1>8, <1>11, OwnLine

LEMMA FormatSimpleKeeps ==
  ASSUME FormatInv, NEW g \in Goroutines, FormatSimple(g) PROVE FormatInv'
<1> DEFINE names == {"time", "level", "msg"}
                    \cup (IF line[g].entry.caller THEN CallerNames ELSE {})
           out == {<<<<>>, Defaults(n)>> : n \in names}
           r == [line[g] EXCEPT !.pc = "done", !.out = out]
<1>1. line[g] \in LineState /\ EntryInv(g) /\ KindInv(g) /\ line[g].pc = "simple"
  BY Before DEF FormatSimple
<1>2. out \subseteq Key \X Value
  <2>1. <<>> \in Key
    BY DEF Key
  <2>2. names \subseteq DefaultNames
    BY DEF CallerNames, DefaultNames
  <2>3. \A n \in names : <<<<>>, Defaults(n)>> \in Key \X Value
    BY <2>1, <2>2, DefaultValues
  <2> QED BY <2>3
<1>3. r \in LineState
  BY <1>1, <1>2 DEF LineState, Labels
<1>4. line' = [line EXCEPT ![g] = r] /\ line'[g] = r
  BY DEF FormatInv, FormatSimple
<1>5. /\ r.pc = "done" /\ r.entry = line[g].entry /\ r.settled = line[g].settled
      /\ r.calm = line[g].calm
  BY <1>1 DEF LineState
<1>6. SharedKept
  BY NothingShared DEF FormatSimple
<1> HIDE DEF r
<1>7. EntryInv(g)'
  BY <1>1, <1>4, <1>5, <1>6 DEF EntryInv, SharedKept
<1>8. formatter'.kind = "simple"
  BY <1>1, <1>6 DEF KindInv, SharedKept
<1>9. KindInv(g)'
  BY <1>4, <1>5 DEF KindInv
<1>10. LineInv(g)'
  BY <1>4, <1>5, <1>7, <1>8, <1>9 DEF LineInv, DataInv, FixedInv, EmitInv, DoneInv, Printed
<1> QED BY <1>3, <1>4, <1>6, <1>10, OwnLine

\* The default fields of a line: all have keys that prefixFieldClashes has cleared, if the
\* caller's are there only when the entry has one.
LEMMA FixedFacts ==
  ASSUME formatter \in Formats, NEW e, NEW caller \in BOOLEAN,
         NEW callers \in SUBSET CallerNames, callers # {} => caller
  PROVE  /\ FixedNames(e, callers) \subseteq DefaultNames /\ "level" \in FixedNames(e, callers)
         /\ e.named # {} => "logrus_error" \in FixedNames(e, callers)
         /\ Resolved(FixedNames(e, callers)) \subseteq Moved \cup Copied(caller)
<1>1. FixedNames(e, callers) \subseteq {"time", "level", "msg", "logrus_error"} \cup callers
  BY DEF FixedNames
<1>2. /\ "level" \in FixedNames(e, callers)
      /\ e.named # {} => "logrus_error" \in FixedNames(e, callers)
  BY DEF FixedNames
<1>3. \A n \in {"time", "msg", "level", "logrus_error"} : Resolve(n) \in Moved
  BY MovedFacts
<1>4. \A n \in callers : Resolve(n) \in Copied(caller)
  BY DEF Copied, Resolved
<1>5. FixedNames(e, callers) \subseteq DefaultNames
  BY <1>1 DEF DefaultNames, CallerNames
<1>6. ASSUME NEW n \in FixedNames(e, callers) PROVE Resolve(n) \in Moved \cup Copied(caller)
  BY <1>1, <1>3, <1>4
<1> QED BY <1>2, <1>5, <1>6 DEF Resolved

\* The pairs of default fields, and of the fields that a clash left, are true.
LEMMA TruePairs ==
  ASSUME formatter \in Formats, NEW names \in SUBSET DefaultNames,
         NEW n \in {"time", "level", "msg", "logrus_error"}
  PROVE  /\ \A m \in names : Resolve(m) = Resolve(n) => Defaults(m) = Defaults(n)
         /\ \A m \in CallerNames : Resolve(m) # Resolve(n)
         /\ <<>> # Resolve(n)
         /\ \A data \in Data : DOMAIN data \cap Moved = {} =>
              \A pair \in Pairs(data) : pair[1] # Resolve(n)
<1>1. n \in DefaultNames /\ n \notin CallerNames /\ CallerNames \subseteq DefaultNames
  BY DEF DefaultNames, CallerNames
<1>2. \A m \in DefaultNames : Resolve(m) = Resolve(n) => m = n
  BY <1>1, ResolveFacts
<1>3. Len(Resolve(n)) = 1 /\ Len(<<>>) = 0
  BY <1>1, ResolveFacts
<1>4. Resolve(n) \in Moved
  BY MovedFacts
<1>5. \A data \in Data : \A pair \in Pairs(data) : pair[1] \in DOMAIN data
  BY DEF Pairs
<1> QED BY <1>1, <1>2, <1>3, <1>4, <1>5

LEMMA PairTypes ==
  ASSUME NEW data \in Data
  PROVE  /\ DOMAIN data \subseteq Key /\ \A key \in DOMAIN data : data[key] \in Value
         /\ Pairs(data) \subseteq Key \X Value
<1>1. DOMAIN data \subseteq Key /\ \A key \in DOMAIN data : data[key] \in Value
  <2>1. CASE data = <<>>
    <3>1. DOMAIN data = {}
      BY <2>1
    <3> QED BY <3>1
  <2>2. CASE data # <<>>
    <3>1. PICK S \in SUBSET Key : data \in [S -> Value]
      BY <2>2 DEF Data
    <3> QED BY <3>1
  <2> QED BY <2>1, <2>2
<1> QED BY <1>1 DEF Pairs

LEMMA ClashKeeps ==
  ASSUME FormatInv, NEW g \in Goroutines, Clash(g) PROVE FormatInv'
<1> DEFINE e      == line[g].entry
           caller == HasCaller(e)
           json   == formatter.kind = "json"
           base   == IF json THEN Wrapped(e) ELSE Shown(e)
           data   == Clashed(base, caller)
           label  == IF json THEN "fill" ELSE "fix"
           r      == [line[g] EXCEPT !.data = data, !.pc = label]
<1>1. /\ formatter \in Formats /\ IsFormat(formatter) /\ line[g] \in LineState /\ e \in EntryState
      /\ EntryInv(g) /\ KindInv(g) /\ line[g].pc = "clash"
  BY Before DEF Clash
<1>2. line' = [line EXCEPT ![g] = r] /\ line'[g] = r
  BY DEF FormatInv, Clash
<1>3. SharedKept
  BY NothingShared DEF Clash
<1>4. caller \in BOOLEAN /\ e.caller \in BOOLEAN /\ e.data \subseteq Key
  BY <1>1 DEF HasCaller, FormatInv, FormattersTypeOK, EntryState
<1>5. line[g].calm => caller = e.caller
  BY <1>1, <1>4 DEF EntryInv, HasCaller
<1>6. formatter.nest \in Key /\ (formatter.nest # <<>> => json)
  BY <1>1 DEF IsFormat, Key
<1> DEFINE S == IF formatter.nest # <<>> THEN {formatter.nest} ELSE e.data
<1>7. S \in SUBSET Key /\ base \in [S -> Value]
  <2>1. \A key \in Key : Users(key) \in Value /\ Nested(key) \in Value
    BY DEF Users, Nested, Value
  <2>2. CASE formatter.nest # <<>>
    <3>1. base = [key \in {formatter.nest} |-> Nested(key)]
      BY <1>6, <2>2 DEF Wrapped
    <3> QED BY <1>6, <2>1, <2>2, <3>1
  <2>3. CASE formatter.nest = <<>>
    <3>1. base = [key \in e.data |-> Users(key)]
      BY <2>3 DEF Wrapped, Shown
    <3> QED BY <1>4, <2>1, <2>3, <3>1
  <2> QED BY <2>2, <2>3
<1>8. /\ data \in Data /\ DOMAIN data \cap Moved = {}
      /\ \A key \in S :
           \/ \E k \in S \cap (Moved \cup Copied(caller)) : key = Under(k)
           \/ \E k \in DOMAIN data : data[k] = base[key] /\ k \notin Moved \cup Copied(caller)
  <2> HIDE DEF S, base, caller
  <2> QED BY <1>1, <1>4, <1>7, ClashedFacts
<1>9. r \in LineState
  <2> HIDE DEF data
  <2> QED BY <1>1, <1>8 DEF LineState, Labels
<1>10. /\ r.pc = label /\ r.entry = e /\ r.settled = line[g].settled /\ r.data = data
       /\ r.calm = line[g].calm /\ r.colored = line[g].colored
  <2> HIDE DEF data
  <2> QED BY <1>1 DEF LineState
<1>11. ASSUME line[g].calm, NEW value \in Wanted(g)
       PROVE  \E k \in DOMAIN data : data[k] = value /\ k \notin Moved \cup Copied(e.caller)
  <2>1. CASE formatter.nest # <<>>
    <3>1. value = Nested(formatter.nest) /\ base[formatter.nest] = value
      BY <1>6, <1>11, <2>1 DEF Wanted, Wrapped
    <3>2. \A k \in S : formatter.nest # Under(k)
      <4> SUFFICES ASSUME formatter.nest = Under(formatter.nest) PROVE FALSE
        BY <2>1
      <4>1. Len(Under(formatter.nest)) = Len(formatter.nest) + 1 /\ Len(formatter.nest) \in Nat
        BY <1>6, UnderFacts DEF Key
      <4> QED BY <4>1
    <3>3. formatter.nest \in S
      BY <2>1
    <3> HIDE DEF S, base, data
    <3> QED BY <1>5, <1>8, <1>11, <3>1, <3>2, <3>3
  <2>2. CASE formatter.nest = <<>>
    <3>1. PICK key \in e.data : value = Users(key) /\ ~Shadowed(key, e)
      BY <1>11, <2>2 DEF Wanted
    <3>2. base[key] = value
      BY <2>2, <3>1 DEF Wrapped, Shown
    <3>3. ~ \E k \in e.data \cap (Moved \cup Copied(e.caller)) : key = Under(k)
      BY <3>1 DEF Shadowed
    <3>4. S = e.data
      BY <2>2
    <3> HIDE DEF S, base, data
    <3> QED BY <1>5, <1>8, <1>11, <3>1, <3>2, <3>3, <3>4
  <2> QED BY <2>1, <2>2
<1> HIDE DEF r, data
<1>12. EntryInv(g)'
  BY <1>1, <1>2, <1>3, <1>10 DEF EntryInv, SharedKept
<1>13. KindInv(g)'
  <2>1. json \/ formatter.kind = "text"
    BY <1>1 DEF IsFormat, KindInv
  <2>2. ~line[g].colored
    BY <1>1 DEF KindInv
  <2>3. formatter' = formatter
    BY <1>3 DEF SharedKept
  <2> QED BY <1>2, <1>10, <2>1, <2>2, <2>3 DEF KindInv
<1>14. Moved' = Moved /\ Copied(e.caller)' = Copied(e.caller)
  BY <1>2, <1>3, <1>10 DEF Moved, Copied, Resolved, Resolve, SharedKept
<1>15. Wanted(g)' = Wanted(g)
  BY <1>2, <1>3, <1>10, <1>14 DEF Wanted, Shadowed, SharedKept
<1>16. DataInv(g)'
  BY <1>2, <1>8, <1>10, <1>11, <1>14, <1>15 DEF DataInv, InData, Safe
<1>17. LineInv(g)'
  BY <1>2, <1>10, <1>12, <1>13, <1>16 DEF LineInv, FixedInv, EmitInv, DoneInv, Printed
<1> QED BY <1>2, <1>3, <1>9, <1>17, OwnLine

LEMMA FillKeeps ==
  ASSUME FormatInv, NEW g \in Goroutines, Fill(g) PROVE FormatInv'
<1> DEFINE e     == [line[g].entry EXCEPT !.msg = TRUE]
           names == FixedNames(e, CallerKeys(e))
           data  == line[g].data
           out   == {pair \in Pairs(data) : pair[1] \notin Resolved(names)}
                    \cup {<<Resolve(n), Defaults(n)>> : n \in names}
           r     == [line[g] EXCEPT !.pc = "done", !.out = out]
<1>1. /\ formatter \in Formats /\ line[g] \in LineState /\ line[g].entry \in EntryState
      /\ EntryInv(g) /\ KindInv(g) /\ DataInv(g) /\ line[g].pc = "fill" /\ data \in Data
  BY Before DEF Fill, LineState
<1>2. line' = [line EXCEPT ![g] = r] /\ line'[g] = r
  BY DEF FormatInv, Fill
<1>3. SharedKept
  BY NothingShared DEF Fill
<1>4. /\ e.caller = line[g].entry.caller /\ e.named = line[g].entry.named
      /\ e.caller \in BOOLEAN
  BY <1>1 DEF EntryState
<1>5. /\ names \subseteq DefaultNames /\ "level" \in names
      /\ e.named # {} => "logrus_error" \in names
      /\ Resolved(names) \subseteq Moved \cup Copied(e.caller)
  <2>1. CallerKeys(e) \in SUBSET CallerNames /\ (CallerKeys(e) # {} => e.caller)
    BY DEF CallerKeys, HasCaller
  <2> QED BY <1>1, <1>4, <2>1, FixedFacts
<1> HIDE DEF names, e
<1>6. out \subseteq Key \X Value
  <2>1. \A n \in names : <<Resolve(n), Defaults(n)>> \in Key \X Value
    BY <1>1, <1>5, ResolveFacts, DefaultValues
  <2>2. Pairs(data) \subseteq Key \X Value
    BY <1>1, PairTypes
  <2> QED BY <2>1, <2>2
<1>7. r \in LineState
  <2> HIDE DEF out
  <2> QED BY <1>1, <1>6 DEF LineState, Labels
<1>8. /\ r.pc = "done" /\ r.entry = line[g].entry /\ r.settled = line[g].settled
      /\ r.out = out /\ r.data = data /\ r.calm = line[g].calm /\ r.colored = line[g].colored
  <2> HIDE DEF out
  <2> QED BY <1>1 DEF LineState
<1>9. \A pair \in out : \A n \in {"time", "level", "msg", "logrus_error"} :
        pair[1] = Resolve(n) => pair[2] = Defaults(n)
  <2> SUFFICES ASSUME NEW pair \in out, NEW n \in {"time", "level", "msg", "logrus_error"},
                      pair[1] = Resolve(n)
               PROVE  pair[2] = Defaults(n)
    OBVIOUS
  <2>1. /\ \A m \in names : Resolve(m) = Resolve(n) => Defaults(m) = Defaults(n)
        /\ \A q \in Pairs(data) : q[1] # Resolve(n)
    BY <1>1, <1>5, TruePairs DEF DataInv
  <2>2. CASE pair \in Pairs(data)
    BY <2>1, <2>2
  <2>3. CASE pair \notin Pairs(data)
    <3>1. PICK m \in names : pair = <<Resolve(m), Defaults(m)>>
      BY <2>3
    <3> QED BY <2>1, <3>1
  <2> QED BY <2>2, <2>3
<1>10. \A n \in names : Defaults(n) \in {pair[2] : pair \in out}
  <2> SUFFICES ASSUME NEW n \in names PROVE Defaults(n) \in {pair[2] : pair \in out}
    OBVIOUS
  <2>1. <<Resolve(n), Defaults(n)>> \in out
    OBVIOUS
  <2> HIDE DEF out
  <2> QED BY <2>1
<1>11. ASSUME line[g].calm, NEW value \in Wanted(g) PROVE value \in {pair[2] : pair \in out}
  <2>1. PICK key \in DOMAIN data : data[key] = value /\ Safe(g, key)
    BY <1>1, <1>11 DEF DataInv, InData
  <2>2. key \notin Resolved(names)
    BY <1>4, <1>5, <2>1 DEF Safe
  <2>3. <<key, value>> \in out
    BY <2>1, <2>2 DEF Pairs
  <2> HIDE DEF out
  <2> QED BY <2>3
<1> HIDE DEF out, r, data
<1>12. EntryInv(g)'
  BY <1>1, <1>2, <1>3, <1>8 DEF EntryInv, SharedKept
<1>13. formatter' = formatter /\ formatter.kind = "json" /\ ~line[g].colored
  BY <1>1, <1>3 DEF KindInv, SharedKept
<1>14. KindInv(g)'
  BY <1>2, <1>8 DEF KindInv
<1>15. Wanted(g)' = Wanted(g)
  <2>1. Moved' = Moved /\ \A caller : Copied(caller)' = Copied(caller)
    BY <1>13 DEF Moved, Copied, Resolved, Resolve
  <2> QED BY <1>2, <1>8, <1>13, <2>1 DEF Wanted, Shadowed
<1>16. Values(g)' = {pair[2] : pair \in out}
  BY <1>2, <1>8 DEF Values
<1>17. OutTrue(g)'
  BY <1>2, <1>8, <1>9, <1>13 DEF OutTrue, Resolve
<1>18. DoneInv(g)'
  <2>1. Defaults("level") \in Values(g)'
    BY <1>5, <1>10, <1>16
  <2>2. line'[g].entry.named # {} => Defaults("logrus_error") \in Values(g)'
    BY <1>2, <1>4, <1>5, <1>8, <1>10, <1>16
  <2>3. line'[g].calm => Wanted(g)' \subseteq Values(g)'
    BY <1>2, <1>8, <1>11, <1>15, <1>16
  <2>4. formatter'.kind # "text"
    BY <1>13
  <2> QED BY <1>17, <2>1, <2>2, <2>3, <2>4 DEF DoneInv
<1>19. LineInv(g)'
  BY <1>2, <1>8, <1>12, <1>14, <1>18 DEF LineInv, DataInv, FixedInv, EmitInv
<1> QED BY <1>2, <1>3, <1>7, <1>19, OwnLine

\* A step inside TextFormatter.Format that leaves the entry and the copy of its fields alone.
LEMMA TextStep ==
  ASSUME FormatInv, NEW g \in Goroutines, SharedKept,
         line[g].pc \in {"fix", "sort", "once"}, line'[g].pc \in {"sort", "once", "print"},
         line'[g].entry = line[g].entry, line'[g].data = line[g].data,
         line'[g].colored = line[g].colored, line'[g].calm = line[g].calm,
         line'[g].settled = line[g].settled, FixedInv(g)'
  PROVE  LineInv(g)'
<1>1. EntryInv(g) /\ KindInv(g) /\ DataInv(g)
  BY Before
<1>2. EntryInv(g)'
  BY <1>1 DEF EntryInv, SharedKept
<1>3. KindInv(g)'
  BY <1>1 DEF KindInv, SharedKept
<1>4. formatter' = formatter /\ Moved' = Moved /\ \A caller : Copied(caller)' = Copied(caller)
  BY DEF Moved, Copied, Resolved, Resolve, SharedKept
<1>5. Wanted(g)' = Wanted(g)
  BY <1>4 DEF Wanted, Shadowed
<1>6. \A value : InData(g, value)' <=> InData(g, value)
  BY <1>4 DEF InData, Safe
<1>7. DataInv(g)'
  BY <1>1, <1>4, <1>5, <1>6 DEF DataInv
<1> QED BY <1>2, <1>3, <1>7 DEF LineInv, EmitInv, DoneInv, Printed

LEMMA FixKeeps ==
  ASSUME FormatInv, NEW g \in Goroutines, Fix(g) PROVE FormatInv'
<1> DEFINE e     == line[g].entry
           names == FixedNames(e, CallerKeys(e))
           r     == [line[g] EXCEPT !.pc = "sort", !.fixed = names]
<1>1. formatter \in Formats /\ line[g] \in LineState /\ e \in EntryState /\ line[g].pc = "fix"
  BY Before DEF Fix
<1>2. line' = [line EXCEPT ![g] = r] /\ line'[g] = r
  BY DEF FormatInv, Fix
<1>3. SharedKept
  BY NothingShared DEF Fix
<1>4. /\ names \subseteq DefaultNames /\ "level" \in names
      /\ e.named # {} => "logrus_error" \in names
  <2>1. CallerKeys(e) \in SUBSET CallerNames /\ (CallerKeys(e) # {} => e.caller)
    BY DEF CallerKeys, HasCaller
  <2>2. e.caller \in BOOLEAN
    BY <1>1 DEF EntryState
  <2> QED BY <1>1, <2>1, <2>2, FixedFacts
<1> HIDE DEF names
<1>5. r \in LineState
  BY <1>1, <1>4 DEF LineState, Labels
<1>6. /\ r.pc = "sort" /\ r.entry = e /\ r.data = line[g].data /\ r.colored = line[g].colored
      /\ r.calm = line[g].calm /\ r.settled = line[g].settled /\ r.fixed = names
  BY <1>1 DEF LineState
<1>7. FixedInv(g)'
  BY <1>2, <1>4, <1>6 DEF FixedInv
<1>8. LineInv(g)'
  BY <1>1, <1>2, <1>3, <1>6, <1>7, TextStep
<1> QED BY <1>2, <1>3, <1>5, <1>8, OwnLine

LEMMA SortKeeps ==
  ASSUME FormatInv, NEW g \in Goroutines, Sort(g) PROVE FormatInv'
<1> DEFINE r == [line[g] EXCEPT !.pc = "once", !.keys = Ordered.keys, !.all = Ordered.all]
<1>1. line[g] \in LineState /\ FixedInv(g) /\ line[g].pc = "sort"
  BY Before DEF Sort
<1>2. line' = [line EXCEPT ![g] = r] /\ line'[g] = r
  BY DEF FormatInv, Sort
<1>3. SharedKept /\ Colored' = Colored
  BY NothingShared DEF Sort, Colored, sharedVars
<1>4. /\ Ordered.keys \in Orders /\ Ordered.all \in Orders
      /\ Ordered.all = "none" => Colored
      /\ formatter.sorting = "custom" =>
           IF Colored THEN Ordered.keys = "custom" ELSE Ordered.all = "custom"
  BY DEF Ordered, Orders
<1>5. r \in LineState
  BY <1>1, <1>4 DEF LineState, Labels
<1>6. /\ r.pc = "once" /\ r.entry = line[g].entry /\ r.data = line[g].data
      /\ r.colored = line[g].colored /\ r.calm = line[g].calm /\ r.settled = line[g].settled
      /\ r.fixed = line[g].fixed /\ r.keys = Ordered.keys /\ r.all = Ordered.all
  BY <1>1 DEF LineState
<1>7. FixedInv(g)'
  BY <1>1, <1>2, <1>3, <1>4, <1>6 DEF FixedInv, SharedKept
<1>8. LineInv(g)'
  BY <1>1, <1>2, <1>3, <1>6, <1>7, TextStep
<1> QED BY <1>2, <1>3, <1>5, <1>8, OwnLine

LEMMA InitOnceKeeps ==
  ASSUME FormatInv, NEW g \in Goroutines, InitOnce(g) PROVE FormatInv'
<1> DEFINE r == [line[g] EXCEPT !.pc = "print"]
<1>1. line[g] \in LineState /\ FixedInv(g) /\ EntryInv(g) /\ line[g].pc = "once"
  BY Before DEF InitOnce
<1>2. line' = [line EXCEPT ![g] = r] /\ line'[g] = r
  BY DEF FormatInv, InitOnce
<1>3. SharedKept
  <2>1. formatter.tty \in BOOLEAN
    BY Before DEF IsFormat
  <2>2. /\ terminal = (initialised /\ formatter.tty) /\ initialised \in BOOLEAN
        /\ initialised' = TRUE /\ terminal' = IF initialised THEN terminal ELSE formatter.tty
        /\ UNCHANGED <<formatter, reportCaller>>
    BY DEF InitOnce, FormatInv, FormattersTypeOK
  <2>3. initialised => UNCHANGED <<initialised, terminal>>
    BY <2>2
  <2>4. terminal' = (initialised' /\ formatter.tty)
    <3>1. CASE initialised
      BY <2>2, <3>1
    <3>2. CASE ~initialised
      BY <2>1, <2>2, <3>2
    <3> QED BY <3>1, <3>2
  <2>5. withs' \in 0..MaxWith /\ lines' \in 0..MaxLines /\ toggles' \in 0..MaxToggles
    BY DEF InitOnce, FormatInv, FormattersTypeOK, counts
  <2> QED BY <2>2, <2>3, <2>4, <2>5 DEF SharedKept
<1>4. r \in LineState
  BY <1>1 DEF LineState, Labels
<1>5. /\ r.pc = "print" /\ r.entry = line[g].entry /\ r.data = line[g].data
      /\ r.colored = line[g].colored /\ r.calm = line[g].calm /\ r.settled = line[g].settled
      /\ r.fixed = line[g].fixed /\ r.keys = line[g].keys /\ r.all = line[g].all
  BY <1>1 DEF LineState
<1>6. (Colored => Colored') /\ (line[g].settled => (Colored' <=> Colored))
  BY <1>1, <1>3 DEF Colored, SharedKept, EntryInv, FormatInv, FormattersTypeOK
<1>7. FixedInv(g)'
  BY <1>1, <1>2, <1>3, <1>5, <1>6 DEF FixedInv, SharedKept
<1>8. LineInv(g)'
  BY <1>1, <1>2, <1>3, <1>5, <1>7, TextStep
<1> QED BY <1>2, <1>3, <1>4, <1>8, OwnLine

\* The last steps of a line change neither the entry nor what is wanted of it.
LEMMA LastStep ==
  ASSUME FormatInv, NEW g \in Goroutines, SharedKept, line[g].pc \in {"print", "emit"},
         line'[g].pc \in {"emit", "done"},
         line'[g].entry = line[g].entry, line'[g].data = line[g].data,
         line'[g].calm = line[g].calm, line'[g].settled = line[g].settled,
         line'[g].pc = "emit" => ~line'[g].colored
  PROVE  /\ formatter' = formatter /\ formatter.kind = "text"
         /\ EntryInv(g)' /\ KindInv(g)' /\ DataInv(g)' /\ FixedInv(g)'
         /\ Wanted(g)' = Wanted(g) /\ \A n : Resolve(n)' = Resolve(n)
<1>1. EntryInv(g) /\ KindInv(g)
  BY Before
<1>2. formatter' = formatter /\ formatter.kind = "text"
  BY <1>1 DEF KindInv, SharedKept
<1>3. EntryInv(g)'
  BY <1>1 DEF EntryInv, SharedKept
<1>4. KindInv(g)'
  BY <1>2 DEF KindInv
<1>5. Moved' = Moved /\ \A caller : Copied(caller)' = Copied(caller)
  BY <1>2 DEF Moved, Copied, Resolved, Resolve
<1>6. Wanted(g)' = Wanted(g)
  BY <1>2, <1>5 DEF Wanted, Shadowed
<1>7. \A n : Resolve(n)' = Resolve(n)
  BY <1>2 DEF Resolve
<1>8. DataInv(g)'
  <2>1. DataInv(g)
    BY Before
  <2>2. \A value : InData(g, value)' <=> InData(g, value)
    BY <1>5 DEF InData, Safe
  <2> QED BY <1>5, <1>6, <2>1, <2>2 DEF DataInv
<1>9. FixedInv(g)'
  BY DEF FixedInv
<1> QED BY <1>2, <1>3, <1>4, <1>6, <1>7, <1>8, <1>9

LEMMA PrintColoredKeeps ==
  ASSUME FormatInv, NEW g \in Goroutines, PrintColored(g) PROVE FormatInv'
<1> DEFINE e     == line[g].entry
           names == FixedNames([e EXCEPT !.msg = TRUE], CallerKeys(e)) \ {"logrus_error"}
           data  == line[g].data
           out   == Pairs(data) \cup {<<<<>>, Defaults(n)>> : n \in names}
           r     == [line[g] EXCEPT !.pc = "done", !.colored = TRUE, !.out = out]
<1>1. /\ formatter \in Formats /\ line[g] \in LineState /\ e \in EntryState
      /\ DataInv(g) /\ FixedInv(g) /\ line[g].pc = "print" /\ Colored /\ data \in Data
  BY Before DEF PrintColored, LineState
<1>2. line' = [line EXCEPT ![g] = r] /\ line'[g] = r
  BY DEF FormatInv, PrintColored
<1>3. SharedKept
  BY NothingShared DEF PrintColored
<1>4. names \subseteq DefaultNames /\ "level" \in names
  <2>1. CallerKeys(e) \in SUBSET CallerNames /\ (CallerKeys(e) # {} => e.caller)
    BY DEF CallerKeys, HasCaller
  <2>2. e.caller \in BOOLEAN
    BY <1>1 DEF EntryState
  <2> QED BY <1>1, <2>1, <2>2, FixedFacts
<1> HIDE DEF names
<1>5. out \subseteq Key \X Value
  <2>1. <<>> \in Key
    BY DEF Key
  <2>2. \A n \in names : <<<<>>, Defaults(n)>> \in Key \X Value
    BY <1>4, <2>1, DefaultValues
  <2>3. Pairs(data) \subseteq Key \X Value
    BY <1>1, PairTypes
  <2> QED BY <2>2, <2>3
<1>6. \A pair \in out : \A n \in {"time", "level", "msg", "logrus_error"} : pair[1] # Resolve(n)
  <2> SUFFICES ASSUME NEW pair \in out, NEW n \in {"time", "level", "msg", "logrus_error"}
               PROVE  pair[1] # Resolve(n)
    OBVIOUS
  <2>1. <<>> # Resolve(n) /\ \A q \in Pairs(data) : q[1] # Resolve(n)
    BY <1>1, <1>4, TruePairs DEF DataInv
  <2>2. CASE pair \in Pairs(data)
    BY <2>1, <2>2
  <2>3. CASE pair \notin Pairs(data)
    <3>1. pair[1] = <<>>
      BY <2>3
    <3> QED BY <2>1, <3>1
  <2> QED BY <2>2, <2>3
<1>7. <<<<>>, Defaults("level")>> \in out
  BY <1>4
<1>8. ASSUME line[g].calm, NEW value \in Wanted(g) PROVE \E pair \in out : pair[2] = value
  <2>1. PICK key \in DOMAIN data : data[key] = value
    BY <1>1, <1>8 DEF DataInv, InData
  <2>2. <<key, value>> \in out
    BY <2>1 DEF Pairs
  <2> HIDE DEF out
  <2> QED BY <2>2
<1> HIDE DEF out
<1>9. r \in LineState
  BY <1>1, <1>5 DEF LineState, Labels
<1>10. /\ r.pc = "done" /\ r.entry = e /\ r.data = data /\ r.colored = TRUE /\ r.out = out
       /\ r.calm = line[g].calm /\ r.settled = line[g].settled /\ r.keys = line[g].keys
  BY <1>1 DEF LineState
<1> HIDE DEF r
<1>11. /\ formatter' = formatter /\ formatter.kind = "text"
       /\ EntryInv(g)' /\ KindInv(g)' /\ DataInv(g)' /\ FixedInv(g)'
       /\ Wanted(g)' = Wanted(g) /\ \A n : Resolve(n)' = Resolve(n)
  BY <1>1, <1>2, <1>3, <1>10, LastStep
<1>12. \A value : value \in Values(g)' <=> \E pair \in out : pair[2] = value
  BY <1>2, <1>10 DEF Values
<1>13. DoneInv(g)'
  <2>1. OutTrue(g)'
    BY <1>2, <1>6, <1>10, <1>11 DEF OutTrue
  <2>2. Defaults("level") \in Values(g)'
    BY <1>7, <1>12
  <2>3. line'[g].calm => Wanted(g)' \subseteq Values(g)'
    BY <1>2, <1>8, <1>10, <1>11, <1>12
  <2>4. formatter'.sorting = "custom" /\ line'[g].settled => line'[g].keys = "custom"
    BY <1>1, <1>2, <1>10, <1>11 DEF FixedInv
  <2> QED BY <1>2, <1>10, <2>1, <2>2, <2>3, <2>4 DEF DoneInv
<1>14. LineInv(g)'
  BY <1>2, <1>10, <1>11, <1>13 DEF LineInv, EmitInv
<1> QED BY <1>2, <1>3, <1>9, <1>14, OwnLine

LEMMA PrintPlainKeeps ==
  ASSUME FormatInv, NEW g \in Goroutines, PrintPlain(g) PROVE FormatInv'
<1> DEFINE e      == line[g].entry
           names  == line[g].fixed
           data   == line[g].data
           fields == IF line[g].all = "none" THEN {} ELSE DOMAIN data
           out    == {<<Resolve(n), Defaults(n)>> : n \in names \ CallerNames}
                     \cup {<<key, data[key]>> : key \in fields \ Resolved(CallerNames)}
           todo   == {<<n, "fixed">> : n \in names \cap CallerNames}
                     \cup {<<n, "field">> : n \in {c \in CallerNames : Resolve(c) \in fields}}
           r      == [line[g] EXCEPT !.pc = "emit", !.out = out, !.todo = todo]
<1>1. /\ formatter \in Formats /\ line[g] \in LineState /\ e \in EntryState /\ KindInv(g)
      /\ DataInv(g) /\ FixedInv(g) /\ line[g].pc = "print" /\ ~Colored /\ data \in Data
      /\ names \subseteq DefaultNames
  BY Before DEF PrintPlain, LineState
<1>2. line' = [line EXCEPT ![g] = r] /\ line'[g] = r
  BY DEF FormatInv, PrintPlain
<1>3. SharedKept
  BY NothingShared DEF PrintPlain
<1>4. fields = DOMAIN data
  BY <1>1 DEF FixedInv
<1> HIDE DEF fields
<1>5. out \subseteq Key \X Value
  <2>1. \A n \in names : <<Resolve(n), Defaults(n)>> \in Key \X Value
    BY <1>1, ResolveFacts, DefaultValues
  <2>2. \A key \in fields : <<key, data[key]>> \in Key \X Value
    BY <1>1, <1>4, PairTypes
  <2> QED BY <2>1, <2>2
<1>6. \A pair \in out : \A n \in {"time", "level", "msg", "logrus_error"} :
        pair[1] = Resolve(n) => pair[2] = Defaults(n)
  <2> SUFFICES ASSUME NEW pair \in out, NEW n \in {"time", "level", "msg", "logrus_error"},
                      pair[1] = Resolve(n)
               PROVE  pair[2] = Defaults(n)
    OBVIOUS
  <2>1. /\ \A m \in names : Resolve(m) = Resolve(n) => Defaults(m) = Defaults(n)
        /\ \A q \in Pairs(data) : q[1] # Resolve(n)
    BY <1>1, TruePairs DEF DataInv
  <2>2. CASE \E m \in names \ CallerNames : pair = <<Resolve(m), Defaults(m)>>
    BY <2>1, <2>2
  <2>3. CASE \E key \in fields \ Resolved(CallerNames) : pair = <<key, data[key]>>
    BY <1>4, <2>1, <2>3 DEF Pairs
  <2> QED BY <2>2, <2>3
<1>7. \A n \in names \ CallerNames : \E pair \in out : pair[2] = Defaults(n)
  <2> SUFFICES ASSUME NEW n \in names \ CallerNames PROVE \E pair \in out : pair[2] = Defaults(n)
    OBVIOUS
  <2>1. <<Resolve(n), Defaults(n)>> \in out
    OBVIOUS
  <2> HIDE DEF out
  <2> QED BY <2>1
<1>8. ASSUME line[g].calm, NEW value \in Wanted(g)
      PROVE  \/ \E pair \in out : pair[2] = value
             \/ ~e.caller /\ \E n \in CallerNames : /\ <<n, "field">> \in todo
                                                    /\ Resolve(n) \in DOMAIN data
                                                    /\ data[Resolve(n)] = value
  <2>1. PICK key \in DOMAIN data : data[key] = value /\ Safe(g, key)
    BY <1>1, <1>8 DEF DataInv, InData
  <2>2. CASE key \in Resolved(CallerNames)
    <3>1. PICK n \in CallerNames : key = Resolve(n)
      BY <2>2 DEF Resolved
    <3>2. ~e.caller
      BY <1>1, <2>1, <2>2 DEF Safe, Copied
    <3>3. <<n, "field">> \in todo
      BY <1>4, <2>1, <3>1
    <3> HIDE DEF todo, out
    <3> QED BY <2>1, <3>1, <3>2, <3>3
  <2>3. CASE key \notin Resolved(CallerNames)
    <3>1. <<key, value>> \in out
      BY <1>4, <2>1, <2>3
    <3> HIDE DEF out
    <3> QED BY <3>1
  <2> QED BY <2>2, <2>3
<1>9. todo \subseteq CallerNames \X {"fixed", "field"}
  OBVIOUS
<1> HIDE DEF out, todo
<1>10. r \in LineState
  BY <1>1, <1>5, <1>9 DEF LineState, Labels
<1>11. /\ r.pc = "emit" /\ r.entry = e /\ r.data = data /\ r.colored = line[g].colored
       /\ r.calm = line[g].calm /\ r.settled = line[g].settled /\ r.all = line[g].all
       /\ r.out = out /\ r.todo = todo
  BY <1>1 DEF LineState
<1> HIDE DEF r
<1>12. /\ formatter' = formatter /\ formatter.kind = "text"
       /\ EntryInv(g)' /\ KindInv(g)' /\ DataInv(g)' /\ FixedInv(g)'
       /\ Wanted(g)' = Wanted(g) /\ \A n : Resolve(n)' = Resolve(n)
  <2>1. ~line[g].colored
    BY <1>1 DEF KindInv
  <2> QED BY <1>1, <1>2, <1>3, <1>11, <2>1, LastStep
<1>13. \A value : value \in Values(g)' <=> \E pair \in out : pair[2] = value
  BY <1>2, <1>11 DEF Values
<1>14. EmitInv(g)'
  <2>1. OutTrue(g)'
    BY <1>2, <1>6, <1>11, <1>12 DEF OutTrue
  <2>2. Defaults("level") \in Values(g)'
    BY <1>1, <1>7, <1>13 DEF FixedInv, CallerNames
  <2>3. line'[g].entry.named # {} => Defaults("logrus_error") \in Values(g)'
    BY <1>1, <1>2, <1>7, <1>11, <1>13 DEF FixedInv, CallerNames
  <2>4. formatter'.sorting = "custom" /\ line'[g].settled => line'[g].all = "custom"
    BY <1>1, <1>2, <1>11, <1>12 DEF FixedInv
  <2>5. ASSUME line'[g].calm, NEW value \in Wanted(g)' PROVE Promised(g, value)'
    <3>1. line[g].calm /\ value \in Wanted(g)
      BY <1>2, <1>11, <1>12, <2>5
    <3>2. CASE \E pair \in out : pair[2] = value
      BY <1>13, <3>2 DEF Promised
    <3>3. CASE ~e.caller /\ \E n \in CallerNames : /\ <<n, "field">> \in todo
                                                   /\ Resolve(n) \in DOMAIN data
                                                   /\ data[Resolve(n)] = value
      BY <1>2, <1>11, <1>12, <3>3 DEF Promised
    <3> QED BY <1>8, <3>1, <3>2, <3>3
  <2> QED BY <2>1, <2>2, <2>3, <2>4, <2>5 DEF EmitInv
<1>15. LineInv(g)'
  BY <1>2, <1>11, <1>12, <1>14 DEF LineInv, DoneInv, Printed
<1> QED BY <1>2, <1>3, <1>10, <1>15, OwnLine

LEMMA EmitCallerKeeps ==
  ASSUME FormatInv, NEW g \in Goroutines, EmitCaller(g) PROVE FormatInv'
<1> DEFINE e    == line[g].entry
           data == line[g].data
           shown(n) == IF HasCaller(e)
                       THEN IF n \in line[g].fixed THEN Defaults(n)
                            ELSE [Defaults(n) EXCEPT !.of = "empty"]
                       ELSE IF Resolve(n) \in DOMAIN data THEN data[Resolve(n)] ELSE Missing
<1>1. /\ formatter \in Formats /\ line[g] \in LineState /\ e \in EntryState /\ KindInv(g)
      /\ DataInv(g) /\ FixedInv(g) /\ EmitInv(g) /\ line[g].pc = "emit" /\ data \in Data
      /\ line[g].todo \subseteq CallerNames \X {"fixed", "field"}
      /\ line[g].out \subseteq Key \X Value
  BY Before DEF EmitCaller, LineState
<1>2. SharedKept
  BY NothingShared DEF EmitCaller
<1>3. ~line[g].colored
  BY <1>1 DEF KindInv
<1>4. CASE line[g].todo = {} /\ line' = [line EXCEPT ![g].pc = "done"]
  <2> DEFINE r == [line[g] EXCEPT !.pc = "done"]
  <2>1. line' = [line EXCEPT ![g] = r] /\ line'[g] = r
    BY <1>4 DEF FormatInv
  <2>2. r \in LineState
    BY <1>1 DEF LineState, Labels
  <2>3. /\ r.pc = "done" /\ r.entry = e /\ r.data = data /\ r.colored = line[g].colored
        /\ r.calm = line[g].calm /\ r.settled = line[g].settled /\ r.all = line[g].all
        /\ r.out = line[g].out
    BY <1>1 DEF LineState
  <2> HIDE DEF r
  <2>4. /\ formatter' = formatter /\ formatter.kind = "text"
        /\ EntryInv(g)' /\ KindInv(g)' /\ DataInv(g)' /\ FixedInv(g)'
        /\ Wanted(g)' = Wanted(g) /\ \A n : Resolve(n)' = Resolve(n)
    BY <1>1, <1>2, <1>3, <2>1, <2>3, LastStep
  <2>5. Values(g)' = Values(g)
    BY <2>1, <2>3 DEF Values
  <2>6. OutTrue(g)'
    BY <1>1, <2>1, <2>3, <2>4 DEF EmitInv, OutTrue
  <2>7. line[g].calm => Wanted(g) \subseteq Values(g)
    BY <1>1, <1>4 DEF EmitInv, Promised
  <2>8. DoneInv(g)'
    BY <1>1, <1>3, <2>1, <2>3, <2>4, <2>5, <2>6, <2>7 DEF EmitInv, DoneInv
  <2>9. LineInv(g)'
    BY <2>1, <2>3, <2>4, <2>8 DEF LineInv, EmitInv
  <2> QED BY <1>2, <2>1, <2>2, <2>9, OwnLine
<1>5. CASE \E key \in line[g].todo :
             line' = [line EXCEPT ![g].todo = @ \ {key},
                                  ![g].out = @ \cup {<<Resolve(key[1]), shown(key[1])>>}]
  <2>1. PICK key \in line[g].todo :
          line' = [line EXCEPT ![g].todo = @ \ {key},
                               ![g].out = @ \cup {<<Resolve(key[1]), shown(key[1])>>}]
    BY <1>5
  <2> DEFINE m    == key[1]
             out  == line[g].out \cup {<<Resolve(m), shown(m)>>}
             todo == line[g].todo \ {key}
             r    == [line[g] EXCEPT !.todo = todo, !.out = out]
  <2>2. m \in CallerNames /\ m \in DefaultNames
    BY <1>1 DEF CallerNames, DefaultNames
  <2>3. line' = [line EXCEPT ![g] = r] /\ line'[g] = r
    BY <2>1 DEF FormatInv
  <2>4. shown(m) \in Value
    <3>1. Missing \in Value
      BY DEF Missing, Value, Key
    <3>2. Resolve(m) \in DOMAIN data => data[Resolve(m)] \in Value
      BY <1>1, PairTypes
    <3> QED BY <2>2, <3>1, <3>2, DefaultValues
  <2>5. <<Resolve(m), shown(m)>> \in Key \X Value
    <3> HIDE DEF shown
    <3> QED BY <1>1, <2>2, <2>4, ResolveFacts
  <2>6. out \subseteq Key \X Value /\ todo \subseteq CallerNames \X {"fixed", "field"}
    BY <1>1, <2>5
  <2>7. \A n \in {"time", "level", "msg", "logrus_error"} : Resolve(m) # Resolve(n)
    BY <1>1, <2>2, TruePairs
  <2>8. ASSUME NEW value,
               \/ \E pair \in line[g].out : pair[2] = value
               \/ ~e.caller /\ \E n \in CallerNames : /\ <<n, "field">> \in line[g].todo
                                                      /\ Resolve(n) \in DOMAIN data
                                                      /\ data[Resolve(n)] = value
        PROVE  \/ \E pair \in out : pair[2] = value
               \/ ~e.caller /\ \E n \in CallerNames : /\ <<n, "field">> \in todo
                                                      /\ Resolve(n) \in DOMAIN data
                                                      /\ data[Resolve(n)] = value
    <3>1. CASE \E pair \in line[g].out : pair[2] = value
      BY <3>1
    <3>2. CASE ~e.caller /\ \E n \in CallerNames : /\ <<n, "field">> \in line[g].todo
                                                   /\ Resolve(n) \in DOMAIN data
                                                   /\ data[Resolve(n)] = value
      <4>1. PICK n \in CallerNames : /\ <<n, "field">> \in line[g].todo
                                     /\ Resolve(n) \in DOMAIN data
                                     /\ data[Resolve(n)] = value
        BY <3>2
      <4>2. CASE <<n, "field">> = key
        <5>1. m = n /\ ~HasCaller(e)
          BY <3>2, <4>2 DEF HasCaller
        <5>2. shown(m) = value
          BY <4>1, <5>1
        <5>3. <<Resolve(m), value>> \in out
          BY <5>2
        <5> HIDE DEF out
        <5> QED BY <5>3
      <4>3. CASE <<n, "field">> # key
        BY <3>2, <4>1, <4>3
      <4> QED BY <4>2, <4>3
    <3> QED BY <2>8, <3>1, <3>2
  <2>9. line[g].out \subseteq out
    OBVIOUS
  <2>10. \A pair \in out : pair \in line[g].out \/ pair[1] = Resolve(m)
    OBVIOUS
  <2> HIDE DEF out, todo, shown
  <2>11. r \in LineState
    BY <1>1, <2>6 DEF LineState
  <2>12. /\ r.pc = "emit" /\ r.entry = e /\ r.data = data /\ r.colored = line[g].colored
         /\ r.calm = line[g].calm /\ r.settled = line[g].settled /\ r.all = line[g].all
         /\ r.out = out /\ r.todo = todo
    BY <1>1 DEF LineState
  <2> HIDE DEF r
  <2>13. /\ formatter' = formatter /\ formatter.kind = "text"
         /\ EntryInv(g)' /\ KindInv(g)' /\ DataInv(g)' /\ FixedInv(g)'
         /\ Wanted(g)' = Wanted(g) /\ \A n : Resolve(n)' = Resolve(n)
    BY <1>1, <1>2, <1>3, <2>3, <2>12, LastStep
  <2>14. \A value : value \in Values(g)' <=> \E pair \in out : pair[2] = value
    BY <2>3, <2>12 DEF Values
  <2>15. \A value \in Values(g) : value \in Values(g)'
    <3> SUFFICES ASSUME NEW value \in Values(g) PROVE \E pair \in out : pair[2] = value
      BY <2>14
    <3> QED BY <2>9 DEF Values
  <2>16. EmitInv(g)'
    <3>1. OutTrue(g)'
      <4> SUFFICES ASSUME NEW pair \in out, NEW n \in {"time", "level", "msg", "logrus_error"},
                          pair[1] = Resolve(n)
                   PROVE  pair[2] = Defaults(n)
        BY <2>3, <2>12, <2>13 DEF OutTrue
      <4>1. pair \in line[g].out
        BY <2>7, <2>10
      <4> QED BY <1>1, <4>1 DEF EmitInv, OutTrue
    <3>2. Defaults("level") \in Values(g)'
      BY <1>1, <2>15 DEF EmitInv
    <3>3. line'[g].entry.named # {} => Defaults("logrus_error") \in Values(g)'
      BY <1>1, <2>3, <2>12, <2>15 DEF EmitInv
    <3>4. formatter'.sorting = "custom" /\ line'[g].settled => line'[g].all = "custom"
      BY <1>1, <2>3, <2>12, <2>13 DEF EmitInv
    <3>5. ASSUME line'[g].calm, NEW value \in Wanted(g)' PROVE Promised(g, value)'
      <4>1. line[g].calm /\ value \in Wanted(g)
        BY <2>3, <2>12, <2>13, <3>5
      <4>2. Promised(g, value)
        BY <1>1, <4>1 DEF EmitInv
      <4>3. \/ \E pair \in line[g].out : pair[2] = value
            \/ ~e.caller /\ \E n \in CallerNames : /\ <<n, "field">> \in line[g].todo
                                                   /\ Resolve(n) \in DOMAIN data
                                                   /\ data[Resolve(n)] = value
        BY <4>2 DEF Promised, Values
      <4>4. CASE \E pair \in out : pair[2] = value
        BY <2>14, <4>4 DEF Promised
      <4>5. CASE ~e.caller /\ \E n \in CallerNames : /\ <<n, "field">> \in todo
                                                     /\ Resolve(n) \in DOMAIN data
                                                     /\ data[Resolve(n)] = value
        BY <2>3, <2>12, <2>13, <4>5 DEF Promised
      <4> QED BY <2>8, <4>3, <4>4, <4>5
    <3> QED BY <3>1, <3>2, <3>3, <3>4, <3>5 DEF EmitInv
  <2>17. LineInv(g)'
    BY <2>3, <2>12, <2>13, <2>16 DEF LineInv, DoneInv, Printed
  <2> QED BY <1>2, <2>3, <2>11, <2>17, OwnLine
<1> QED BY <1>4, <1>5 DEF EmitCaller

LEMMA ReturnKeeps ==
  ASSUME FormatInv, NEW g \in Goroutines, Return(g) PROVE FormatInv'
<1>1. line' = [line EXCEPT ![g] = NoLine] /\ line'[g] = NoLine
  BY DEF FormatInv, Return
<1>2. SharedKept
  BY NothingShared DEF Return
<1>3. NoLine \in LineState /\ NoLine.pc = "idle" /\ NoLine.entry.refused = {} /\ ~NoLine.colored
  BY DEF NoLine, NewEntry, LineState, EntryState, Labels, Orders, Data
<1>4. LineInv(g)'
  BY <1>1, <1>3
     DEF LineInv, EntryInv, KindInv, DataInv, FixedInv, EmitInv, DoneInv, Printed
<1> QED BY <1>1, <1>2, <1>3, <1>4, OwnLine

LEMMA SetReportCallerKeeps ==
  ASSUME FormatInv, SetReportCaller PROVE FormatInv'
<1> DEFINE r(g) == [line[g] EXCEPT !.calm = FALSE]
<1>1. line' = [g \in Goroutines |-> r(g)]
  BY DEF SetReportCaller
<1>2. UNCHANGED <<formatter, terminal, initialised, withs, lines>>
  BY DEF SetReportCaller
<1>3. ASSUME NEW g \in Goroutines PROVE r(g) \in LineState /\ LineInv(g)'
  <2>1. /\ line[g] \in LineState
        /\ EntryInv(g) /\ KindInv(g) /\ DataInv(g) /\ FixedInv(g) /\ EmitInv(g) /\ DoneInv(g)
    BY Before
  <2>2. /\ r(g) \in LineState /\ r(g).pc = line[g].pc /\ r(g).entry = line[g].entry
        /\ r(g).data = line[g].data /\ r(g).fixed = line[g].fixed /\ r(g).keys = line[g].keys
        /\ r(g).all = line[g].all /\ r(g).out = line[g].out /\ ~r(g).calm
        /\ r(g).colored = line[g].colored /\ r(g).settled = line[g].settled
    BY <2>1 DEF LineState
  <2>3. line'[g] = r(g)
    BY <1>1
  <2> HIDE DEF r
  <2>4. EntryInv(g)'
    BY <1>2, <2>1, <2>2, <2>3 DEF EntryInv
  <2>5. KindInv(g)'
    BY <1>2, <2>1, <2>2, <2>3 DEF KindInv
  <2>6. DataInv(g)'
    BY <1>2, <2>1, <2>2, <2>3 DEF DataInv, Moved, Resolved, Resolve
  <2>7. FixedInv(g)'
    BY <1>2, <2>1, <2>2, <2>3 DEF FixedInv, Colored
  <2>8. Values(g)' = Values(g)
    BY <2>2, <2>3 DEF Values
  <2>9. OutTrue(g)' <=> OutTrue(g)
    BY <1>2, <2>2, <2>3 DEF OutTrue, Resolve
  <2>10. EmitInv(g)'
    BY <1>2, <2>1, <2>2, <2>3, <2>8, <2>9 DEF EmitInv
  <2>11. DoneInv(g)'
    BY <1>2, <2>1, <2>2, <2>3, <2>8, <2>9 DEF DoneInv, Printed
  <2> QED BY <2>2, <2>4, <2>5, <2>6, <2>7, <2>10, <2>11 DEF LineInv
<1>4. line' \in [Goroutines -> LineState]
  BY <1>1, <1>3
<1>5. FormattersTypeOK'
  <2>1. \A g \in Goroutines :
          /\ line'[g].pc \in Labels /\ line'[g].fixed \subseteq DefaultNames
          /\ {line'[g].keys, line'[g].all} \subseteq Orders
    BY <1>4 DEF LineState
  <2>2. reportCaller' \in BOOLEAN /\ toggles' \in 0..MaxToggles
    BY FormattersAssumption DEF FormatInv, FormattersTypeOK, SetReportCaller
  <2> QED BY <1>2, <2>1, <2>2 DEF FormatInv, FormattersTypeOK, Labels
<1> QED BY <1>3, <1>4, <1>5 DEF FormatInv

------------------------------------------------------------------------------
(* The theorems.                                                            *)

LEMMA InitFormats == Init => FormatInv
<1> SUFFICES ASSUME Init PROVE FormatInv
  OBVIOUS
<1>1. line = [g \in Goroutines |-> NoLine]
  BY DEF Init
<1>2. /\ NoLine \in LineState /\ NoLine.pc = "idle" /\ NoLine.entry.refused = {}
      /\ ~NoLine.colored
  BY DEF NoLine, NewEntry, LineState, EntryState, Labels, Orders, Data
<1>3. \A g \in Goroutines : LineInv(g)
  BY <1>1, <1>2
     DEF LineInv, EntryInv, KindInv, DataInv, FixedInv, EmitInv, DoneInv, Printed
<1>4. FormattersTypeOK
  <2>1. \A g \in Goroutines :
          /\ line[g].pc \in Labels /\ line[g].fixed \subseteq DefaultNames
          /\ {line[g].keys, line[g].all} \subseteq Orders
    BY <1>1, <1>2 DEF LineState
  <2>2. /\ formatter \in Formats /\ reportCaller \in BOOLEAN
        /\ initialised = FALSE /\ terminal = FALSE
        /\ withs \in 0..MaxWith /\ lines \in 0..MaxLines /\ toggles \in 0..MaxToggles
    BY FormattersAssumption DEF Init
  <2>3. terminal = (initialised /\ formatter.tty)
    BY <2>2
  <2> QED BY <2>1, <2>2, <2>3 DEF FormattersTypeOK, Labels
<1> QED BY <1>1, <1>2, <1>3, <1>4 DEF FormatInv

LEMMA StepFormats == FormatInv /\ [Next]_vars => FormatInv'
<1> SUFFICES ASSUME FormatInv, [Next]_vars PROVE FormatInv'
  OBVIOUS
<1>1. CASE UNCHANGED vars
  <2>1. SharedKept /\ line' = line
    BY <1>1, NothingShared DEF vars
  <2>2. \A g \in Goroutines : LineInv(g)'
    BY <2>1, OthersKeep
  <2> QED BY <1>1, <2>2 DEF FormatInv, FormattersTypeOK, vars, sharedVars, counts
<1>2. CASE \E g \in Goroutines :
             \/ With(g) \/ Start(g) \/ FormatSimple(g) \/ Clash(g) \/ Fill(g) \/ Fix(g)
             \/ Sort(g) \/ InitOnce(g) \/ PrintColored(g) \/ PrintPlain(g) \/ EmitCaller(g)
             \/ Return(g)
  BY <1>2, WithKeeps, StartKeeps, FormatSimpleKeeps, ClashKeeps, FillKeeps, FixKeeps, SortKeeps,
     InitOnceKeeps, PrintColoredKeeps, PrintPlainKeeps, EmitCallerKeeps, ReturnKeeps
<1>3. CASE SetReportCaller
  BY <1>3, SetReportCallerKeeps
<1> QED BY <1>1, <1>2, <1>3 DEF Next

LEMMA SpecFormats == Spec => []FormatInv
BY InitFormats, StepFormats, PTL DEF Spec

\* The shared terminal flag is what the Once has found, and every line is of its type.
THEOREM FormattersTypeCorrect == Spec => []FormattersTypeOK
<1>1. FormatInv => FormattersTypeOK
  BY DEF FormatInv
<1> QED BY <1>1, SpecFormats, PTL

\* No field is lost from a line that no SetReportCaller has disturbed, whatever the keys,
\* the FieldMap, the DataKey and the order of the fields.
THEOREM EveryFieldSurvives == Spec => []FieldsSurvive
<1>1. FormatInv => FieldsSurvive
  <2> SUFFICES ASSUME FormatInv, NEW g \in Goroutines, Printed(g), line[g].calm
               PROVE  FieldsKept(g)
    BY DEF FieldsSurvive
  <2>1. Wanted(g) \subseteq Values(g)
    BY Before DEF DoneInv
  <2>2. CASE formatter.nest # <<>>
    BY <2>1, <2>2 DEF Wanted, FieldsKept
  <2>3. CASE formatter.nest = <<>>
    <3>1. \A key \in line[g].entry.data : ~Shadowed(key, line[g].entry) => Users(key) \in Wanted(g)
      BY <2>3 DEF Wanted
    <3> QED BY <2>1, <2>3, <3>1 DEF FieldsKept
  <2> QED BY <2>2, <2>3
<1> QED BY <1>1, SpecFormats, PTL

\* A reader of a line may trust its default keys, even when ReportCaller changes under way.
THEOREM DefaultKeysTellTrue == Spec => []DefaultKeysTrue
<1>1. FormatInv => DefaultKeysTrue
  BY Before DEF DefaultKeysTrue, DoneInv, OutTrue
<1> QED BY <1>1, SpecFormats, PTL

\* However many calls of WithFields follow, a refused field is not forgotten.
THEOREM RefusalsStayNamed == Spec => []RefusalsNamed
<1>1. FormatInv => RefusalsNamed
  <2> SUFFICES ASSUME FormatInv, NEW g \in Goroutines, Printed(g), ~line[g].colored,
                      line[g].entry.refused # {}
               PROVE  /\ \A bad \in line[g].entry.refused : bad \cap line[g].entry.named # {}
                      /\ Defaults("logrus_error") \in Values(g)
    BY DEF RefusalsNamed
  <2>1. EntryInv(g) /\ DoneInv(g)
    BY Before
  <2>2. line[g].entry.named # {}
    BY <2>1 DEF EntryInv
  <2> QED BY <2>1, <2>2 DEF EntryInv, DoneInv
<1> QED BY <1>1, SpecFormats, PTL

\* Two looks at the terminal agree in every line begun after the first one was printed.
THEOREM OrderFitsThePrint == Spec => []SortedAsPrinted
<1>1. FormatInv => SortedAsPrinted
  BY Before DEF SortedAsPrinted, DoneInv
<1> QED BY <1>1, SpecFormats, PTL
=============================================================================
