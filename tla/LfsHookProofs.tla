---------------------------- MODULE LfsHookProofs ----------------------------
(***************************************************************************)
(* Proofs about LfsHook: what the writers keep on their own they keep      *)
(* under the hook, and the mutex of the hook puts the entries in one order *)
(* that every file follows.                                                *)
(***************************************************************************)
EXTENDS LfsHook, RotatingFileProofs

------------------------------------------------------------------------------
(* The inductive invariant.                                                 *)

Entry     == [level : Levels, result : {"nil", "pending", "error", "crash"}]
FireState == [pc : {"idle", "next", "in"}, entry : Nat, left : Seq(Writers)]
Routes    == {<<>>} \cup {<<w>> : w \in Fallbacks}

HookTypes ==
  /\ config \in {"before", "making", "failed", "added"} /\ made \in 0..Len(Order)
  /\ config \in {"before", "making"} => made < Len(Order)
  /\ maxAge \in Ages \cup {DefaultAge} /\ fallback \in Routes /\ sets \in 0..MaxEvents
  /\ hookLock \in Goroutines \cup {NoGoroutine} /\ fire \in [Goroutines -> FireState]
  /\ fired \in Seq(Entry) /\ Len(fired) <= MaxFires
  /\ entryOf \in Seq(Nat) /\ Len(entryOf) = writes

\* Who fires an entry holds the mutex, and the entry is the last one; a call of Write that
\* is under way is on the writer whose turn it is, for this entry.
FireInv ==
  \A g \in Goroutines : fire[g].pc # "idle" =>
    /\ hookLock = g /\ fired # <<>> /\ fire[g].entry = Len(fired)
    /\ fired[Len(fired)].result = "pending"
    /\ fire[g].left # <<>> /\ IsInjective(fire[g].left)
    /\ fire[g].pc = "in" /\ call[g].pc # "idle" =>
         /\ call[g].on = Head(fire[g].left) /\ entryOf[call[g].id] = fire[g].entry

\* Writes follow the order of the entries.
OrderInv ==
  /\ \A i, j \in DOMAIN entryOf : i <= j => entryOf[i] <= entryOf[j]
  /\ \A i \in DOMAIN entryOf : entryOf[i] <= Len(fired)
  /\ \A rec \in accepted : rec.id \in DOMAIN entryOf

\* No file has an entry twice, nor one that is still to be written to it.
OnceInv ==
  /\ \A a, b \in accepted : a.by = b.by /\ entryOf[a.id] = entryOf[b.id] => a.id = b.id
  /\ \A g \in Goroutines : fire[g].pc # "idle" =>
       \A rec \in accepted : entryOf[rec.id] = fire[g].entry =>
         rec.by \notin ToSet(fire[g].left)

\* What is left for a MultiWriter is the end of its list; the writers before have the entry.
Underway(g, all) ==
  LET left == fire[g].left
      done == Len(all) - Len(left)
  IN  /\ done >= 0
      /\ \A i \in 1..Len(left) : left[i] = all[done + i]
      /\ \A i \in 1..done : Holds(all[i], fire[g].entry)

UnderwayInv ==
  \A g \in Goroutines : fire[g].pc # "idle" =>
    LET level == fired[fire[g].entry].level IN
    level \in DOMAIN WriterMap => Underway(g, WriterMap[level])

HInv == HookTypes /\ FireInv /\ OrderInv /\ OnceInv /\ UnderwayInv /\ NilMeansEverywhere

------------------------------------------------------------------------------
(* Helpers.                                                                 *)

\* Types of the parts of the hook's state.
LEMMA HookFields ==
  ASSUME HookTypes
  PROVE  /\ Len(fired) \in Nat /\ DOMAIN fired = 1..Len(fired)
         /\ \A n \in DOMAIN fired : fired[n] \in Entry
         /\ DOMAIN entryOf = 1..writes /\ \A i \in DOMAIN entryOf : entryOf[i] \in Nat
         /\ \A g \in Goroutines :
              /\ fire[g] \in FireState /\ fire[g].pc \in {"idle", "next", "in"}
              /\ fire[g].entry \in Nat /\ fire[g].left \in Seq(Writers)
<1>1. /\ Len(fired) \in Nat /\ DOMAIN fired = 1..Len(fired)
      /\ \A n \in DOMAIN fired : fired[n] \in Entry
  BY LenProperties, ElementOfSeq DEF HookTypes
<1>2. DOMAIN entryOf = 1..writes /\ \A i \in DOMAIN entryOf : entryOf[i] \in Nat
  BY LenProperties, ElementOfSeq DEF HookTypes
<1>3. \A g \in Goroutines : fire[g] \in FireState
  BY DEF HookTypes
<1> QED BY <1>1, <1>2, <1>3 DEF FireState

\* The first writer that is left, and the others.
LEMMA LeftFacts ==
  ASSUME NEW left \in Seq(Writers), left # <<>>
  PROVE  /\ Len(left) \in Nat \ {0} /\ DOMAIN left = 1..Len(left)
         /\ Head(left) = left[1] /\ Head(left) \in Writers /\ Head(left) \in ToSet(left)
         /\ Tail(left) \in Seq(Writers) /\ Len(Tail(left)) = Len(left) - 1
         /\ \A i \in 1..(Len(left) - 1) : Tail(left)[i] = left[i + 1]
         /\ ToSet(Tail(left)) \subseteq ToSet(left)
         /\ IsInjective(left) => IsInjective(Tail(left)) /\ Head(left) \notin ToSet(Tail(left))
<1>1. Len(left) \in Nat \ {0} /\ DOMAIN left = 1..Len(left) /\ \A i \in 1..Len(left) : left[i] \in Writers
  BY EmptySeq, LenProperties, ElementOfSeq
<1>2. Head(left) = left[1]
  BY HeadTailProperties
<1>3. /\ Tail(left) \in Seq(Writers) /\ Len(Tail(left)) = Len(left) - 1
      /\ \A i \in 1..Len(Tail(left)) : Tail(left)[i] = left[i + 1]
  BY HeadTailProperties
<1>4. DOMAIN Tail(left) = 1..(Len(left) - 1)
  BY <1>3, LenProperties
<1>5. \A i \in 1..(Len(left) - 1) : i + 1 \in 1..Len(left) /\ i + 1 # 1
  BY <1>1
<1>6. ToSet(Tail(left)) \subseteq ToSet(left)
  BY <1>1, <1>3, <1>4, <1>5 DEF ToSet
<1>7. IsInjective(left) => IsInjective(Tail(left)) /\ Head(left) \notin ToSet(Tail(left))
  BY <1>1, <1>2, <1>3, <1>4, <1>5 DEF IsInjective, ToSet
<1> QED BY <1>1, <1>2, <1>3, <1>6, <1>7 DEF ToSet

\* Writes that have an entry keep it.
Extends == \A i \in DOMAIN entryOf : i \in DOMAIN entryOf' /\ entryOf'[i] = entryOf[i]

LEMMA HoldsSame ==
  ASSUME OrderInv, Extends, UNCHANGED accepted, NEW w, NEW n
  PROVE  Holds(w, n)' <=> Holds(w, n)
  BY DEF OrderInv, Extends, Holds

\* Only the holder of the mutex fires.
LEMMA OneFires ==
  ASSUME FireInv, NEW g \in Goroutines, fire[g].pc # "idle", NEW h \in Goroutines, h # g
  PROVE  fire[h].pc = "idle"
  BY DEF FireInv

------------------------------------------------------------------------------
(* The steps.                                                               *)

\* Each step is one of RotatingFile, or leaves the writers alone.
LEMMA LfsIsFit ==
  ASSUME HookTypes, FireInv, [LfsNext]_lfsVars
  PROVE  [FitStep]_vars
<1>1. CASE CreateWriter
  <2>1. Order[made + 1] \in Writers
    <3>1. made + 1 \in 1..Len(Order)
      BY <1>1 DEF CreateWriter, HookTypes
    <3> QED BY <3>1, LfsAssumption, ElementOfSeq
  <2>2. maxAge \in Nat /\ \A v \in Covers[Order[made + 1]] : MaxAge[v] <= maxAge
    BY <2>1, LfsAssumption, RotatingAssumption DEF HookTypes
  <2> QED BY <1>1, <2>1, <2>2 DEF CreateWriter, FitStep
<1>2. CASE CreateFails
  <2>1. Order[made + 1] \in Writers
    <3>1. made + 1 \in 1..Len(Order)
      BY <1>2 DEF CreateFails, HookTypes
    <3> QED BY <3>1, LfsAssumption, ElementOfSeq
  <2> QED BY <1>2, <2>1 DEF CreateFails, FitStep
<1>3. CASE Background \/ Restart
  BY <1>3 DEF Background, Restart, FitStep
<1>4. ASSUME NEW g \in Goroutines, WriteNext(g)
      PROVE  [FitStep]_vars
  <2>1. Head(fire[g].left) \in Writers
    BY <1>4, HookFields, LeftFacts DEF WriteNext, FireInv
  <2> QED BY <1>4, <2>1 DEF WriteNext, FitStep
<1>5. ASSUME NEW g \in Goroutines, WriteStep(g)
      PROVE  [FitStep]_vars
  BY <1>5 DEF WriteStep, FitStep
<1>6. CASE UNCHANGED vars
  BY <1>6
<1>7. \/ CreateWriter \/ CreateFails \/ Background \/ Restart
      \/ \E g \in Goroutines : WriteNext(g) \/ WriteStep(g)
      \/ UNCHANGED vars
  BY DEF LfsNext, SetMaxAge, SetDefaultWriter, StartFire, lfsVars
<1> QED BY <1>1, <1>2, <1>3, <1>4, <1>5, <1>6, <1>7

\* What happens outside of Fire.
LEMMA QuietKeeps ==
  ASSUME RInv, HInv,
         \/ CreateWriter \/ CreateFails \/ Background \/ UNCHANGED lfsVars
         \/ \E age \in Ages : SetMaxAge(age)
         \/ \E w \in Fallbacks : SetDefaultWriter(w)
  PROVE  HInv'
<1>1. UNCHANGED <<hookLock, fire, fired, entryOf, call, accepted, writes>>
  BY DEF CreateWriter, CreateFails, Background, SetMaxAge, SetDefaultWriter, hookVars, lfsVars,
         vars, memVars, New, NewFails, Advance, CleanerStep, Stop, List, Examine, Unlink
<1>2. FireInv' /\ OrderInv' /\ OnceInv' /\ UnderwayInv' /\ NilMeansEverywhere'
  <2>1. FireInv' /\ OrderInv' /\ OnceInv'
    BY <1>1 DEF HInv, FireInv, OrderInv, OnceInv
  <2>2. \A w, n : Holds(w, n)' <=> Holds(w, n)
    BY <1>1 DEF Holds
  <2>3. UnderwayInv'
    BY <1>1, <2>2 DEF HInv, UnderwayInv, Underway
  <2>4. NilMeansEverywhere'
    BY <1>1, <2>2 DEF HInv, NilMeansEverywhere
  <2> QED BY <2>1, <2>3, <2>4
<1>3. HookTypes'
  <2>0. HookTypes
    BY DEF HInv
  <2>1. CASE CreateWriter
    <3>1. made \in Nat /\ Len(Order) \in Nat /\ made < Len(Order)
      BY <2>0, <2>1, LfsAssumption DEF CreateWriter, HookTypes
    <3> QED BY <1>1, <2>0, <2>1, <3>1 DEF CreateWriter, HookTypes
  <2>2. CASE CreateFails
    BY <1>1, <2>0, <2>2 DEF CreateFails, HookTypes
  <2>3. CASE Background \/ UNCHANGED lfsVars
    BY <1>1, <2>0, <2>3 DEF Background, lfsVars, confVars, HookTypes
  <2>4. sets + crashes < MaxEvents => sets + 1 \in 0..MaxEvents
    <3>1. crashes \in Nat /\ sets \in Nat /\ MaxEvents \in Nat
      BY <2>0, LfsAssumption, RotatingAssumption DEF RInv, Types, HookTypes
    <3> QED BY <3>1
  <2>5. ASSUME NEW age \in Ages, SetMaxAge(age)
        PROVE  HookTypes'
    BY <1>1, <2>0, <2>4, <2>5 DEF SetMaxAge, HookTypes
  <2>6. ASSUME NEW w \in Fallbacks, SetDefaultWriter(w)
        PROVE  HookTypes'
    BY <1>1, <2>0, <2>4, <2>6 DEF SetDefaultWriter, HookTypes, Routes
  <2> QED BY <2>1, <2>2, <2>3, <2>5, <2>6
<1> QED BY <1>2, <1>3 DEF HInv

LEMMA StartFireKeeps ==
  ASSUME RInv, HInv, NEW g \in Goroutines, NEW level \in Levels, StartFire(g, level)
  PROVE  HInv'
<1>0. HookTypes /\ FireInv /\ OrderInv /\ OnceInv /\ UnderwayInv /\ NilMeansEverywhere
  BY DEF HInv
<1> DEFINE left == Route(level)
           n    == Len(fired) + 1
<1>1. PICK result \in {"nil", "pending", "error"} :
        /\ result = "pending" => left # <<>>
        /\ result = "nil" => left = <<>>
        /\ fired' = Append(fired, [level |-> level, result |-> result])
        /\ IF result # "pending" THEN UNCHANGED <<hookLock, fire>>
           ELSE /\ hookLock' = g
                /\ fire' = [fire EXCEPT ![g] = [pc |-> "next", entry |-> n, left |-> left]]
  BY DEF StartFire
<1>2. /\ UNCHANGED <<config, made, maxAge, fallback, sets, call, accepted, writes, entryOf>>
      /\ Len(fired) < MaxFires /\ \A h \in Goroutines : fire[h].pc = "idle"
  <2>1. \A h \in Goroutines : fire[h].pc = "idle"
    BY <1>0, RotatingAssumption DEF StartFire, MayLock, FireInv
  <2> QED BY <2>1 DEF StartFire, vars, confVars, memVars
<1>3. left \in Seq(Writers) /\ (level \in DOMAIN WriterMap => left = WriterMap[level])
      /\ IsInjective(left)
  <2>1. CASE level \in DOMAIN WriterMap
    BY <2>1, LfsAssumption DEF Route
  <2>2. CASE level \notin DOMAIN WriterMap
    <3>1. left = fallback /\ fallback \in Routes
      BY <1>0, <2>2 DEF Route, HookTypes
    <3>2. CASE left = <<>>
      BY <2>2, <3>2 DEF IsInjective
    <3>3. ASSUME NEW w \in Fallbacks, left = <<w>>
          PROVE  left \in Seq(Writers) /\ IsInjective(left)
      <4>1. w \in Writers
        BY LfsAssumption
      <4> HIDE DEF left
      <4> QED BY <3>3, <4>1 DEF IsInjective
    <3> QED BY <2>2, <3>1, <3>2, <3>3 DEF Routes
  <2> QED BY <2>1, <2>2
<1> DEFINE e == [level |-> level, result |-> result]
<1>4. e \in Entry /\ e.level = level /\ e.result = result
  BY DEF Entry
<1> HIDE DEF left, e
<1>5. /\ fired' = Append(fired, e) /\ fired' \in Seq(Entry) /\ Len(fired') = n /\ n \in Nat
      /\ \A i \in 1..Len(fired) : fired'[i] = fired[i]
      /\ fired'[n] = e /\ DOMAIN fired' = 1..n /\ DOMAIN fired = 1..Len(fired)
      /\ Len(fired) \in Nat /\ n # 0
  BY <1>0, <1>1, <1>4, AppendProperties, LenProperties DEF HookTypes, e
<1>6. \A h \in Goroutines : fire'[h].pc # "idle" =>
        /\ h = g /\ result = "pending"
        /\ fire'[g] = [pc |-> "next", entry |-> n, left |-> left]
  BY <1>0, <1>1, <1>2 DEF HookTypes
<1>7. HookTypes'
  <2>1. n <= MaxFires
    BY <1>2, <1>5, LfsAssumption
  <2>2. fire' \in [Goroutines -> FireState] /\ hookLock' \in Goroutines \cup {NoGoroutine}
    <3>1. fire \in [Goroutines -> FireState] /\ hookLock \in Goroutines \cup {NoGoroutine}
      BY <1>0 DEF HookTypes
    <3>2. [pc |-> "next", entry |-> n, left |-> left] \in FireState
      BY <1>3, <1>5 DEF FireState
    <3> HIDE DEF n
    <3> QED BY <1>1, <3>1, <3>2
  <2> QED BY <1>0, <1>2, <1>5, <2>1, <2>2 DEF HookTypes
<1>8. FireInv'
  BY <1>1, <1>3, <1>4, <1>5, <1>6, EmptySeq DEF FireInv
<1>9. OrderInv'
  <2>1. \A i \in DOMAIN entryOf : entryOf[i] \in Nat /\ entryOf[i] <= Len(fired)
    BY <1>0, HookFields DEF OrderInv
  <2>2. \A i \in DOMAIN entryOf : entryOf[i] <= n
    BY <1>5, <2>1
  <2> QED BY <1>0, <1>2, <1>5, <2>2 DEF OrderInv
<1>10. \A rec \in accepted : entryOf[rec.id] # n
  BY <1>0, <1>5, HookFields DEF OrderInv
<1>11. OnceInv'
  BY <1>0, <1>2, <1>6, <1>10 DEF OnceInv
<1>12. UnderwayInv'
  <2>1. ASSUME level \in DOMAIN WriterMap
        PROVE  LET done == Len(WriterMap[level]) - Len(left)
               IN  done = 0 /\ \A i \in 1..Len(left) : left[i] = WriterMap[level][done + i]
    <3>1. Len(left) \in Nat /\ left = WriterMap[level]
      BY <1>3, <2>1
    <3> QED BY <3>1
  <2>2. ASSUME NEW h \in Goroutines, fire'[h].pc # "idle", level \in DOMAIN WriterMap
        PROVE  Underway(h, WriterMap[level])'
    <3>1. fire'[h].left = left
      BY <1>6, <2>2
    <3>2. Len(left) \in Nat /\ 1..0 = {}
      BY <1>3
    <3> QED BY <2>1, <2>2, <3>1, <3>2 DEF Underway
  <2>3. \A h \in Goroutines : fire'[h].pc # "idle" => fired'[fire'[h].entry].level = level
    BY <1>4, <1>5, <1>6
  <2> QED BY <2>2, <2>3 DEF UnderwayInv
<1>13. NilMeansEverywhere'
  <2>1. \A w, k : Holds(w, k)' <=> Holds(w, k)
    BY <1>2 DEF Holds
  <2>2. \A w : ~Holds(w, n)
    BY <1>10 DEF Holds
  <2>3. ASSUME NEW k \in DOMAIN fired', fired'[k].level \in DOMAIN WriterMap
        PROVE  LET all == WriterMap[fired'[k].level] IN
               /\ fired'[k].result = "nil" => \A w \in ToSet(all) : Holds(w, k)
               /\ \A i \in 2..Len(all) : Holds(all[i], k) => Holds(all[i - 1], k)
    <3>1. CASE k = n
      <4>1. fired'[k].result = "nil" => ToSet(WriterMap[fired'[k].level]) = {}
        BY <1>1, <1>3, <1>4, <1>5, <2>3, <3>1 DEF ToSet
      <4> QED BY <2>2, <3>1, <4>1
    <3>2. CASE k \in 1..Len(fired)
      BY <1>0, <1>5, <2>3, <3>2 DEF NilMeansEverywhere
    <3> QED BY <1>5, <2>3, <3>1, <3>2, SMTT(30)
  <2> QED BY <2>1, <2>3 DEF NilMeansEverywhere
<1> QED BY <1>7, <1>8, <1>9, <1>11, <1>12, <1>13 DEF HInv

\* The MultiWriter calls Write of the next writer, which enters the write in entryOf.
LEMMA WriteNextKeeps ==
  ASSUME RInv, RInv', HInv, NEW g \in Goroutines, WriteNext(g)
  PROVE  HInv'
<1>0. HookTypes /\ FireInv /\ OrderInv /\ OnceInv /\ UnderwayInv /\ NilMeansEverywhere
  BY DEF HInv
<1> DEFINE n == fire[g].entry
           w == Head(fire[g].left)
<1>1. /\ UNCHANGED <<config, made, maxAge, fallback, sets, hookLock, fired, accepted>>
      /\ writes' = writes + 1 /\ entryOf' = Append(entryOf, n)
      /\ fire' = [fire EXCEPT ![g].pc = "in"] /\ fire[g].pc = "next" /\ Idle(g)
      /\ \/ UNCHANGED call
         \/ \E pc \in {"rotate", "append"} :
              call' = [call EXCEPT ![g] = [pc |-> pc, on |-> w, at |-> now, id |-> writes + 1]]
  BY DEF WriteNext, Enter, confVars
<1>2. /\ fire[g] \in FireState /\ n = Len(fired) /\ n \in Nat /\ writes \in Nat
      /\ hookLock = g /\ \A h \in Goroutines \ {g} : fire[h].pc = "idle"
      /\ Len(fired) \in Nat /\ n # 0 /\ n \in DOMAIN fired
  BY <1>0, <1>1, HookFields, OneFires, EmptySeq, FieldTypes DEF FireInv, RInv
<1>3. /\ fire' \in [Goroutines -> FireState]
      /\ fire'[g].pc = "in" /\ fire'[g].entry = n /\ fire'[g].left = fire[g].left
      /\ \A h \in Goroutines \ {g} : fire'[h].pc = "idle"
  BY <1>0, <1>1, <1>2 DEF HookTypes, FireState
<1>4. /\ entryOf' \in Seq(Nat) /\ Len(entryOf') = writes + 1
      /\ \A i \in 1..writes : entryOf'[i] = entryOf[i]
      /\ entryOf'[writes + 1] = n /\ DOMAIN entryOf = 1..writes
      /\ DOMAIN entryOf' = 1..(writes + 1)
  BY <1>0, <1>1, <1>2, AppendProperties, LenProperties DEF HookTypes
<1>5. Extends
  BY <1>2, <1>4 DEF Extends
<1>6. HookTypes'
  BY <1>0, <1>1, <1>3, <1>4 DEF HookTypes
<1>7. FireInv'
  <2>1. call'[g].pc # "idle" => call'[g].on = w /\ entryOf'[call'[g].id] = n
    <3>1. call \in [Goroutines -> CallState] /\ call[g].pc = "idle"
      BY <1>1 DEF RInv, Types, Idle
    <3> HIDE DEF n, w
    <3> QED BY <1>1, <1>4, <3>1
  <2> QED BY <1>0, <1>1, <1>2, <1>3, <2>1 DEF FireInv
<1>8. OrderInv'
  <2>1. \A i \in 1..writes : entryOf[i] \in Nat /\ entryOf[i] <= n
    BY <1>0, <1>2, <1>4, HookFields DEF OrderInv
  <2>2. \A i \in 1..(writes + 1) : i \in 1..writes \/ i = writes + 1
    BY <1>2
  <2>3. \A i, j \in 1..(writes + 1) : i <= j => entryOf'[i] <= entryOf'[j]
    <3>1. ASSUME NEW i \in 1..(writes + 1), NEW j \in 1..(writes + 1), i <= j
          PROVE  entryOf'[i] <= entryOf'[j]
      <4>1. CASE j = writes + 1
        <5>1. n <= n
          BY <1>2
        <5> QED BY <1>4, <2>1, <2>2, <4>1, <5>1
      <4>2. CASE j \in 1..writes
        <5>1. i \in 1..writes
          BY <1>2, <3>1, <4>2
        <5> QED BY <1>0, <1>4, <3>1, <4>2, <5>1 DEF OrderInv
      <4> QED BY <2>2, <4>1, <4>2
    <3> QED BY <3>1
  <2>4. \A i \in 1..(writes + 1) : entryOf'[i] <= Len(fired)
    BY <1>2, <1>4, <2>1, <2>2
  <2>5. \A rec \in accepted : rec.id \in 1..(writes + 1)
    BY <1>0, <1>4, <1>5 DEF OrderInv, Extends
  <2> QED BY <1>1, <1>4, <2>3, <2>4, <2>5 DEF OrderInv
<1>9. \A rec \in accepted : entryOf'[rec.id] = entryOf[rec.id]
  BY <1>0, <1>5 DEF OrderInv, Extends
<1>10. OnceInv'
  <2>1. \A h \in Goroutines : fire'[h].pc # "idle" =>
          fire[h].pc # "idle" /\ fire'[h].entry = fire[h].entry /\ fire'[h].left = fire[h].left
    BY <1>1, <1>3
  <2>2. \A a, b \in accepted' : a.by = b.by /\ entryOf'[a.id] = entryOf'[b.id] => a.id = b.id
    <3>1. ASSUME NEW a \in accepted', NEW b \in accepted', a.by = b.by,
                 entryOf'[a.id] = entryOf'[b.id]
          PROVE  a.id = b.id
      <4>1. a \in accepted /\ b \in accepted /\ entryOf[a.id] = entryOf[b.id]
        BY <1>1, <1>9, <3>1
      <4> QED BY <1>0, <3>1, <4>1 DEF OnceInv
    <3> QED BY <3>1
  <2>3. ASSUME NEW h \in Goroutines, fire'[h].pc # "idle", NEW rec \in accepted',
               entryOf'[rec.id] = fire'[h].entry
        PROVE  rec.by \notin ToSet(fire'[h].left)
    <3>1. rec \in accepted /\ entryOf[rec.id] = fire[h].entry /\ fire[h].pc # "idle"
      BY <1>1, <1>9, <2>1, <2>3
    <3>2. rec.by \notin ToSet(fire[h].left)
      BY <1>0, <3>1 DEF OnceInv
    <3> QED BY <2>1, <2>3, <3>2
  <2> QED BY <2>2, <2>3 DEF OnceInv
<1>11. \A v, k : Holds(v, k)' <=> Holds(v, k)
  BY <1>0, <1>1, <1>5, HoldsSame
<1>12. UnderwayInv'
  <2>1. ASSUME NEW h \in Goroutines, fire'[h].pc # "idle", NEW l, l = fired[n].level,
               l \in DOMAIN WriterMap
        PROVE  Underway(h, WriterMap[l])'
    <3>1. h = g /\ Underway(g, WriterMap[l])
      BY <1>0, <1>1, <1>3, <2>1 DEF UnderwayInv
    <3> QED BY <1>3, <1>11, <3>1 DEF Underway
  <2>2. \A h \in Goroutines : fire'[h].pc # "idle" => fired'[fire'[h].entry] = fired[n]
    BY <1>1, <1>3
  <2> QED BY <2>1, <2>2 DEF UnderwayInv
<1>13. NilMeansEverywhere'
  BY <1>0, <1>1, <1>11 DEF NilMeansEverywhere
<1> QED BY <1>6, <1>7, <1>8, <1>10, <1>12, <1>13 DEF HInv

\* The process starts again.
LEMMA RestartKeeps ==
  ASSUME RInv, HInv, Restart
  PROVE  HInv'
<1>0. HookTypes /\ FireInv /\ OrderInv /\ OnceInv /\ UnderwayInv /\ NilMeansEverywhere
  BY DEF HInv
<1>1. /\ UNCHANGED <<sets, entryOf, accepted, writes>>
      /\ config' = "before" /\ made' = 0 /\ maxAge' = DefaultAge /\ fallback' = <<>>
      /\ hookLock' = NoGoroutine /\ \A g \in Goroutines : fire'[g] = NoFire
      /\ fire' \in [Goroutines -> {NoFire}]
  BY DEF Restart, Crash
<1>2. DOMAIN fired = 1..Len(fired) /\ Len(fired) \in Nat /\ \A n \in DOMAIN fired : fired[n] \in Entry
  BY <1>0, HookFields
<1>3. fired' = [i \in 1..Len(fired) |->
        IF fired[i].result = "pending" THEN [fired[i] EXCEPT !.result = "crash"] ELSE fired[i]]
  BY <1>2 DEF Restart
<1>4. /\ \A i \in 1..Len(fired) : /\ fired'[i] \in Entry /\ fired'[i].level = fired[i].level
                                  /\ fired'[i].result = "nil" => fired[i].result = "nil"
      /\ DOMAIN fired' = 1..Len(fired)
  BY <1>2, <1>3 DEF Entry
<1>5. fired' \in Seq(Entry) /\ Len(fired') = Len(fired)
  BY <1>2, <1>3, <1>4, SeqDef, LenProperties
<1>6. HookTypes'
  <2>1. Len(Order) \in Nat /\ 0 < Len(Order)
    BY LfsAssumption, EmptySeq
  <2>2. NoFire \in FireState
    BY DEF NoFire, FireState
  <2> QED BY <1>0, <1>1, <1>5, <2>1, <2>2 DEF HookTypes, Routes
<1>7. FireInv' /\ OrderInv' /\ OnceInv' /\ UnderwayInv'
  <2>1. \A g \in Goroutines : fire'[g].pc = "idle"
    BY <1>1 DEF NoFire
  <2> QED BY <1>0, <1>1, <1>5, <2>1 DEF FireInv, OrderInv, OnceInv, UnderwayInv
<1>8. NilMeansEverywhere'
  <2>1. \A w, n : Holds(w, n)' <=> Holds(w, n)
    BY <1>1 DEF Holds
  <2> QED BY <1>0, <1>2, <1>4, <2>1 DEF NilMeansEverywhere
<1> QED BY <1>6, <1>7, <1>8 DEF HInv

\* What a step inside Write comes to: the file was rotated; Write failed, which ends the
\* call of Fire; or it accepted a record, and the MultiWriter goes on.
LEMMA WriteOutcome ==
  ASSUME RInv, HInv, NEW g \in Goroutines, WriteStep(g)
  PROVE  LET w == Head(fire[g].left)
             n == Len(fired)
         IN  /\ UNCHANGED <<config, made, maxAge, fallback, sets, entryOf, writes>>
             /\ \/ /\ UNCHANGED <<hookLock, fire, fired, accepted>>
                   /\ call' = [call EXCEPT ![g].pc = "append"]
                \/ /\ UNCHANGED accepted /\ Answer(g, n, "error")
                   /\ call' = [call EXCEPT ![g] = NoCall]
                \/ /\ \E rec \in Rec : /\ rec.by = w /\ rec.id \in 1..writes
                                       /\ entryOf[rec.id] = n
                                       /\ accepted' = accepted \cup {rec}
                   /\ call' = [call EXCEPT ![g] = NoCall]
                   /\ \/ Tail(fire[g].left) = <<>> /\ Answer(g, n, "nil")
                      \/ /\ fire' = [fire EXCEPT ![g].pc = "next", ![g].left = Tail(@)]
                         /\ Tail(fire[g].left) # <<>> /\ UNCHANGED <<hookLock, fired>>
<1> DEFINE w == Head(fire[g].left)
           n == Len(fired)
           rec == [id |-> call[g].id, at |-> call[g].at, by |-> call[g].on,
                   pos |-> files[writer[call[g].on].file].size]
<1>0. HookTypes /\ FireInv /\ Types /\ OpenInv /\ CallInv
  BY DEF HInv, RInv
<1>1. /\ UNCHANGED <<config, made, maxAge, fallback, sets, entryOf, writes>>
      /\ CallStep(g) /\ Advanced(g) /\ fire[g].pc = "in"
  BY DEF WriteStep, confVars, CallStep, Rotate, AppendRecord
<1>2. fire[g].entry = n
  BY <1>0, <1>1 DEF FireInv
<1>3. /\ call \in [Goroutines -> CallState] /\ call[g] \in CallState /\ NoCall.pc = "idle"
      /\ call[g].pc # "idle" /\ fire \in [Goroutines -> FireState]
  BY <1>0, <1>1 DEF Types, CallStep, Rotate, AppendRecord, NoCall, HookTypes
<1>4. CASE Rotate(g) /\ call' = [call EXCEPT ![g].pc = "append"]
  <2>1. call'[g].pc = "append" /\ UNCHANGED accepted
    BY <1>3, <1>4 DEF CallState, Rotate
  <2> QED BY <1>1, <1>4, <2>1 DEF Advanced
<1>5. CASE UNCHANGED accepted /\ call' = [call EXCEPT ![g] = NoCall]
  <2>1. call'[g].pc = "idle"
    BY <1>3, <1>5
  <2>2. Answer(g, n, "error")
    BY <1>1, <1>2, <1>5, <2>1 DEF Advanced, AfterError
  <2> QED BY <1>1, <1>5, <2>2
<1>6. CASE AppendRecord(g) /\ accepted' # accepted
  <2>1. /\ call' = [call EXCEPT ![g] = NoCall] /\ accepted' = accepted \cup {rec}
        /\ writer[call[g].on].open
    <3> HIDE DEF rec
    <3>1. \/ UNCHANGED accepted
          \/ accepted' = accepted \cup {rec} /\ writer[call[g].on].open
      BY <1>6 DEF AppendRecord, rec
    <3> QED BY <1>6, <3>1 DEF AppendRecord, Leave
  <2>2. call'[g].pc = "idle"
    BY <1>3, <2>1
  <2>3. rec \in Rec /\ rec.by = w /\ rec.id \in 1..writes /\ entryOf[rec.id] = n
    <3>1. call[g].on = w /\ entryOf[call[g].id] = n
      BY <1>0, <1>1, <1>2, <1>3 DEF FireInv
    <3>2. call[g].on \in Writers /\ call[g].id \in 1..writes /\ call[g].id \in Nat /\ call[g].at \in Nat
      BY <1>0, <1>3, FieldTypes DEF CallInv
    <3>3. files[writer[call[g].on].file].size \in Nat
      <4>1. files \in Seq(File) /\ writer[call[g].on].file \in 1..Len(files)
        BY <1>0, <2>1, <3>2, FieldTypes DEF OpenInv, Types
      <4> QED BY <4>1, FileTypes
    <3> QED BY <3>1, <3>2, <3>3 DEF Rec
  <2>4. \/ Tail(fire[g].left) = <<>> /\ Answer(g, n, "nil")
        \/ /\ fire' = [fire EXCEPT ![g].pc = "next", ![g].left = Tail(@)]
           /\ Tail(fire[g].left) # <<>> /\ UNCHANGED <<hookLock, fired>>
    BY <1>1, <1>2, <1>3, <1>6, <2>2 DEF Advanced
  <2> HIDE DEF rec
  <2> QED BY <1>1, <2>1, <2>3, <2>4
<1>7. \/ Rotate(g) /\ call' = [call EXCEPT ![g].pc = "append"]
      \/ UNCHANGED accepted /\ call' = [call EXCEPT ![g] = NoCall]
      \/ AppendRecord(g) /\ accepted' # accepted
  BY <1>1 DEF CallStep, Rotate, AppendRecord, Leave
<1> QED BY <1>4, <1>5, <1>6, <1>7

LEMMA AnswerFacts ==
  ASSUME HookTypes, FireInv, NEW g \in Goroutines, fire[g].pc # "idle",
         NEW result \in {"nil", "error"}, Answer(g, Len(fired), result)
  PROVE  /\ fire' \in [Goroutines -> FireState] /\ fired' \in Seq(Entry)
         /\ Len(fired') = Len(fired) /\ DOMAIN fired' = DOMAIN fired /\ hookLock' = NoGoroutine
         /\ \A h \in Goroutines : fire'[h].pc = "idle"
         /\ \A k \in DOMAIN fired : /\ fired'[k].level = fired[k].level
                                    /\ k # Len(fired) => fired'[k] = fired[k]
         /\ fired'[Len(fired)].result = result
<1>1. /\ fired \in Seq(Entry) /\ Len(fired) \in Nat /\ DOMAIN fired = 1..Len(fired)
      /\ \A k \in 1..Len(fired) : fired[k] \in Entry
      /\ Len(fired) \in 1..Len(fired)
  BY HookFields, EmptySeq DEF HookTypes, FireInv
<1>2. NoFire \in FireState /\ NoFire.pc = "idle"
  BY DEF NoFire, FireState
<1>3. fire' \in [Goroutines -> FireState] /\ \A h \in Goroutines : fire'[h].pc = "idle"
  BY <1>2, OneFires DEF Answer, HookTypes
<1> DEFINE e == [fired[Len(fired)] EXCEPT !.result = result]
<1>4. e \in Entry /\ e.level = fired[Len(fired)].level /\ e.result = result
  BY <1>1 DEF Entry
<1>5. fired' = [fired EXCEPT ![Len(fired)] = e]
  BY DEF Answer
<1> HIDE DEF e
<1>6. fired' \in Seq(Entry) /\ Len(fired') = Len(fired) /\ DOMAIN fired' = DOMAIN fired
  BY <1>1, <1>4, <1>5
<1> QED BY <1>1, <1>3, <1>4, <1>5, <1>6 DEF Answer

\* A rotation inside Write, or a Write that fails.
LEMMA NoRecordKeeps ==
  ASSUME RInv, HInv, NEW g \in Goroutines, fire[g].pc = "in", call[g].pc # "idle",
         UNCHANGED <<config, made, maxAge, fallback, sets, entryOf, writes, accepted>>,
         \/ /\ UNCHANGED <<hookLock, fire, fired>>
            /\ call' = [call EXCEPT ![g].pc = "append"]
         \/ /\ Answer(g, Len(fired), "error")
            /\ call' = [call EXCEPT ![g] = NoCall]
  PROVE  HInv'
<1>0. HookTypes /\ FireInv /\ OrderInv /\ OnceInv /\ UnderwayInv /\ NilMeansEverywhere
  BY DEF HInv
<1>1. \A w, k : Holds(w, k)' <=> Holds(w, k)
  BY DEF Holds
<1>2. call \in [Goroutines -> CallState] /\ call[g] \in CallState
  BY DEF RInv, Types
<1>3. CASE UNCHANGED <<hookLock, fire, fired>> /\ call' = [call EXCEPT ![g].pc = "append"]
  <2>1. HookTypes'
    BY <1>0, <1>3 DEF HookTypes
  <2>2. FireInv'
    <3>1. /\ \A h \in Goroutines : h # g => call'[h] = call[h]
          /\ call'[g].on = call[g].on /\ call'[g].id = call[g].id
      BY <1>2, <1>3 DEF CallState
    <3> QED BY <1>0, <1>3, <3>1 DEF FireInv
  <2>3. OrderInv' /\ OnceInv'
    BY <1>0, <1>3 DEF OrderInv, OnceInv
  <2>4. UnderwayInv'
    BY <1>0, <1>1, <1>3 DEF UnderwayInv, Underway
  <2>5. NilMeansEverywhere'
    BY <1>0, <1>1, <1>3 DEF NilMeansEverywhere
  <2> QED BY <2>1, <2>2, <2>3, <2>4, <2>5 DEF HInv
<1>4. CASE Answer(g, Len(fired), "error")
  <2>1. /\ fire' \in [Goroutines -> FireState] /\ fired' \in Seq(Entry)
        /\ Len(fired') = Len(fired) /\ DOMAIN fired' = DOMAIN fired /\ hookLock' = NoGoroutine
        /\ \A h \in Goroutines : fire'[h].pc = "idle"
        /\ \A k \in DOMAIN fired : /\ fired'[k].level = fired[k].level
                                   /\ k # Len(fired) => fired'[k] = fired[k]
        /\ fired'[Len(fired)].result = "error"
    BY <1>0, <1>4, AnswerFacts
  <2>2. HookTypes'
    BY <1>0, <2>1 DEF HookTypes
  <2>3. FireInv' /\ OrderInv' /\ OnceInv' /\ UnderwayInv'
    BY <1>0, <2>1 DEF FireInv, OrderInv, OnceInv, UnderwayInv
  <2>4. \A k \in DOMAIN fired : fired'[k].result = "nil" => fired[k].result = "nil"
    BY <2>1
  <2>5. NilMeansEverywhere'
    BY <1>0, <1>1, <2>1, <2>4 DEF NilMeansEverywhere
  <2> QED BY <2>2, <2>3, <2>5 DEF HInv
<1> QED BY <1>3, <1>4

\* A Write that accepted a record.
LEMMA RecordKeeps ==
  ASSUME RInv, HInv, NEW g \in Goroutines, fire[g].pc = "in",
         UNCHANGED <<config, made, maxAge, fallback, sets, entryOf, writes>>,
         NEW rec \in Rec, rec.by = Head(fire[g].left), rec.id \in 1..writes,
         entryOf[rec.id] = Len(fired), accepted' = accepted \cup {rec},
         \/ Tail(fire[g].left) = <<>> /\ Answer(g, Len(fired), "nil")
         \/ /\ fire' = [fire EXCEPT ![g].pc = "next", ![g].left = Tail(@)]
            /\ Tail(fire[g].left) # <<>> /\ UNCHANGED <<hookLock, fired>>
  PROVE  HInv'
<1>a. PICK left : left = fire[g].left
  OBVIOUS
<1>b. PICK n : n = Len(fired)
  OBVIOUS
<1>c. PICK l : l = fired[n].level
  OBVIOUS
<1> DEFINE all == WriterMap[l]
<1>0. HookTypes /\ FireInv /\ OrderInv /\ OnceInv /\ UnderwayInv /\ NilMeansEverywhere
  BY DEF HInv
<1>1. /\ fire[g] \in FireState /\ fire[g].entry = n /\ n \in DOMAIN fired /\ hookLock = g
      /\ left \in Seq(Writers) /\ left # <<>> /\ IsInjective(left)
      /\ fired[n].result = "pending"
      /\ DOMAIN entryOf = 1..writes
  BY <1>0, <1>a, <1>b, HookFields, EmptySeq DEF FireInv
<1>2. /\ Len(left) \in Nat \ {0} /\ rec.by = left[1] /\ rec.by \in ToSet(left)
      /\ Tail(left) \in Seq(Writers) /\ Len(Tail(left)) = Len(left) - 1
      /\ \A i \in 1..(Len(left) - 1) : Tail(left)[i] = left[i + 1]
      /\ ToSet(Tail(left)) \subseteq ToSet(left) /\ IsInjective(Tail(left))
      /\ rec.by \notin ToSet(Tail(left))
  BY <1>1, <1>a, LeftFacts
<1>3. \A old \in accepted : entryOf[old.id] = n => old.by \notin ToSet(left)
  BY <1>0, <1>1, <1>a DEF OnceInv
<1>4. /\ fire' \in [Goroutines -> FireState] /\ fired' \in Seq(Entry)
      /\ Len(fired') = n /\ DOMAIN fired' = DOMAIN fired
      /\ hookLock' \in Goroutines \cup {NoGoroutine}
      /\ \A h \in Goroutines : fire'[h].pc # "idle" =>
           /\ h = g /\ fire'[g].entry = n /\ fire'[g].left = Tail(left) /\ fire'[g].pc = "next"
           /\ UNCHANGED <<hookLock, fired>> /\ Tail(left) # <<>>
      /\ \A k \in DOMAIN fired : /\ fired'[k].level = fired[k].level
                                 /\ k # n => fired'[k] = fired[k]
      /\ fired'[n].result = "nil" => Tail(left) = <<>>
  <2>1. CASE Tail(left) = <<>> /\ Answer(g, n, "nil")
    BY <1>0, <1>a, <1>b, <2>1, AnswerFacts
  <2>2. CASE /\ fire' = [fire EXCEPT ![g].pc = "next", ![g].left = Tail(@)]
             /\ Tail(left) # <<>> /\ UNCHANGED <<hookLock, fired>>
    <3> DEFINE s == [fire[g] EXCEPT !.pc = "next", !.left = Tail(left)]
    <3>1. fire' = [fire EXCEPT ![g] = s]
      BY <1>a, <2>2
    <3>2. s \in FireState /\ s.pc = "next" /\ s.entry = n /\ s.left = Tail(left)
      BY <1>1, <1>2 DEF FireState
    <3> HIDE DEF s
    <3>3. /\ fire' \in [Goroutines -> FireState] /\ fire'[g] = s
          /\ \A h \in Goroutines : h # g => fire'[h].pc = "idle"
      BY <1>0, <1>1, <3>1, <3>2, OneFires DEF HookTypes
    <3>4. /\ fired' \in Seq(Entry) /\ Len(fired') = n /\ DOMAIN fired' = DOMAIN fired
          /\ hookLock' \in Goroutines \cup {NoGoroutine} /\ fired' = fired
          /\ UNCHANGED <<hookLock, fired>>
      BY <1>0, <1>b, <2>2 DEF HookTypes
    <3>5. fired'[n].result # "nil"
      BY <1>1, <3>4
    <3>6. \A h \in Goroutines : fire'[h].pc # "idle" =>
            h = g /\ fire'[g].entry = n /\ fire'[g].left = Tail(left) /\ fire'[g].pc = "next"
      BY <3>2, <3>3
    <3> QED BY <2>2, <3>3, <3>4, <3>5, <3>6
  <2> QED BY <1>a, <1>b, <2>1, <2>2
<1> HIDE DEF all
<1>5. HookTypes'
  BY <1>0, <1>4, <1>b DEF HookTypes
<1>6. FireInv'
  <2>1. ASSUME fire'[g].pc # "idle"
        PROVE  fired' # <<>> /\ fired'[n].result = "pending"
    BY <1>0, <1>1, <1>4, <2>1 DEF FireInv
  <2> QED BY <1>1, <1>2, <1>4, <2>1 DEF FireInv
<1>7. OrderInv'
  BY <1>0, <1>1, <1>4, <1>b DEF OrderInv
<1>8. OnceInv'
  <2>1. ASSUME NEW a \in accepted', NEW b \in accepted', a.by = b.by, entryOf[a.id] = entryOf[b.id]
        PROVE  a.id = b.id
    BY <1>0, <1>2, <1>3, <1>b, <2>1 DEF OnceInv
  <2>2. ASSUME NEW old \in accepted', entryOf[old.id] = n
        PROVE  old.by \notin ToSet(Tail(left))
    BY <1>2, <1>3, <2>2
  <2>3. \A a, b \in accepted' : a.by = b.by /\ entryOf'[a.id] = entryOf'[b.id] => a.id = b.id
    BY <2>1
  <2>4. \A h \in Goroutines : fire'[h].pc # "idle" => fire'[h].entry = n /\ fire'[h].left = Tail(left)
    BY <1>4
  <2>5. \A old \in accepted' : entryOf'[old.id] = n => old.by \notin ToSet(Tail(left))
    BY <2>2
  <2> QED BY <2>3, <2>4, <2>5 DEF OnceInv
<1>9. /\ \A w, k : Holds(w, k) => Holds(w, k)'
      /\ Holds(rec.by, n)'
      /\ \A w, k : Holds(w, k)' => Holds(w, k) \/ (w = rec.by /\ k = n)
  BY <1>b DEF Holds
<1>10. ASSUME l \in DOMAIN WriterMap
       PROVE  LET done == Len(all) - Len(left) IN
              /\ Len(all) \in Nat /\ done >= 0 /\ all[done + 1] = rec.by
              /\ IsInjective(all) /\ DOMAIN all = 1..Len(all)
              /\ \A i \in 1..Len(left) : left[i] = all[done + i]
              /\ \A i \in 1..done : Holds(all[i], n)
  <2>1. Underway(g, all)
    BY <1>0, <1>1, <1>10, <1>c DEF UnderwayInv, all
  <2>2. all \in Seq(Writers) /\ IsInjective(all)
    BY <1>10, LfsAssumption DEF all
  <2>3. Len(all) \in Nat /\ DOMAIN all = 1..Len(all)
    BY <2>2, LenProperties
  <2>4. 1 \in 1..Len(left) /\ Len(left) \in Nat
    BY <1>2
  <2> QED BY <1>1, <1>2, <1>a, <2>1, <2>2, <2>3, <2>4 DEF Underway
<1>11. UnderwayInv'
  <2>1. ASSUME NEW h \in Goroutines, fire'[h].pc # "idle", l \in DOMAIN WriterMap
        PROVE  Underway(h, all)'
    <3> DEFINE done == Len(all) - Len(left)
    <3>1. /\ Len(all) \in Nat /\ done \in Nat /\ all[done + 1] = rec.by
          /\ \A i \in 1..Len(left) : left[i] = all[done + i]
          /\ \A i \in 1..done : Holds(all[i], n)
      BY <1>2, <1>10, <2>1
    <3>2. fire'[h].left = Tail(left) /\ fire'[h].entry = n
      BY <1>4, <2>1
    <3>3. Len(all) - Len(Tail(left)) = done + 1
      BY <1>2, <3>1
    <3> HIDE DEF done
    <3>4. \A i \in 1..Len(Tail(left)) : Tail(left)[i] = all[done + 1 + i]
      <4>1. \A i \in 1..(Len(left) - 1) : i + 1 \in 1..Len(left) /\ done + (i + 1) = done + 1 + i
        <5>1. Len(left) \in Nat /\ done \in Nat
          BY <1>2, <3>1
        <5>2. SUFFICES ASSUME NEW i \in 1..(Len(left) - 1)
                       PROVE  i + 1 \in 1..Len(left) /\ done + (i + 1) = done + 1 + i
          OBVIOUS
        <5>3. i \in Int /\ 1 <= i /\ i <= Len(left) - 1
          BY <5>1
        <5> QED BY <5>1, <5>3
      <4> QED BY <1>2, <3>1, <4>1
    <3>5. \A i \in 1..(done + 1) : Holds(all[i], n)'
      <4>1. \A i \in 1..(done + 1) : i \in 1..done \/ i = done + 1
        BY <3>1
      <4> QED BY <1>9, <3>1, <4>1
    <3>6. done + 1 >= 0
      BY <3>1
    <3> QED BY <3>2, <3>3, <3>4, <3>5, <3>6 DEF Underway, all
  <2>2. \A h \in Goroutines : fire'[h].pc # "idle" => fired'[fire'[h].entry].level = l
    BY <1>1, <1>4, <1>c
  <2> QED BY <2>1, <2>2 DEF UnderwayInv, all
<1>12. NilMeansEverywhere'
  <2>1. ASSUME NEW k \in DOMAIN fired, NEW m, m = fired[k].level, m \in DOMAIN WriterMap
        PROVE  /\ fired'[k].result = "nil" => \A w \in ToSet(WriterMap[m]) : Holds(w, k)'
               /\ \A i \in 2..Len(WriterMap[m]) :
                    Holds(WriterMap[m][i], k)' => Holds(WriterMap[m][i - 1], k)'
    <3>1. CASE k # n
      BY <1>0, <1>4, <1>9, <2>1, <3>1 DEF NilMeansEverywhere
    <3>2. CASE k = n
      <4>1. m = l /\ WriterMap[m] = all
        BY <1>c, <2>1, <3>2 DEF all
      <4> DEFINE done == Len(all) - Len(left)
      <4>2. /\ Len(all) \in Nat /\ done >= 0 /\ all[done + 1] = rec.by
            /\ IsInjective(all) /\ DOMAIN all = 1..Len(all)
            /\ \A i \in 1..done : Holds(all[i], n)
            /\ done \in Nat /\ done + 1 \in 1..Len(all)
        BY <1>2, <1>10, <2>1, <4>1
      <4> HIDE DEF done
      <4>3. ASSUME NEW i \in 2..Len(all), Holds(all[i], n)'
            PROVE  Holds(all[i - 1], n)'
        <5>1. CASE Holds(all[i], n)
          BY <1>0, <1>1, <1>9, <2>1, <4>1, <4>3, <5>1, <3>2 DEF NilMeansEverywhere
        <5>2. CASE all[i] = rec.by
          <6>1. i = done + 1
            BY <4>2, <5>2 DEF IsInjective
          <6>2. i - 1 \in 1..done
            BY <4>2, <6>1
          <6> QED BY <1>9, <4>2, <6>2
        <5> QED BY <1>9, <4>3, <5>1, <5>2
      <4>4. ASSUME fired'[n].result = "nil", NEW w \in ToSet(all)
            PROVE  Holds(w, n)'
        <5>1. PICK i \in 1..Len(all) : w = all[i]
          BY <4>2, <4>4 DEF ToSet
        <5>2. Len(left) = 1
          <6>1. Tail(left) = <<>> /\ Len(Tail(left)) = Len(left) - 1 /\ Len(left) \in Nat
            BY <1>2, <1>4, <4>4
          <6>2. Len(Tail(left)) = 0
            BY <1>2, <6>1, EmptySeq
          <6> QED BY <6>1, <6>2
        <5>3. i \in 1..done \/ i = done + 1
          BY <4>2, <5>2 DEF done
        <5> QED BY <1>9, <4>2, <5>1, <5>3
      <4> QED BY <3>2, <4>1, <4>3, <4>4
    <3> QED BY <3>1, <3>2
  <2> QED BY <1>4, <2>1 DEF NilMeansEverywhere
<1> QED BY <1>5, <1>6, <1>7, <1>8, <1>11, <1>12 DEF HInv

------------------------------------------------------------------------------
(* The invariant, and what follows.                                         *)

LEMMA HookStarts ==
  ASSUME LfsInit
  PROVE  HInv
<1>1. HookTypes
  <2>1. Len(Order) \in Nat /\ 0 < Len(Order)
    BY LfsAssumption, EmptySeq
  <2>2. NoFire \in FireState
    BY DEF NoFire, FireState
  <2> QED BY <2>1, <2>2, LfsAssumption DEF LfsInit, Init, HookTypes, Routes
<1>2. \A g \in Goroutines : fire[g].pc = "idle"
  BY DEF LfsInit, NoFire
<1>3. fired = <<>> /\ entryOf = <<>> /\ accepted = {}
  BY DEF LfsInit, Init
<1>4. FireInv /\ OrderInv /\ OnceInv /\ UnderwayInv /\ NilMeansEverywhere
  BY <1>2, <1>3 DEF FireInv, OrderInv, OnceInv, UnderwayInv, NilMeansEverywhere
<1> QED BY <1>1, <1>4 DEF HInv

LEMMA LfsStepKeeps ==
  ASSUME RInv, AgesFit, HInv, [LfsNext]_lfsVars
  PROVE  RInv' /\ AgesFit' /\ HInv'
<1>1. [FitStep]_vars
  BY LfsIsFit DEF HInv
<1>2. RInv'
  <2>1. [Step]_vars
    BY <1>1 DEF FitStep, Step
  <2> QED BY <2>1, StepKeeps
<1>3. AgesFit'
  BY <1>1, AgesKeep DEF RInv
<1>4. ASSUME NEW g \in Goroutines, WriteStep(g)
      PROVE  HInv'
  <2>1. fire[g].pc = "in" /\ call[g].pc # "idle"
    BY <1>4 DEF WriteStep, CallStep, Rotate, AppendRecord
  <2> QED BY <1>4, <2>1, WriteOutcome, NoRecordKeeps, RecordKeeps
<1>5. HInv'
  BY <1>2, <1>4, QuietKeeps, StartFireKeeps, WriteNextKeeps, RestartKeeps DEF LfsNext
<1> QED BY <1>2, <1>3, <1>5

LEMMA LfsInvariant == LfsSpec => [](RInv /\ AgesFit /\ HInv)
<1>1. LfsInit => RInv /\ AgesFit /\ HInv
  BY InitHolds, KeepInit, HookStarts DEF LfsInit
<1> QED BY <1>1, LfsStepKeeps, PTL DEF LfsSpec

\* The hook and the writers under it keep to their types, and the holder of the mutex is
\* the one that fires.
THEOREM LfsTypeCorrect == LfsSpec => []LfsTypeOK
<1>1. RInv /\ HInv => LfsTypeOK
  BY TypesImply, HookFields, EmptySeq DEF HInv, HookTypes, FireInv, LfsTypeOK
<1> QED BY <1>1, LfsInvariant, PTL

\* Two files stand in the same order: entries are fired one after the other, their writes
\* follow them, and no file has one twice.
THEOREM FilesAgreeOnOrder == LfsSpec => []SameOrder
<1>1. ASSUME HInv
      PROVE  SameOrder
  <2> SUFFICES ASSUME NEW a \in accepted, NEW b \in accepted, NEW c \in accepted,
                      NEW d \in accepted, a.by = b.by, c.by = d.by,
                      entryOf[a.id] = entryOf[c.id], entryOf[b.id] = entryOf[d.id],
                      a.id < b.id
               PROVE  c.id <= d.id
    BY DEF SameOrder
  <2>0. HookTypes /\ OrderInv /\ OnceInv
    BY <1>1 DEF HInv
  <2>1. /\ DOMAIN entryOf = 1..writes /\ \A i \in DOMAIN entryOf : entryOf[i] \in Nat
        /\ \A rec \in accepted : rec.id \in DOMAIN entryOf
    BY <2>0, HookFields DEF OrderInv
  <2>2. /\ a.id \in 1..writes /\ b.id \in 1..writes /\ c.id \in 1..writes /\ d.id \in 1..writes
    BY <2>1
  <2>3. entryOf[a.id] <= entryOf[b.id]
    BY <2>0, <2>1, <2>2 DEF OrderInv
  <2>4. CASE entryOf[c.id] = entryOf[d.id]
    BY <2>0, <2>2, <2>4 DEF OnceInv
  <2>5. CASE entryOf[c.id] # entryOf[d.id]
    <3>1. entryOf[d.id] <= entryOf[c.id] => FALSE
      BY <2>1, <2>2, <2>3, <2>5
    <3>2. d.id <= c.id => entryOf[d.id] <= entryOf[c.id]
      BY <2>0, <2>1 DEF OrderInv
    <3> QED BY <2>2, <3>1, <3>2
  <2> QED BY <2>4, <2>5
<1> QED BY <1>1, LfsInvariant, PTL

\* nil means that the entry is in each of its files; whatever else happens it is in the
\* first of them and so on, up to where a Write failed or the process died.
THEOREM NilReachesEveryFile == LfsSpec => []NilMeansEverywhere
<1>1. HInv => NilMeansEverywhere
  BY DEF HInv
<1> QED BY <1>1, LfsInvariant, PTL

\* What the writers keep of the accepted writes they keep under the hook, whose logger may
\* be given a longer age: no assumption on the files that one writer's cleanup covers.
THEOREM LfsWritesStayReadable ==
  ASSUME Nested
  PROVE  LfsSpec => []AcceptedWritesKept
<1>1. LfsInit => RInv /\ AgesFit /\ HInv /\ KeepInv
  BY InitHolds, KeepInit, HookStarts DEF LfsInit
<1>2. RInv /\ AgesFit /\ HInv /\ KeepInv /\ [LfsNext]_lfsVars
        => RInv' /\ AgesFit' /\ HInv' /\ KeepInv'
  BY LfsStepKeeps, LfsIsFit, FitStepKeeps DEF HInv
<1>3. KeepInv => AcceptedWritesKept
  BY DEF KeepInv
<1> QED BY <1>1, <1>2, <1>3, PTL DEF LfsSpec

\* Under the hook too the link of a writer leads to an older file only when setting it
\* failed as the writer opened its file.
THEOREM LfsLinkFollowsFile == LfsSpec => []StaleLinkExplained
<1>1. RInv => StaleLinkExplained
  BY DEF RInv, OpenInv, StaleLinkExplained
<1> QED BY <1>1, LfsInvariant, PTL
==============================================================================
