-------------------------- MODULE RotatingFileProofs --------------------------
(***************************************************************************)
(* Proofs about RotatingFile, for every value of the constants: any number *)
(* of writers and goroutines, any rotation period, size limit and fault.   *)
(*                                                                         *)
(* Step covers what the writers may do on their own and in LfsHook, where  *)
(* a writer may be made with a longer MaxAge.                              *)
(***************************************************************************)
EXTENDS RotatingFile, SequenceTheorems, FiniteSetTheorems, WellFoundedInduction, TLAPS

Step == \/ \E w \in Writers, age \in Nat : New(w, age)
        \/ \E w \in Writers : NewFails(w) \/ Close(w) \/ CleanerStep(w)
        \/ \E g \in Goroutines : CallStep(g) \/ \E w \in Writers : Enter(g, w)
        \/ Advance \/ Crash

------------------------------------------------------------------------------
(* The inductive invariant.                                                 *)

Rec       == [id : Nat, at : Nat, by : Writers, pos : Nat]
File      == [recs : Seq(Rec), size : Nat, mtime : Nat]
LinkNames == Names \cup {NoName}
LinkState == [to : LinkNames, mtime : Nat, failed : BOOLEAN]
Ticks     == {NoTick} \cup 0..MaxTime
Listing   == Writers \X LinkNames

WriterState ==
  [status : {"none", "open", "closed"}, file : Nat, name : LinkNames, open : BOOLEAN,
   size : Nat, openedAt : Int, started : Nat, age : Nat]

CallState == [pc : {"idle", "rotate", "append"}, on : Writers \cup {NoCall.on},
              at : 0..MaxTime, id : Nat]

CleanerState == [pc : {"off", "wait", "examine", "unlink", "done"}, cutoff : Int,
                 todo : SUBSET Listing, victim : Listing \cup {<<>>}]

Types ==
  /\ now \in 0..MaxTime /\ writes \in 0..MaxWrites /\ crashes \in 0..MaxCrashes
  /\ files \in Seq(File) /\ dir \in [Writers -> [Names -> Nat]]
  /\ link \in [Writers -> LinkState]
  /\ writer \in [Writers -> WriterState] /\ fds \in [Writers -> Int]
  /\ lock \in [Writers -> Goroutines \cup {NoGoroutine}]
  /\ call \in [Goroutines -> CallState]
  /\ ticks \in [Writers -> Ticks] /\ cleaner \in [Writers -> CleanerState]
  /\ accepted \subseteq Rec

\* Names, descriptors and sizes: what a writer says of its file.
OpenInv ==
  \A w \in Writers :
    /\ writer[w].file <= Len(files)
    /\ fds[w] = IF writer[w].open THEN 1 ELSE 0
    /\ writer[w].open =>
         /\ writer[w].status = "open" /\ writer[w].file # 0 /\ writer[w].name \in Names
         /\ writer[w].size = files[writer[w].file].size
         /\ link[w].to \in {writer[w].name, NoName} \/ link[w].failed

\* A call inside Write holds the mutex of its writer, which is not closed meanwhile.
CallInv ==
  /\ \A w \in Writers : lock[w] # NoGoroutine =>
       call[lock[w]].pc # "idle" /\ call[lock[w]].on = w
  /\ \A g \in Goroutines : call[g].pc # "idle" =>
       /\ call[g].on \in Writers /\ lock[call[g].on] = g
       /\ writer[call[g].on].status = "open"
       /\ call[g].at <= now /\ call[g].id \in 1..writes

\* The file of w has reached the size limit.
Full(w) == MaxSize > 0 /\ writer[w].size >= MaxSize

\* The periods: a writer's never lies ahead; the call that appends is in it; the call
\* that rotates has a reason; and a writer left without a file has one too.
PeriodInv ==
  /\ \A w \in Writers :
       /\ writer[w].status = "open" => writer[w].openedAt <= Period(now)
       /\ writer[w].status = "open" /\ ~writer[w].open =>
            writer[w].openedAt < Period(now) \/ Full(w)
       /\ writer[w].open => \E t \in (writer[w].name * Minute)
                                     ..((writer[w].name + 1) * Minute - 1) :
                              Period(t) = writer[w].openedAt
  /\ \A g \in Goroutines :
       LET w == call[g].on IN
       /\ call[g].pc # "idle" => writer[w].openedAt <= Period(call[g].at)
       /\ call[g].pc = "rotate" => NeedRotate(w, call[g].at)
       /\ call[g].pc = "append" =>
            /\ writer[w].open /\ writer[w].openedAt = Period(call[g].at)
            /\ Full(w) => writer[w].name = MinuteOf(call[g].at)

\* The file f is the one of writer w for the minute n: by its name in the directory, or
\* open, removed from the directory or not.
Held(w, n, f) == \/ dir[w][n] = f
                 \/ writer[w].open /\ writer[w].file = f /\ writer[w].name = n

HeldInv ==
  /\ \A w \in Writers, n \in Names : dir[w][n] <= Len(files)
  /\ \A v, w \in Writers, m, n \in Names, f \in 1..Len(files) :
       Held(v, m, f) /\ Held(w, n, f) => v = w /\ m = n

\* What a file of writer w for the minute n may hold.
Wellkept(w, n, recs) ==
  /\ \A i \in 1..Len(recs) :
       /\ recs[i].id <= writes
       /\ \E t \in (n * Minute)..((n + 1) * Minute - 1) : Period(t) = Period(recs[i].at)
       /\ MaxSize > 0 /\ recs[i].pos >= MaxSize => MinuteOf(recs[i].at) = n
       /\ lock[w] # NoGoroutine => recs[i].id < call[lock[w]].id
  /\ \A i, j \in 1..Len(recs) : i < j /\ recs[i].id # 0 /\ recs[j].id # 0
                                => recs[i].id < recs[j].id

RecsInv == \A w \in Writers, n \in Names, f \in 1..Len(files) :
             Held(w, n, f) => Wellkept(w, n, files[f].recs)

\* A pass of a cleanup goroutine has an entry to look at or to remove.
CleanerInv ==
  \A w \in Writers : /\ cleaner[w].pc = "examine" => cleaner[w].todo # {}
                     /\ cleaner[w].pc = "unlink" => cleaner[w].victim \in Listing

RInv == Types /\ OpenInv /\ CallInv /\ PeriodInv /\ HeldInv /\ RecsInv /\ CleanerInv
------------------------------------------------------------------------------
(* Minutes and periods.                                                     *)

LEMMA Euclid ==
  ASSUME NEW a \in Int, NEW m \in Nat \ {0}
  PROVE  a \div m \in Int /\ a % m \in 0..(m - 1) /\ a = m * (a \div m) + (a % m)
  OBVIOUS

LEMMA MulMonotone ==
  ASSUME NEW p \in Int, NEW q \in Int, NEW m \in Nat, p <= q
  PROVE  m * p <= m * q
  OBVIOUS

LEMMA DivMonotone ==
  ASSUME NEW a \in Int, NEW b \in Int, NEW m \in Nat \ {0}, a <= b
  PROVE  a \div m <= b \div m
<1>1. SUFFICES ASSUME a \div m > b \div m PROVE FALSE
  BY Euclid
<1>2. m * ((b \div m) + 1) <= m * (a \div m)
  BY <1>1, Euclid, MulMonotone
<1>3. m * ((b \div m) + 1) = m * (b \div m) + m
  BY Euclid
<1> QED BY <1>2, <1>3, Euclid

\* A moment has a name, and lies in the minute that the name stands for.
LEMMA MinuteFacts ==
  ASSUME NEW t \in 0..MaxTime
  PROVE  MinuteOf(t) \in Names /\ t \in (MinuteOf(t) * Minute)..((MinuteOf(t) + 1) * Minute - 1)
<1>1. Minute \in Nat \ {0} /\ MaxTime \in Nat /\ 0 \div Minute = 0
  BY RotatingAssumption
<1>2. 0 <= t \div Minute /\ t \div Minute <= MaxTime \div Minute
  BY <1>1, DivMonotone
<1>3. /\ t \div Minute \in Int /\ MaxTime \div Minute \in Int
      /\ t % Minute \in 0..(Minute - 1) /\ t = Minute * (t \div Minute) + (t % Minute)
  BY <1>1, Euclid
<1>4. /\ Minute * (t \div Minute) = (t \div Minute) * Minute
      /\ ((t \div Minute) + 1) * Minute = (t \div Minute) * Minute + Minute
  BY <1>1, <1>3
<1> QED BY <1>1, <1>2, <1>3, <1>4 DEF MinuteOf, Names

LEMMA PeriodFacts ==
  /\ \A t \in Int : Period(t) \in Int
  /\ \A s, t \in Int : s <= t => Period(s) <= Period(t)
<1> USE RotatingAssumption
<1>1. ASSUME NEW t \in Int
      PROVE  Period(t) = Rotation * (t \div Rotation) /\ Period(t) \in Int
  BY Euclid DEF Period
<1>2. ASSUME NEW s \in Int, NEW t \in Int, s <= t
      PROVE  Period(s) <= Period(t)
  <2>1. s \div Rotation <= t \div Rotation
    BY <1>2, DivMonotone
  <2>2. Rotation * (s \div Rotation) <= Rotation * (t \div Rotation)
    BY <2>1, Euclid, MulMonotone
  <2> QED BY <1>1, <2>2
<1> QED BY <1>1, <1>2

------------------------------------------------------------------------------
(* The order of a directory listing.                                        *)

LEMMA Least ==
  ASSUME NEW T, T \subseteq Nat, T # {}
  PROVE  \E x \in T : \A y \in T : x <= y
<1> DEFINE UpTo(x) == {y \in T : y <= x}
           D == {UpTo(x) : x \in T}
<1>1. D \subseteq FiniteSubsetsOf(T) /\ D # {}
  <2>1. ASSUME NEW x \in T PROVE UpTo(x) \in FiniteSubsetsOf(T)
    BY FS_BoundedSetOfNaturals DEF FiniteSubsetsOf
  <2> QED BY <2>1
<1>2. PICK U \in D : \A V \in D : ~ (<<V, U>> \in StrictSubsetOrdering(T))
  <2> HIDE DEF D
  <2> QED BY <1>1, FS_StrictSubsetOrderingWellFounded, WFMin
<1>3. PICK x \in T : U = UpTo(x)
  OBVIOUS
<1>4. ASSUME NEW y \in T, y < x PROVE FALSE
  <2>0. x \in Nat /\ \A z \in T : z \in Nat
    OBVIOUS
  <2>1. UpTo(y) \in D /\ UpTo(y) \subseteq U /\ x \in U /\ x \notin UpTo(y)
    <3>1. UpTo(y) \in D
      OBVIOUS
    <3>2. \A z \in T : z <= y => z <= x
      BY <1>4, <2>0
    <3>3. x <= x /\ ~(x <= y)
      BY <1>4, <2>0
    <3>4. UpTo(y) \subseteq UpTo(x) /\ x \in UpTo(x) /\ x \notin UpTo(y)
      BY <3>2, <3>3
    <3> QED BY <1>3, <3>1, <3>4
  <2>2. <<UpTo(y), U>> \in StrictSubsetOrdering(T)
    BY <1>1, <2>1 DEF StrictSubsetOrdering
  <2> QED BY <1>2, <2>1, <2>2
<1> QED BY <1>4

\* Every listing that is not empty has a first entry.
LEMMA FirstEntry ==
  ASSUME NEW w \in Writers, NEW todo \in SUBSET Listing, todo # {}
  PROVE  \E e \in todo : \A e2 \in todo : ~Before(w, e2, e)
<1> DEFINE Of(v) == {n \in Names : <<v, n>> \in todo}
<1>0. Names \subseteq Nat /\ NoName \notin Names
  BY DEF Names, NoName
<1>1. ASSUME NEW v \in Writers, Of(v) # {}, v = w \/ Of(w) = {}
      PROVE  \E e \in todo : \A e2 \in todo : ~Before(w, e2, e)
  <2>1. PICK n \in Of(v) : \A m \in Of(v) : n <= m
    <3>1. Of(v) \subseteq Nat
      BY <1>0
    <3> QED BY <1>1, <3>1, Least
  <2>2. ASSUME NEW e2 \in todo PROVE ~Before(w, e2, <<v, n>>)
    <3>1. PICK u \in Writers, m \in LinkNames : e2 = <<u, m>>
      BY DEF Listing
    <3>2. m # NoName => m \in Of(u)
      BY <3>1 DEF LinkNames
    <3>3. CASE m = NoName
      BY <1>0, <3>1, <3>3 DEF Before
    <3>4. CASE m # NoName /\ u = v
      <4>1. n <= m /\ n \in Nat /\ m \in Nat
        BY <1>0, <2>1, <3>2, <3>4
      <4> QED BY <1>0, <2>1, <3>1, <3>4, <4>1 DEF Before
    <3>5. CASE m # NoName /\ u # v
      <4>1. u # w
        BY <1>1, <3>2, <3>5
      <4> QED BY <3>1, <3>5, <4>1 DEF Before
    <3> QED BY <3>3, <3>4, <3>5
  <2> QED BY <2>1, <2>2
<1>2. CASE Of(w) # {}
  BY <1>1, <1>2
<1>3. CASE Of(w) = {} /\ \E v \in Writers : Of(v) # {}
  BY <1>1, <1>3
<1>4. CASE \A v \in Writers : Of(v) = {}
  <2>1. PICK e \in todo : TRUE
    OBVIOUS
  <2>2. ASSUME NEW e2 \in todo PROVE e2[2] = NoName
    BY <1>4 DEF Listing, LinkNames
  <2> QED BY <2>1, <2>2 DEF Before
<1> QED BY <1>2, <1>3, <1>4
------------------------------------------------------------------------------
(* What the helpers of the actions do.                                      *)

\* The constant states of a writer, a call and a cleanup goroutine have their types.
LEMMA RestingStates ==
  /\ Absent \in WriterState /\ NoCall \in CallState
  /\ Resting \in CleanerState /\ Waiting \in CleanerState
  /\ Resting.pc = "off" /\ Waiting.pc = "wait"
<1> USE RotatingAssumption
<1>1. Absent \in WriterState
  BY DEF Absent, WriterState, LinkNames, NoName
<1>2. NoCall \in CallState
  BY DEF NoCall, CallState
<1>3. Resting \in CleanerState /\ Waiting \in CleanerState
  BY DEF Resting, Waiting, CleanerState
<1> QED BY <1>1, <1>2, <1>3 DEF Resting, Waiting

\* What is in a file: a sequence of records.
LEMMA FileTypes ==
  ASSUME NEW fs \in Seq(File), NEW f \in 1..Len(fs)
  PROVE  /\ fs[f] \in File /\ fs[f].recs \in Seq(Rec) /\ Len(fs[f].recs) \in Nat
         /\ \A i \in 1..Len(fs[f].recs) : fs[f].recs[i] \in Rec
         /\ fs[f].size \in Nat
<1>1. fs[f] \in File
  BY ElementOfSeq
<1>2. fs[f].recs \in Seq(Rec) /\ fs[f].size \in Nat
  BY <1>1 DEF File
<1> QED BY <1>1, <1>2, LenProperties, ElementOfSeq

\* The fields of a writer and of a call have their types.
LEMMA FieldTypes ==
  ASSUME Types
  PROVE  /\ Len(files) \in Nat /\ now \in Nat /\ now \in 0..MaxTime /\ writes \in Nat
         /\ \A w \in Writers :
              /\ writer[w] \in WriterState /\ writer[w].status \in {"none", "open", "closed"}
              /\ writer[w].file \in Nat /\ writer[w].size \in Nat
              /\ writer[w].openedAt \in Int /\ writer[w].name \in LinkNames
              /\ writer[w].open \in BOOLEAN /\ writer[w].age \in Nat
         /\ \A g \in Goroutines :
              /\ call[g] \in CallState /\ call[g].pc \in {"idle", "rotate", "append"}
              /\ call[g].at \in 0..MaxTime /\ call[g].at \in Int /\ call[g].id \in Nat
<1>1. Len(files) \in Nat /\ now \in Nat /\ now \in 0..MaxTime /\ writes \in Nat
  BY RotatingAssumption DEF Types
<1>2. \A w \in Writers : writer[w] \in WriterState
  BY DEF Types
<1>3. \A g \in Goroutines : call[g] \in CallState
  BY DEF Types
<1> QED BY <1>1, <1>2, <1>3, RotatingAssumption DEF WriterState, CallState

\* What Created does to the files and the directory: a file that is there keeps its
\* content, and only the name asked for may lead to a new one, which is empty.
Grown(w, name) ==
  /\ files' \in Seq(File) /\ dir' \in [Writers -> [Names -> Nat]]
  /\ Len(files') \in {Len(files), Len(files) + 1}
  /\ \A f \in 1..Len(files) : files'[f] = files[f]
  /\ \A f \in 1..Len(files') : f > Len(files) => files'[f].recs = <<>>
  /\ \A v \in Writers, n \in Names :
       \/ dir'[v][n] \in {dir[v][n], 0}
       \/ v = w /\ n = name /\ dir'[v][n] = Len(files) + 1 /\ Len(files') = Len(files) + 1

LEMMA CreatedGrows ==
  ASSUME Types, HeldInv, NEW w \in Writers, NEW name \in Names, Created(w, name)
  PROVE  Grown(w, name) /\ dir'[w][name] \in 1..Len(files')
<1>0. /\ files \in Seq(File) /\ dir \in [Writers -> [Names -> Nat]] /\ now \in Nat
      /\ Len(files) \in Nat /\ dir[w][name] \in 0..Len(files)
  BY RotatingAssumption DEF Types, HeldInv
<1>1. CASE dir[w][name] # 0
  BY <1>0, <1>1 DEF Created, Grown
<1>2. CASE dir[w][name] = 0
  <2> DEFINE e == [recs |-> <<>>, size |-> 0, mtime |-> now]
  <2>1. e \in File
    BY <1>0 DEF File
  <2>2. files' = Append(files, e) /\ dir' = [dir EXCEPT ![w][name] = Len(files) + 1]
    BY <1>2 DEF Created
  <2>3. /\ files' \in Seq(File) /\ Len(files') = Len(files) + 1
        /\ \A f \in 1..Len(files) : files'[f] = files[f]
        /\ files'[Len(files) + 1] = e
    BY <1>0, <2>1, <2>2, AppendProperties
  <2>4. /\ dir' \in [Writers -> [Names -> Nat]] /\ dir'[w][name] = Len(files) + 1
        /\ \A v \in Writers, n \in Names : dir'[v][n] = dir[v][n] \/ (v = w /\ n = name)
    BY <1>0, <2>2
  <2> QED BY <1>0, <2>3, <2>4 DEF Grown
<1> QED BY <1>1, <1>2

\* The same when nothing is created.
LEMMA SameGrows ==
  ASSUME Types, UNCHANGED <<files, dir>>, NEW w \in Writers, NEW name \in Names
  PROVE  Grown(w, name)
  BY DEF Types, Grown

\* A step that creates at most one empty file, makes no writer hold a file it did not
\* hold but that one, and hands out new numbers only, keeps what the files hold.
LEMMA HeldStep ==
  ASSUME Types, HeldInv, RecsInv, NEW w \in Writers, NEW name \in Names, Grown(w, name),
         writes' \in Nat, writes <= writes',
         \A v \in Writers : writer'[v].open =>
            \/ writer'[v].file = dir'[v][writer'[v].name]
            \/ /\ writer[v].open /\ writer'[v].file = writer[v].file
               /\ writer'[v].name = writer[v].name /\ writer[v].file <= Len(files),
         \A v \in Writers :
            \/ lock'[v] = NoGoroutine
            \/ lock'[v] = lock[v] /\ call'[lock[v]].id = call[lock[v]].id
            \/ call'[lock'[v]].id > writes /\ call'[lock'[v]].id \in Nat
  PROVE  HeldInv' /\ RecsInv'
<1>0. Len(files) \in Nat /\ Len(files') \in Nat /\ writes \in Nat /\ files \in Seq(File)
  BY DEF Types, Grown
<1>1. ASSUME NEW v \in Writers, NEW n \in Names, NEW f \in 1..Len(files), Held(v, n, f)'
      PROVE  Held(v, n, f)
  <2>1. dir'[v][n] = f => dir[v][n] = f
    BY <1>0 DEF Grown
  <2> QED BY <1>0, <1>1, <2>1 DEF Held
<1>2. ASSUME NEW v \in Writers, NEW n \in Names, NEW f \in 1..Len(files'), f > Len(files),
             Held(v, n, f)'
      PROVE  v = w /\ n = name
  <2>1. \A u \in Writers, m \in Names : dir[u][m] # f
    BY <1>0, <1>2 DEF HeldInv, Types
  <2>2. dir'[v][n] = f => v = w /\ n = name
    <3>1. dir'[v][n] \in {dir[v][n], 0} \/ (v = w /\ n = name)
      BY DEF Grown
    <3>2. dir[v][n] # f /\ f # 0
      BY <1>0, <1>2, <2>1
    <3> QED BY <3>1, <3>2
  <2> QED BY <1>0, <1>2, <2>2 DEF Held
<1>3. HeldInv'
  <2>1. ASSUME NEW v \in Writers, NEW n \in Names PROVE dir'[v][n] <= Len(files')
    <3>1. dir[v][n] \in Nat /\ dir[v][n] <= Len(files)
      BY DEF HeldInv, Types
    <3> QED BY <1>0, <3>1 DEF Grown
  <2>2. ASSUME NEW u \in Writers, NEW v \in Writers, NEW m \in Names, NEW n \in Names,
               NEW f \in 1..Len(files'), Held(u, m, f)', Held(v, n, f)'
        PROVE  u = v /\ m = n
    <3>1. CASE f <= Len(files)
      BY <1>0, <1>1, <2>2, <3>1 DEF HeldInv
    <3>2. CASE f > Len(files)
      BY <1>0, <1>2, <2>2, <3>2
    <3> QED BY <1>0, <3>1, <3>2
  <2> QED BY <2>1, <2>2 DEF HeldInv
<1>4. ASSUME NEW v \in Writers, NEW n \in Names, NEW f \in 1..Len(files'), Held(v, n, f)'
      PROVE  Wellkept(v, n, files[f].recs)'
  <2>1. CASE f > Len(files)
    <3>1. files'[f].recs = <<>> /\ Len(files'[f].recs) = 0
      BY <2>1 DEF Grown
    <3> QED BY <3>1 DEF Wellkept
  <2>2. CASE f <= Len(files)
    <3> DEFINE recs == files[f].recs
    <3>1. files'[f] = files[f] /\ Wellkept(v, n, recs)
      BY <1>0, <1>1, <1>4, <2>2 DEF Grown, RecsInv
    <3>2. f \in 1..Len(files)
      BY <1>0, <2>2
    <3>3. \A i \in 1..Len(recs) : recs[i].id \in Nat
      BY <1>0, <3>2, FileTypes DEF Rec
    <3>4. \A i \in 1..Len(recs) :
            recs[i].id <= writes' /\ (lock'[v] # NoGoroutine => recs[i].id < call'[lock'[v]].id)
      <4> SUFFICES ASSUME NEW i \in 1..Len(recs)
                   PROVE  /\ recs[i].id <= writes'
                          /\ lock'[v] # NoGoroutine => recs[i].id < call'[lock'[v]].id
        OBVIOUS
      <4>1. /\ recs[i].id \in Nat /\ recs[i].id <= writes
            /\ lock[v] # NoGoroutine => recs[i].id < call[lock[v]].id
        BY <3>1, <3>3 DEF Wellkept
      <4> HIDE DEF recs
      <4> QED BY <1>0, <4>1
    <3> QED BY <3>1, <3>4 DEF Wellkept
  <2> QED BY <1>0, <2>1, <2>2
<1> QED BY <1>3, <1>4 DEF RecsInv

\* Setting the link leaves the links of others alone, and leads to the name or nowhere,
\* unless it failed.
LEMMA LinkSet ==
  ASSUME Types, NEW w \in Writers, NEW name \in Names, SetLink(w, name)
  PROVE  \E lk \in LinkState : /\ link' = [link EXCEPT ![w] = lk]
                               /\ lk.to \in {name, NoName} \/ lk.failed
<1>1. link \in [Writers -> LinkState] /\ link[w] \in LinkState /\ now \in Nat
  BY RotatingAssumption DEF Types
<1>2. /\ LinkTo(w, name) \in LinkState /\ LinkTo(w, name).to = name
      /\ [link[w] EXCEPT !.failed = TRUE] \in LinkState
      /\ [link[w] EXCEPT !.to = NoName, !.failed = TRUE] \in LinkState
  BY <1>1 DEF LinkTo, LinkState, LinkNames
<1>3. CASE link' = [link EXCEPT ![w] = LinkTo(w, name)]
  BY <1>2, <1>3
<1>4. CASE link' = [link EXCEPT ![w].failed = TRUE]
  <2>1. [link[w] EXCEPT !.failed = TRUE].failed
    BY <1>1 DEF LinkState
  <2> QED BY <1>2, <1>4, <2>1
<1>5. CASE link' = [link EXCEPT ![w].to = NoName, ![w].failed = TRUE]
  <2> DEFINE lk == [link[w] EXCEPT !.to = NoName, !.failed = TRUE]
  <2>1. lk.failed /\ link' = [link EXCEPT ![w] = lk]
    BY <1>1, <1>5 DEF LinkState
  <2> QED BY <1>2, <2>1
<1> QED BY <1>3, <1>4, <1>5 DEF SetLink

------------------------------------------------------------------------------
(* One lemma per action: each keeps the invariant.                          *)

LEMMA InitHolds ==
  ASSUME Init
  PROVE  RInv
<1> USE RotatingAssumption
<1>1. /\ \A w \in Writers : writer[w] = Absent /\ lock[w] = NoGoroutine /\ fds[w] = 0
      /\ \A g \in Goroutines : call[g] = NoCall
      /\ \A w \in Writers, n \in Names : dir[w][n] = 0
      /\ files = <<>> /\ Len(files) = 0
  BY DEF Init
<1>2. Absent.open = FALSE /\ Absent.status = "none" /\ Absent.file = 0 /\ NoCall.pc = "idle"
  BY DEF Absent, NoCall
<1>3. Types
  <2>1. files \in Seq(File)
    BY <1>1
  <2>2. link \in [Writers -> LinkState]
    BY DEF Init, LinkNames, LinkState
  <2>3. /\ writer \in [Writers -> WriterState] /\ call \in [Goroutines -> CallState]
        /\ cleaner \in [Writers -> CleanerState]
    BY RestingStates DEF Init
  <2>4. now \in 0..MaxTime /\ writes \in 0..MaxWrites /\ crashes \in 0..MaxCrashes
    BY DEF Init
  <2>5. dir \in [Writers -> [Names -> Nat]] /\ fds \in [Writers -> Int] /\ accepted \subseteq Rec
    BY DEF Init
  <2>6. /\ lock \in [Writers -> Goroutines \cup {NoGoroutine}]
        /\ ticks \in [Writers -> Ticks]
    BY DEF Init, Ticks
  <2> QED BY <2>1, <2>2, <2>3, <2>4, <2>5, <2>6 DEF Types
<1>4. OpenInv /\ CallInv /\ PeriodInv
  BY <1>1, <1>2 DEF OpenInv, CallInv, PeriodInv
<1>5. HeldInv /\ RecsInv /\ CleanerInv
  BY <1>1, RestingStates DEF HeldInv, RecsInv, CleanerInv, Init
<1> QED BY <1>3, <1>4, <1>5 DEF RInv

LEMMA NewKeeps ==
  ASSUME RInv, NEW w \in Writers, NEW age \in Nat, New(w, age)
  PROVE  RInv'
<1> DEFINE name == MinuteOf(now)
           f == dir'[w][name]
<1> USE RotatingAssumption
<1>0. Types /\ OpenInv /\ CallInv /\ PeriodInv /\ HeldInv /\ RecsInv /\ CleanerInv
  BY DEF RInv
<1>1. now \in 0..MaxTime /\ name \in Names /\ name \in LinkNames /\ Period(now) \in Int
  <2>1. now \in 0..MaxTime /\ now \in Int
    BY <1>0 DEF Types
  <2> QED BY <2>1, MinuteFacts, PeriodFacts DEF LinkNames
<1>2. Grown(w, name) /\ f \in 1..Len(files')
  BY <1>0, <1>1, CreatedGrows DEF New
<1>3. files'[f].size \in Nat /\ f \in Nat
  BY <1>2, FileTypes DEF Grown
<1>14. PICK lk \in LinkState : /\ link' = [link EXCEPT ![w] = lk]
                               /\ lk.to \in {name, NoName} \/ lk.failed
  BY <1>0, <1>1, LinkSet DEF New
<1>4. /\ fds' = [fds EXCEPT ![w] = 1]
      /\ writer' = [writer EXCEPT
           ![w] = [status |-> "open", file |-> f, name |-> name, open |-> TRUE,
                   size |-> files'[f].size, openedAt |-> Period(now),
                   started |-> now, age |-> age]]
      /\ UNCHANGED <<now, lock, call, ticks, accepted, writes, crashes>>
      /\ writer[w].status = "none" /\ cleaner' = [cleaner EXCEPT ![w] = Waiting]
  BY DEF New, SizeAt
<1>5. Types'
  <2>1. writer' \in [Writers -> WriterState]
    BY <1>0, <1>1, <1>3, <1>4 DEF Types, WriterState
  <2>2. link' \in [Writers -> LinkState]
    BY <1>0, <1>14 DEF Types
  <2>3. cleaner' \in [Writers -> CleanerState]
    BY <1>0, <1>4, RestingStates DEF Types
  <2> QED BY <1>0, <1>2, <1>4, <2>1, <2>2, <2>3 DEF Types, Grown
<1>6. OpenInv'
  <2> SUFFICES ASSUME NEW v \in Writers
               PROVE  /\ writer'[v].file <= Len(files')
                      /\ fds'[v] = IF writer'[v].open THEN 1 ELSE 0
                      /\ writer'[v].open =>
                           /\ writer'[v].status = "open" /\ writer'[v].file # 0
                           /\ writer'[v].name \in Names
                           /\ writer'[v].size = files'[writer'[v].file].size
                           /\ \/ link'[v].to \in {writer'[v].name, NoName}
                              \/ link'[v].failed
    BY DEF OpenInv
  <2>1. CASE v = w
    BY <1>0, <1>1, <1>2, <1>3, <1>4, <1>14, <2>1 DEF Types
  <2>2. CASE v # w
    <3>1. writer'[v] = writer[v] /\ fds'[v] = fds[v] /\ link'[v] = link[v]
      BY <1>0, <1>4, <1>14, <2>2 DEF Types
    <3>2. writer[v].file \in Nat /\ Len(files) \in Nat /\ Len(files') \in Nat
      BY <1>0, <1>2, FieldTypes DEF Grown
    <3> QED BY <1>0, <1>2, <3>1, <3>2 DEF OpenInv, Grown
  <2> QED BY <2>1, <2>2
<1>7. CallInv'
  BY <1>0, <1>4 DEF CallInv, Types
<1>8. PeriodInv'
  <2>1. ASSUME NEW v \in Writers, v # w
        PROVE  writer'[v] = writer[v]
    BY <1>0, <1>4, <2>1 DEF Types
  <2>2. /\ writer'[w].openedAt = Period(now) /\ writer'[w].open
        /\ writer'[w].name = name /\ writer'[w].status = "open"
    BY <1>0, <1>4 DEF Types
  <2>3. ASSUME NEW g \in Goroutines, call[g].pc # "idle"
        PROVE  call[g].on \in Writers /\ call[g].on # w
    BY <1>0, <1>4, <2>3 DEF CallInv
  <2>4. \E t \in (name * Minute)..((name + 1) * Minute - 1) : Period(t) = Period(now)
    BY <1>1, MinuteFacts
  <2>5. Period(now) <= Period(now)
    BY <1>1
  <2> QED BY <1>0, <1>4, <2>1, <2>2, <2>3, <2>4, <2>5 DEF PeriodInv, NeedRotate, Full
<1>9. HeldInv' /\ RecsInv'
  <2>1. ASSUME NEW v \in Writers, writer'[v].open
        PROVE  \/ writer'[v].file = dir'[v][writer'[v].name]
               \/ /\ writer[v].open /\ writer'[v].file = writer[v].file
                  /\ writer'[v].name = writer[v].name /\ writer[v].file <= Len(files)
    BY <1>0, <1>4, <2>1 DEF OpenInv, Types
  <2>2. writes' \in Nat /\ writes <= writes' /\ UNCHANGED <<lock, call>>
    BY <1>0, <1>4 DEF Types
  <2> QED BY <1>0, <1>1, <1>2, <2>1, <2>2, HeldStep
<1>10. CleanerInv'
  BY <1>0, <1>4, RestingStates DEF CleanerInv, Types
<1> QED BY <1>10, <1>5, <1>6, <1>7, <1>8, <1>9 DEF RInv

\* The file may have been created, nothing else happens.
LEMMA NewFailsKeeps ==
  ASSUME RInv, NEW w \in Writers, NewFails(w)
  PROVE  RInv'
<1> DEFINE name == MinuteOf(now)
<1>0. Types /\ OpenInv /\ CallInv /\ PeriodInv /\ HeldInv /\ RecsInv /\ CleanerInv
  BY DEF RInv
<1>1. name \in Names
  BY <1>0, MinuteFacts DEF Types
<1>2. Grown(w, name)
  BY <1>0, <1>1, CreatedGrows, SameGrows DEF NewFails, OpenFails
<1>3. UNCHANGED <<now, link, writer, fds, lock, call, ticks, cleaner, accepted, writes, crashes>>
  BY DEF NewFails, OpenFails, memVars
<1>4. Types'
  BY <1>0, <1>2, <1>3 DEF Types, Grown
<1>5. OpenInv'
  <2>1. ASSUME NEW v \in Writers PROVE writer[v].file \in Nat /\ writer[v].file <= Len(files)
    BY <1>0, FieldTypes DEF OpenInv
  <2>2. Len(files) \in Nat /\ Len(files') \in Nat
    BY <1>0, <1>2, FieldTypes DEF Grown
  <2> QED BY <1>0, <1>2, <1>3, <2>1, <2>2 DEF OpenInv, Grown
<1>6. CallInv' /\ PeriodInv'
  BY <1>0, <1>3 DEF CallInv, PeriodInv, NeedRotate, Full
<1>7. HeldInv' /\ RecsInv'
  <2>1. ASSUME NEW v \in Writers PROVE writer[v].file <= Len(files)
    BY <1>0 DEF OpenInv
  <2>2. writes' \in Nat /\ writes <= writes'
    BY <1>0, <1>3, FieldTypes
  <2> QED BY <1>0, <1>1, <1>2, <1>3, <2>1, <2>2, HeldStep
<1> QED BY <1>0, <1>3, <1>4, <1>5, <1>6, <1>7 DEF RInv, CleanerInv

LEMMA EnterKeeps ==
  ASSUME RInv, NEW g \in Goroutines, NEW w \in Writers, Enter(g, w)
  PROVE  RInv'
<1> USE RotatingAssumption
<1>0. Types /\ OpenInv /\ CallInv /\ PeriodInv /\ HeldInv /\ RecsInv /\ CleanerInv
  BY DEF RInv
<1>1. /\ UNCHANGED <<now, files, dir, link, writer, fds, ticks, cleaner, accepted, crashes>>
      /\ call[g].pc = "idle" /\ lock[w] = NoGoroutine /\ writes' = writes + 1
      /\ writes < MaxWrites /\ writes \in Nat /\ now \in 0..MaxTime
      /\ writes' \in 0..MaxWrites
  BY <1>0 DEF Enter, Idle, fileVars, Types
<1>2. CASE MayWrite(w)
  <2> DEFINE c == [pc |-> IF NeedRotate(w, now) THEN "rotate" ELSE "append",
                   on |-> w, at |-> now, id |-> writes + 1]
  <2>1. lock' = [lock EXCEPT ![w] = g] /\ call' = [call EXCEPT ![g] = c]
    BY <1>2 DEF Enter
  <2>2. c \in CallState
    BY <1>1 DEF CallState
  <2>3. Types'
    BY <1>0, <1>1, <2>1, <2>2 DEF Types
  <2>4. \A h \in Goroutines : call'[h] = IF h = g THEN c ELSE call[h]
    BY <1>0, <2>1 DEF Types
  <2>5. \A v \in Writers : lock'[v] = IF v = w THEN g ELSE lock[v]
    BY <1>0, <2>1 DEF Types
  <2>6. \A h \in Goroutines \ {g} : call[h].pc # "idle" => call[h].on # w
    BY <1>0, <1>1 DEF CallInv
  <2>7. CallInv'
    <3>1. ASSUME NEW v \in Writers, lock'[v] # NoGoroutine
          PROVE  call'[lock'[v]].pc # "idle" /\ call'[lock'[v]].on = v
      <4>1. CASE v = w
        BY <2>4, <2>5, <4>1
      <4>2. CASE v # w
        <5>1. lock[v] \in Goroutines /\ lock[v] # g
          BY <1>0, <1>1, <2>5, <3>1, <4>2 DEF CallInv, Types
        <5> QED BY <1>0, <2>4, <2>5, <3>1, <4>2, <5>1 DEF CallInv
      <4> QED BY <4>1, <4>2
    <3>2. ASSUME NEW h \in Goroutines, call'[h].pc # "idle"
          PROVE  /\ call'[h].on \in Writers /\ lock'[call'[h].on] = h
                 /\ writer'[call'[h].on].status = "open"
                 /\ call'[h].at <= now' /\ call'[h].id \in 1..writes'
      <4>1. CASE h = g
        BY <1>1, <1>2, <2>4, <2>5, <4>1 DEF MayWrite
      <4>2. CASE h # g
        <5>1. call[h].id \in 1..writes /\ call[h].id \in 1..writes'
          BY <1>0, <1>1, <2>4, <3>2, <4>2 DEF CallInv
        <5> QED BY <1>0, <1>1, <2>4, <2>5, <2>6, <3>2, <4>2, <5>1 DEF CallInv
      <4> QED BY <4>1, <4>2
    <3> QED BY <3>1, <3>2 DEF CallInv
  <2>8. PeriodInv'
    <3>1. ASSUME NEW h \in Goroutines
          PROVE  LET v == call'[h].on IN
                 /\ call'[h].pc # "idle" => writer[v].openedAt <= Period(call'[h].at)
                 /\ call'[h].pc = "rotate" => NeedRotate(v, call'[h].at)
                 /\ call'[h].pc = "append" =>
                      /\ writer[v].open /\ writer[v].openedAt = Period(call'[h].at)
                      /\ Full(v) => writer[v].name = MinuteOf(call'[h].at)
      <4>1. CASE h = g
        <5>1. call'[h] = c /\ writer[w].status = "open"
          BY <1>2, <2>4, <4>1 DEF MayWrite
        <5>2. /\ writer[w].openedAt <= Period(now) /\ writer[w].openedAt \in Int
              /\ Period(now) \in Int
          <6>1. now \in Int
            BY <1>1
          <6> QED BY <1>0, <5>1, <6>1, FieldTypes, PeriodFacts DEF PeriodInv
        <5>3. CASE NeedRotate(w, now)
          BY <5>1, <5>2, <5>3
        <5>4. CASE ~NeedRotate(w, now)
          <6>1. writer[w].openedAt = Period(now) /\ ~Full(w)
            BY <5>4 DEF NeedRotate, Full
          <6>2. writer[w].open
            BY <1>0, <5>1, <5>2, <6>1 DEF PeriodInv
          <6> QED BY <5>1, <5>2, <5>4, <6>1, <6>2
        <5> QED BY <5>3, <5>4
      <4>2. CASE h # g
        BY <1>0, <2>4, <4>2 DEF PeriodInv
      <4> QED BY <4>1, <4>2
    <3> QED BY <1>0, <1>1, <3>1 DEF PeriodInv, NeedRotate, Full
  <2>9. HeldInv' /\ RecsInv'
    <3>1. PICK n \in Names : Grown(w, n)
      BY <1>0, <1>1, MinuteFacts, SameGrows
    <3>2. ASSUME NEW v \in Writers
          PROVE  \/ lock'[v] = NoGoroutine
                 \/ lock'[v] = lock[v] /\ call'[lock[v]].id = call[lock[v]].id
                 \/ call'[lock'[v]].id > writes /\ call'[lock'[v]].id \in Nat
      <4>1. CASE v = w
        <5>1. lock'[v] = g /\ call'[g] = c /\ c.id = writes + 1
          BY <2>4, <2>5, <4>1
        <5> HIDE DEF c
        <5> QED BY <1>1, <5>1
      <4>2. CASE v # w /\ lock[v] # NoGoroutine
        <5>1. lock[v] \in Goroutines /\ call[lock[v]].pc # "idle"
          BY <1>0, <4>2 DEF CallInv, Types
        <5>2. lock[v] # g
          BY <1>1, <5>1
        <5> QED BY <2>4, <2>5, <4>2, <5>1, <5>2
      <4> QED BY <2>5, <4>1, <4>2
    <3>3. \A v \in Writers : writer[v].file <= Len(files)
      BY <1>0 DEF OpenInv
    <3> QED BY <1>0, <1>1, <3>1, <3>2, <3>3, HeldStep
  <2> QED BY <1>0, <1>1, <2>3, <2>7, <2>8, <2>9 DEF RInv, OpenInv, CleanerInv
<1>3. CASE ~MayWrite(w)
  <2>1. UNCHANGED <<lock, call>>
    BY <1>3 DEF Enter
  <2>2. Types' /\ OpenInv' /\ CleanerInv'
    BY <1>0, <1>1, <2>1 DEF Types, OpenInv, CleanerInv
  <2>3. CallInv'
    BY <1>0, <1>1, <2>1 DEF CallInv
  <2>4. PeriodInv'
    BY <1>0, <1>1, <2>1 DEF PeriodInv, NeedRotate, Full
  <2>5. HeldInv' /\ RecsInv'
    <3>1. PICK n \in Names : Grown(w, n)
      BY <1>0, <1>1, MinuteFacts, SameGrows
    <3>2. \A v \in Writers : writer[v].file <= Len(files)
      BY <1>0 DEF OpenInv
    <3> QED BY <1>0, <1>1, <2>1, <3>1, <3>2, HeldStep
  <2> QED BY <2>2, <2>3, <2>4, <2>5 DEF RInv
<1> QED BY <1>2, <1>3

\* The call that is inside Write of w: it holds the mutex, alone.
LEMMA Caller ==
  ASSUME Types, CallInv, NEW g \in Goroutines, call[g].pc # "idle"
  PROVE  /\ call[g].on \in Writers /\ lock[call[g].on] = g
         /\ writer[call[g].on].status = "open" /\ call[g].at <= now
         /\ call[g].at \in 0..MaxTime /\ call[g].id \in 1..writes /\ writes \in Nat
         /\ \A h \in Goroutines \ {g} : call[h].pc # "idle" => call[h].on # call[g].on
         /\ \A v \in Writers \ {call[g].on} : lock[v] # g
<1>1. call[g].at \in 0..MaxTime /\ writes \in Nat
  BY FieldTypes
<1>2. /\ call[g].on \in Writers /\ lock[call[g].on] = g
      /\ writer[call[g].on].status = "open" /\ call[g].at <= now
      /\ call[g].id \in 1..writes /\ g # NoGoroutine
  BY RotatingAssumption DEF CallInv
<1>3. \A h \in Goroutines \ {g} : call[h].pc # "idle" => call[h].on # call[g].on
  BY <1>2 DEF CallInv
<1>4. \A v \in Writers \ {call[g].on} : lock[v] # g
  BY <1>2 DEF CallInv
<1> QED BY <1>1, <1>2, <1>3, <1>4

\* Leaving Write: what it does to the mutex and the call.
LEMMA Leaving ==
  ASSUME Types, CallInv, NEW g \in Goroutines, call[g].pc # "idle", Leave(g),
         UNCHANGED <<now, writes>>,
         \A v \in Writers : writer'[v].status = writer[v].status
  PROVE  /\ CallInv'
         /\ lock' \in [Writers -> Goroutines \cup {NoGoroutine}]
         /\ call' \in [Goroutines -> CallState]
         /\ call'[g].pc = "idle" /\ \A h \in Goroutines \ {g} : call'[h] = call[h]
         /\ \A v \in Writers : lock'[v] = IF v = call[g].on THEN NoGoroutine ELSE lock[v]
<1>1. call[g].on \in Writers /\ lock[call[g].on] = g
  BY Caller
<1>2. /\ lock' \in [Writers -> Goroutines \cup {NoGoroutine}]
      /\ call' \in [Goroutines -> CallState]
  BY RestingStates DEF Leave, Types
<1>3. \A v \in Writers : lock'[v] = IF v = call[g].on THEN NoGoroutine ELSE lock[v]
  BY DEF Leave, Types
<1>4. call'[g].pc = "idle" /\ \A h \in Goroutines \ {g} : call'[h] = call[h]
  BY DEF Leave, Types, NoCall
<1>5. CallInv'
  <2>1. ASSUME NEW v \in Writers, lock'[v] # NoGoroutine
        PROVE  call'[lock'[v]].pc # "idle" /\ call'[lock'[v]].on = v
    <3>1. v # call[g].on /\ lock'[v] = lock[v] /\ lock[v] # NoGoroutine
      BY <1>3, <2>1
    <3>2. lock[v] \in Goroutines /\ call[lock[v]].on = v
      BY <3>1 DEF CallInv, Types
    <3>3. lock[v] # g
      BY <3>1, <3>2
    <3> QED BY <1>4, <3>1, <3>2, <3>3 DEF CallInv
  <2>2. ASSUME NEW h \in Goroutines, call'[h].pc # "idle"
        PROVE  /\ call'[h].on \in Writers /\ lock'[call'[h].on] = h
               /\ writer'[call'[h].on].status = "open"
               /\ call'[h].at <= now' /\ call'[h].id \in 1..writes'
    <3>1. h # g /\ call'[h] = call[h]
      BY <1>4, <2>2
    <3>2. call[h].on # call[g].on
      BY <2>2, <3>1, Caller
    <3> QED BY <1>3, <2>2, <3>1, <3>2 DEF CallInv
  <2> QED BY <2>1, <2>2 DEF CallInv
<1> QED BY <1>2, <1>3, <1>4, <1>5

\* The rotation that succeeds.
LEMMA RotatedKeeps ==
  ASSUME RInv, NEW g \in Goroutines, call[g].pc = "rotate",
         OpenFile(call[g].on, call[g].at, StillOpen(call[g].on)),
         call' = [call EXCEPT ![g].pc = "append"],
         UNCHANGED <<now, lock, ticks, cleaner, accepted, writes, crashes>>
  PROVE  RInv'
<1> DEFINE w == call[g].on
           t == call[g].at
           name == MinuteOf(t)
           f == dir'[w][name]
<1> USE RotatingAssumption
<1>0. Types /\ OpenInv /\ CallInv /\ PeriodInv /\ HeldInv /\ RecsInv /\ CleanerInv
  BY DEF RInv
<1>1. /\ w \in Writers /\ lock[w] = g /\ writer[w].status = "open" /\ t <= now
      /\ t \in 0..MaxTime
      /\ \A h \in Goroutines \ {g} : call[h].pc # "idle" => call[h].on # w
  BY <1>0, Caller
<1>2. /\ name \in Names /\ name \in LinkNames /\ Period(t) \in Int
      /\ Period(t) <= Period(now) /\ t \in (name * Minute)..((name + 1) * Minute - 1)
  <2>1. t \in Int /\ now \in Int
    BY <1>0, <1>1 DEF Types
  <2> QED BY <1>1, <2>1, MinuteFacts, PeriodFacts DEF LinkNames
<1>3. Grown(w, name) /\ f \in 1..Len(files')
  BY <1>0, <1>1, <1>2, CreatedGrows DEF OpenFile
<1>4. files'[f].size \in Nat /\ f \in Nat
  BY <1>3, FileTypes DEF Grown
<1>5. fds[w] \in Int /\ fds[w] = IF writer[w].open THEN 1 ELSE 0
  BY <1>0, <1>1 DEF OpenInv, Types
<1>14. PICK lk \in LinkState : /\ link' = [link EXCEPT ![w] = lk]
                               /\ lk.to \in {name, NoName} \/ lk.failed
  BY <1>0, <1>1, <1>2, LinkSet DEF OpenFile
<1>6. /\ fds' = [fds EXCEPT ![w] = 1]
      /\ writer' = [writer EXCEPT
           ![w] = [@ EXCEPT !.file = f, !.name = name, !.open = TRUE,
                            !.size = files'[f].size, !.openedAt = Period(t)]]
  <2>1. StillOpen(w) + 1 = 1
    BY <1>5 DEF StillOpen
  <2>2. fds' = [fds EXCEPT ![w] = StillOpen(w) + 1]
    BY DEF OpenFile
  <2>4. writer' = [writer EXCEPT
          ![w] = [@ EXCEPT !.file = f, !.name = name, !.open = TRUE,
                           !.size = files'[f].size, !.openedAt = Period(t)]]
    BY DEF OpenFile, SizeAt
  <2> QED BY <2>1, <2>2, <2>4
<1>7. /\ \A v \in Writers \ {w} : writer'[v] = writer[v] /\ fds'[v] = fds[v] /\ link'[v] = link[v]
      /\ writer'[w].file = f /\ writer'[w].name = name /\ writer'[w].open
      /\ writer'[w].size = files'[f].size /\ writer'[w].openedAt = Period(t)
      /\ writer'[w].status = "open" /\ fds'[w] = 1
      /\ link'[w].to \in {name, NoName} \/ link'[w].failed
  <2>1. /\ writer \in [Writers -> WriterState] /\ fds \in [Writers -> Int]
        /\ link \in [Writers -> LinkState] /\ writer[w] \in WriterState
    BY <1>0, <1>1 DEF Types
  <2>2. writer'[w] = [writer[w] EXCEPT !.file = f, !.name = name, !.open = TRUE,
                                       !.size = files'[f].size, !.openedAt = Period(t)]
    BY <1>1, <1>6, <2>1
  <2>3. /\ writer'[w].file = f /\ writer'[w].name = name /\ writer'[w].open
        /\ writer'[w].size = files'[f].size /\ writer'[w].openedAt = Period(t)
        /\ writer'[w].status = "open"
    BY <1>1, <2>1, <2>2 DEF WriterState
  <2> QED BY <1>1, <1>6, <1>14, <2>1, <2>3
<1>8. Types'
  <2>1. writer' \in [Writers -> WriterState]
    <3> DEFINE r == [writer[w] EXCEPT !.file = f, !.name = name, !.open = TRUE,
                              !.size = files'[f].size, !.openedAt = Period(t)]
    <3>1. writer[w] \in WriterState
      BY <1>0, <1>1 DEF Types
    <3>2. r \in WriterState
      BY <1>2, <1>4, <3>1 DEF WriterState
    <3> QED BY <1>0, <1>6, <3>2 DEF Types
  <2>2. link' \in [Writers -> LinkState]
    BY <1>0, <1>1, <1>14 DEF Types
  <2>3. call' \in [Goroutines -> CallState]
    <3>1. call \in [Goroutines -> CallState] /\ call[g] \in CallState
      BY <1>0 DEF Types
    <3>2. [call[g] EXCEPT !.pc = "append"] \in CallState
      BY <3>1 DEF CallState
    <3>3. call' = [call EXCEPT ![g] = [call[g] EXCEPT !.pc = "append"]]
      BY <3>1
    <3> QED BY <3>1, <3>2, <3>3
  <2> HIDE DEF w, t, name, f
  <2>4. fds' \in [Writers -> Int] /\ files' \in Seq(File) /\ dir' \in [Writers -> [Names -> Nat]]
    <3>1. fds \in [Writers -> Int]
      BY <1>0 DEF Types
    <3>2. fds' = [fds EXCEPT ![w] = 1]
      BY <1>6
    <3>4. fds' \in [Writers -> Int]
      BY <1>1, <3>1, <3>2
    <3>3. files' \in Seq(File) /\ dir' \in [Writers -> [Names -> Nat]]
      BY <1>3 DEF Grown
    <3> QED BY <3>3, <3>4
  <2> QED BY <1>0, <2>1, <2>2, <2>3, <2>4 DEF Types
<1>20. w = call[g].on /\ t = call[g].at /\ name = MinuteOf(t) /\ f = dir'[w][name]
  OBVIOUS
<1> HIDE DEF w, t, name, f
<1>9. OpenInv'
  <2> SUFFICES ASSUME NEW v \in Writers
               PROVE  /\ writer'[v].file <= Len(files')
                      /\ fds'[v] = IF writer'[v].open THEN 1 ELSE 0
                      /\ writer'[v].open =>
                           /\ writer'[v].status = "open" /\ writer'[v].file # 0
                           /\ writer'[v].name \in Names
                           /\ writer'[v].size = files'[writer'[v].file].size
                           /\ \/ link'[v].to \in {writer'[v].name, NoName}
                              \/ link'[v].failed
    BY DEF OpenInv
  <2>1. CASE v = w
    <3>1. Len(files') \in Nat
      BY <1>3 DEF Grown
    <3>2. f <= Len(files') /\ f # 0
      BY <1>3, <3>1
    <3> QED BY <1>2, <1>7, <2>1, <3>2
  <2>2. CASE v # w
    <3>1. writer[v].file \in Nat /\ Len(files) \in Nat /\ Len(files') \in Nat
      BY <1>0, <1>3, FieldTypes DEF Grown
    <3>2. writer'[v] = writer[v] /\ fds'[v] = fds[v] /\ link'[v] = link[v]
      BY <1>7, <2>2
    <3>3. writer[v].open => writer[v].file \in 1..Len(files)
      BY <1>0, <3>1 DEF OpenInv
    <3>4. Len(files) <= Len(files') /\ \A k \in 1..Len(files) : files'[k] = files[k]
      BY <1>3, <3>1 DEF Grown
    <3>5. writer[v].file <= Len(files')
      BY <1>0, <3>1, <3>4 DEF OpenInv
    <3> QED BY <1>0, <3>2, <3>3, <3>4, <3>5 DEF OpenInv
  <2> QED BY <2>1, <2>2
<1>10. \A h \in Goroutines : /\ call'[h].on = call[h].on /\ call'[h].at = call[h].at
                             /\ call'[h].id = call[h].id
                             /\ call'[h].pc = IF h = g THEN "append" ELSE call[h].pc
  BY <1>0 DEF Types, CallState
<1>11. CallInv'
  <2>1. \A v \in Writers : lock[v] # NoGoroutine => lock[v] \in Goroutines
    BY <1>0 DEF Types
  <2>2. \A v \in Writers : writer'[v].status = writer[v].status
    BY <1>1, <1>7
  <2> QED BY <1>0, <1>10, <2>1, <2>2 DEF CallInv
<1>12. PeriodInv'
  <2>1. ASSUME NEW v \in Writers
        PROVE  /\ writer'[v].status = "open" => writer'[v].openedAt <= Period(now)
               /\ writer'[v].status = "open" /\ ~writer'[v].open =>
                    writer'[v].openedAt < Period(now) \/ Full(v)'
               /\ writer'[v].open => \E u \in (writer'[v].name * Minute)
                                              ..((writer'[v].name + 1) * Minute - 1) :
                                       Period(u) = writer'[v].openedAt
    BY <1>0, <1>2, <1>7 DEF PeriodInv, Full
  <2>2. ASSUME NEW h \in Goroutines, call'[h].pc # "idle"
        PROVE  LET v == call'[h].on IN
               /\ writer'[v].openedAt <= Period(call'[h].at)
               /\ call'[h].pc = "rotate" => NeedRotate(call[h].on, call[h].at)'
               /\ call'[h].pc = "append" =>
                    /\ writer'[v].open /\ writer'[v].openedAt = Period(call'[h].at)
                    /\ Full(call[h].on)' => writer'[v].name = MinuteOf(call'[h].at)
    <3>1. CASE h = g
      <4>1. call'[h].on = w /\ call'[h].at = t /\ call'[h].pc = "append"
        BY <1>10, <1>20, <3>1
      <4> QED BY <1>2, <1>7, <1>20, <4>1
    <3>2. CASE h # g
      <4>1. call[h].pc # "idle" /\ call[h].on \in Writers \ {w}
        BY <1>0, <1>1, <1>10, <1>20, <2>2, <3>2 DEF CallInv
      <4>2. writer'[call[h].on] = writer[call[h].on]
        BY <1>7, <4>1
      <4>3. call'[h].on = call[h].on /\ call'[h].at = call[h].at /\ call'[h].pc = call[h].pc
        BY <1>10, <3>2
      <4> QED BY <1>0, <4>1, <4>2, <4>3 DEF PeriodInv, NeedRotate, Full
    <3> QED BY <3>1, <3>2
  <2> QED BY <2>1, <2>2 DEF PeriodInv
<1>13. HeldInv' /\ RecsInv'
  <2>1. ASSUME NEW v \in Writers, writer'[v].open
        PROVE  \/ writer'[v].file = dir'[v][writer'[v].name]
               \/ /\ writer[v].open /\ writer'[v].file = writer[v].file
                  /\ writer'[v].name = writer[v].name /\ writer[v].file <= Len(files)
    BY <1>0, <1>7, <1>20, <2>1 DEF OpenInv
  <2>2. writes' \in Nat /\ writes <= writes'
    BY <1>0, FieldTypes
  <2>3. \A v \in Writers : \/ lock'[v] = NoGoroutine
                           \/ lock'[v] = lock[v] /\ call'[lock[v]].id = call[lock[v]].id
    BY <1>0, <1>10 DEF Types
  <2> QED BY <1>0, <1>1, <1>2, <1>3, <2>1, <2>2, <2>3, HeldStep
<1> QED BY <1>0, <1>8, <1>9, <1>11, <1>12, <1>13 DEF RInv, CleanerInv

\* The rotation that fails: the old file is closed, none is open, the call returns.
LEMMA NotRotatedKeeps ==
  ASSUME RInv, NEW g \in Goroutines, call[g].pc = "rotate",
         OpenFails(call[g].on, call[g].at),
         fds' = [fds EXCEPT ![call[g].on] = StillOpen(call[g].on)],
         writer' = [writer EXCEPT ![call[g].on].open = FALSE],
         Leave(g),
         UNCHANGED <<now, ticks, cleaner, accepted, writes, crashes>>
  PROVE  RInv'
<1> DEFINE w == call[g].on
           t == call[g].at
           name == MinuteOf(t)
<1>0. Types /\ OpenInv /\ CallInv /\ PeriodInv /\ HeldInv /\ RecsInv /\ CleanerInv
  BY DEF RInv
<1>1. /\ w \in Writers /\ lock[w] = g /\ writer[w].status = "open" /\ t <= now
      /\ t \in 0..MaxTime
      /\ \A h \in Goroutines \ {g} : call[h].pc # "idle" => call[h].on # w
  BY <1>0, Caller
<1>2. /\ name \in Names /\ Period(t) \in Int /\ Period(t) <= Period(now)
      /\ Period(now) \in Int
  <2>1. t \in Int /\ now \in Int
    BY <1>0, <1>1 DEF Types
  <2> QED BY <1>1, <2>1, MinuteFacts, PeriodFacts
<1>3. Grown(w, name)
  BY <1>0, <1>1, <1>2, CreatedGrows, SameGrows DEF OpenFails
<1>4. UNCHANGED link
  BY DEF OpenFails
<1>5. StillOpen(w) = 0
  BY <1>0, <1>1 DEF OpenInv, StillOpen, Types
<1>6. writer \in [Writers -> WriterState] /\ fds \in [Writers -> Int]
  BY <1>0 DEF Types
<1>7. /\ writer' \in [Writers -> WriterState] /\ fds' \in [Writers -> Int]
      /\ fds'[w] = 0 /\ ~writer'[w].open
      /\ \A v \in Writers \ {w} : writer'[v] = writer[v] /\ fds'[v] = fds[v]
  <2>1. [writer[w] EXCEPT !.open = FALSE] \in WriterState
    BY <1>1, <1>6 DEF WriterState
  <2>2. writer' = [writer EXCEPT ![w] = [writer[w] EXCEPT !.open = FALSE]]
    BY <1>1, <1>6
  <2>3. fds' = [fds EXCEPT ![w] = 0]
    BY <1>5
  <2>4. [writer[w] EXCEPT !.open = FALSE].open = FALSE
    BY <1>1, <1>6 DEF WriterState
  <2> QED BY <1>1, <1>6, <2>1, <2>2, <2>3, <2>4
<1>8. /\ writer'[w].status = writer[w].status /\ writer'[w].file = writer[w].file
      /\ writer'[w].size = writer[w].size /\ writer'[w].openedAt = writer[w].openedAt
      /\ writer'[w].name = writer[w].name
  BY <1>1, <1>6 DEF WriterState
<1>9. NeedRotate(w, t) /\ writer[w].openedAt <= Period(t) /\ writer[w].openedAt \in Int
  BY <1>0, <1>1, FieldTypes DEF PeriodInv
<1>10. /\ CallInv'
       /\ lock' \in [Writers -> Goroutines \cup {NoGoroutine}]
       /\ call' \in [Goroutines -> CallState]
       /\ call'[g].pc = "idle" /\ \A h \in Goroutines \ {g} : call'[h] = call[h]
       /\ \A v \in Writers : lock'[v] = IF v = w THEN NoGoroutine ELSE lock[v]
  BY <1>0, <1>7, <1>8, Leaving
<1> HIDE DEF w, t, name
<1>11. Types'
  BY <1>0, <1>3, <1>4, <1>7, <1>10 DEF Types, Grown
<1>12. OpenInv'
  <2> SUFFICES ASSUME NEW v \in Writers
               PROVE  /\ writer'[v].file <= Len(files')
                      /\ fds'[v] = IF writer'[v].open THEN 1 ELSE 0
                      /\ writer'[v].open =>
                           /\ writer'[v].status = "open" /\ writer'[v].file # 0
                           /\ writer'[v].name \in Names
                           /\ writer'[v].size = files'[writer'[v].file].size
                           /\ \/ link'[v].to \in {writer'[v].name, NoName}
                              \/ link'[v].failed
    BY DEF OpenInv
  <2>1. writer[v].file \in Nat /\ Len(files) \in Nat /\ Len(files') \in Nat
    BY <1>0, <1>3, FieldTypes DEF Grown
  <2>2. Len(files) <= Len(files') /\ \A k \in 1..Len(files) : files'[k] = files[k]
    BY <1>3, <2>1 DEF Grown
  <2>3. writer'[v].file <= Len(files')
    BY <1>0, <1>7, <1>8, <2>1, <2>2 DEF OpenInv
  <2>4. writer[v].open => writer[v].file \in 1..Len(files)
    BY <1>0, <2>1 DEF OpenInv
  <2>5. CASE v = w
    BY <1>7, <2>3, <2>5
  <2>6. CASE v # w
    <3>1. writer'[v] = writer[v] /\ fds'[v] = fds[v] /\ link'[v] = link[v]
      BY <1>4, <1>7, <2>6
    <3>2. /\ fds[v] = IF writer[v].open THEN 1 ELSE 0
          /\ writer[v].open =>
               /\ writer[v].status = "open" /\ writer[v].file # 0
               /\ writer[v].name \in Names
               /\ writer[v].size = files[writer[v].file].size
               /\ link[v].to \in {writer[v].name, NoName} \/ link[v].failed
      BY <1>0 DEF OpenInv
    <3>3. writer[v].open => files'[writer[v].file] = files[writer[v].file]
      BY <2>2, <2>4
    <3> QED BY <2>3, <3>1, <3>2, <3>3
  <2> QED BY <2>5, <2>6
<1>13. PeriodInv'
  <2>1. ASSUME NEW v \in Writers
        PROVE  /\ writer'[v].status = "open" => writer'[v].openedAt <= Period(now)
               /\ writer'[v].status = "open" /\ ~writer'[v].open =>
                    writer'[v].openedAt < Period(now) \/ Full(v)'
               /\ writer'[v].open => \E u \in (writer'[v].name * Minute)
                                              ..((writer'[v].name + 1) * Minute - 1) :
                                       Period(u) = writer'[v].openedAt
    <3>1. CASE v = w
      <4>1. writer[w].openedAt < Period(now) \/ Full(w)
        BY <1>2, <1>9 DEF NeedRotate, Full
      <4> QED BY <1>0, <1>1, <1>7, <1>8, <3>1, <4>1 DEF PeriodInv, Full
    <3>2. CASE v # w
      <4>1. writer'[v] = writer[v]
        BY <1>7, <3>2
      <4> QED BY <1>0, <4>1 DEF PeriodInv, Full
    <3> QED BY <3>1, <3>2
  <2>2. ASSUME NEW h \in Goroutines, call'[h].pc # "idle"
        PROVE  h # g /\ call'[h] = call[h] /\ writer'[call[h].on] = writer[call[h].on]
    <3>1. h # g /\ call'[h] = call[h]
      BY <1>10, <2>2
    <3>2. call[h].on \in Writers \ {w}
      BY <1>0, <1>1, <2>2, <3>1 DEF CallInv
    <3> QED BY <1>7, <3>1, <3>2
  <2>3. ASSUME NEW h \in Goroutines
        PROVE  LET v == call'[h].on IN
               /\ call'[h].pc # "idle" => writer'[v].openedAt <= Period(call'[h].at)
               /\ call'[h].pc = "rotate" => NeedRotate(call[h].on, call[h].at)'
               /\ call'[h].pc = "append" =>
                    /\ writer'[v].open /\ writer'[v].openedAt = Period(call'[h].at)
                    /\ Full(call[h].on)' => writer'[v].name = MinuteOf(call'[h].at)
    <3>1. CASE call'[h].pc = "idle"
      BY <3>1
    <3>2. CASE call'[h].pc # "idle"
      <4>1. /\ call'[h] = call[h] /\ writer'[call[h].on] = writer[call[h].on]
            /\ call[h].pc # "idle"
        BY <2>2, <3>2
      <4> QED BY <1>0, <4>1 DEF PeriodInv, NeedRotate, Full
    <3> QED BY <3>1, <3>2
  <2>4. now' = now
    OBVIOUS
  <2> QED BY <2>1, <2>3, <2>4 DEF PeriodInv
<1>14. HeldInv' /\ RecsInv'
  <2>1. ASSUME NEW v \in Writers, writer'[v].open
        PROVE  /\ writer[v].open /\ writer'[v].file = writer[v].file
               /\ writer'[v].name = writer[v].name /\ writer[v].file <= Len(files)
    BY <1>0, <1>7, <2>1 DEF OpenInv
  <2>2. writes' \in Nat /\ writes <= writes'
    BY <1>0, FieldTypes
  <2>3. ASSUME NEW v \in Writers, lock'[v] # NoGoroutine
        PROVE  lock'[v] = lock[v] /\ call'[lock[v]].id = call[lock[v]].id
    <3>1. v # w /\ lock'[v] = lock[v]
      BY <1>10, <2>3
    <3>2. lock[v] \in Goroutines /\ call[lock[v]].on = v
      BY <1>0, <2>3, <3>1 DEF CallInv, Types
    <3>3. lock[v] # g
      BY <3>1, <3>2 DEF w
    <3> QED BY <1>10, <3>1, <3>2, <3>3
  <2> QED BY <1>0, <1>1, <1>2, <1>3, <2>1, <2>2, <2>3, HeldStep
<1> QED BY <1>0, <1>10, <1>11, <1>12, <1>13, <1>14 DEF RInv, CleanerInv

\* What file.Write leaves in the file of w, if anything: the record r of k bytes.
Wrote(w, r, k) ==
  /\ writer[w].open
  /\ files' = [files EXCEPT ![writer[w].file] =
                 [recs |-> Append(@.recs, r), size |-> @.size + k, mtime |-> now]]
  /\ writer' = [writer EXCEPT ![w].size = @ + k]

LEMMA AppendWrote ==
  ASSUME NEW g \in Goroutines, AppendRecord(g)
  PROVE  LET w   == call[g].on
             rec == [id |-> call[g].id, at |-> call[g].at, by |-> w,
                     pos |-> files[writer[w].file].size]
         IN  /\ \/ UNCHANGED <<files, writer>>
                \/ \E k \in Nat : Wrote(w, rec, k)
                \/ \E k \in Nat : Wrote(w, [rec EXCEPT !.id = 0], k)
             /\ accepted' \subseteq accepted \cup {rec}
<1> DEFINE w   == call[g].on
           rec == [id |-> call[g].id, at |-> call[g].at, by |-> w,
                   pos |-> files[writer[w].file].size]
<1>1. \A n \in Lengths : n \in Nat /\ 1..(n - 1) \subseteq Nat
  BY RotatingAssumption
<1>2. CASE /\ writer[w].open /\ accepted' = accepted \cup {rec}
           /\ \E n \in Lengths : Wrote(w, rec, n)
  BY <1>1, <1>2
<1>3. CASE /\ writer[w].open /\ accepted' = accepted
           /\ \E n \in Lengths : \E part \in 1..(n - 1) : Wrote(w, [rec EXCEPT !.id = 0], part)
  BY <1>1, <1>3
<1>4. CASE UNCHANGED <<files, writer, accepted>>
  BY <1>4
<1> HIDE DEF rec
<1> QED BY <1>2, <1>3, <1>4 DEF AppendRecord, Wrote, rec

LEMMA AppendRecordKeeps ==
  ASSUME RInv, NEW g \in Goroutines, AppendRecord(g)
  PROVE  RInv'
<1> DEFINE w == call[g].on
           f == writer[w].file
           n == writer[w].name
           rec == [id |-> call[g].id, at |-> call[g].at, by |-> w, pos |-> files[f].size]
<1>0. Types /\ OpenInv /\ CallInv /\ PeriodInv /\ HeldInv /\ RecsInv /\ CleanerInv
  BY DEF RInv
<1>1. /\ call[g].pc = "append" /\ Leave(g)
      /\ UNCHANGED <<now, dir, link, fds, ticks, cleaner, writes, crashes>>
  BY DEF AppendRecord
<1>2. /\ w \in Writers /\ lock[w] = g /\ writer[w].status = "open" /\ g # NoGoroutine
      /\ call[g].at \in 0..MaxTime /\ call[g].at \in Nat /\ call[g].id \in 1..writes
      /\ call[g].id \in Nat
      /\ \A h \in Goroutines \ {g} : call[h].pc # "idle" => call[h].on # w
  BY <1>0, <1>1, Caller, RotatingAssumption
<1>3. /\ writer[w].open /\ writer[w].openedAt = Period(call[g].at)
      /\ Full(w) => n = MinuteOf(call[g].at)
  BY <1>0, <1>1 DEF PeriodInv
<1>4. /\ f \in 1..Len(files) /\ n \in Names /\ writer[w].size = files[f].size
      /\ files[f].size \in Nat
      /\ files \in Seq(File) /\ files[f].recs \in Seq(Rec) /\ Len(files[f].recs) \in Nat
      /\ \A i \in 1..Len(files[f].recs) : files[f].recs[i].id \in Nat
  <2>1. files \in Seq(File) /\ f \in 1..Len(files)
    BY <1>0, <1>2, <1>3, FieldTypes DEF OpenInv, Types
  <2>2. \A i \in 1..Len(files[f].recs) : files[f].recs[i] \in Rec
    BY <2>1, FileTypes
  <2> QED BY <1>0, <1>2, <1>3, <2>1, <2>2, FileTypes DEF OpenInv, Rec
<1>5. rec \in Rec /\ [rec EXCEPT !.id = 0] \in Rec
  BY <1>2, <1>4 DEF Rec
<1>6. /\ \/ UNCHANGED <<files, writer>>
         \/ \E len \in Nat : Wrote(w, rec, len)
         \/ \E len \in Nat : Wrote(w, [rec EXCEPT !.id = 0], len)
      /\ accepted' \subseteq accepted \cup {rec}
  BY AppendWrote
<1>7. accepted' \subseteq Rec
  BY <1>0, <1>5, <1>6 DEF Types
<1> HIDE DEF rec
<1>8. CASE UNCHANGED <<files, writer>>
  <2>1. /\ CallInv'
        /\ lock' \in [Writers -> Goroutines \cup {NoGoroutine}]
        /\ call' \in [Goroutines -> CallState]
        /\ call'[g].pc = "idle" /\ \A h \in Goroutines \ {g} : call'[h] = call[h]
        /\ \A v \in Writers : lock'[v] = IF v = w THEN NoGoroutine ELSE lock[v]
    BY <1>0, <1>1, <1>8, Leaving
  <2>2. Types'
    BY <1>0, <1>1, <1>7, <1>8, <2>1 DEF Types
  <2>3. OpenInv' /\ CleanerInv'
    BY <1>0, <1>1, <1>8 DEF OpenInv, CleanerInv
  <2>4. PeriodInv'
    BY <1>0, <1>1, <1>8, <2>1 DEF PeriodInv, NeedRotate, Full
  <2>5. HeldInv' /\ RecsInv'
    <3>1. Grown(w, n)
      BY <1>0, <1>1, <1>2, <1>4, <1>8, SameGrows
    <3>2. ASSUME NEW v \in Writers, lock'[v] # NoGoroutine
          PROVE  lock'[v] = lock[v] /\ call'[lock[v]].id = call[lock[v]].id
      <4>1. v # w /\ lock'[v] = lock[v]
        BY <2>1, <3>2
      <4>2. lock[v] \in Goroutines /\ lock[v] # g
        BY <1>0, <1>2, <3>2, <4>1 DEF CallInv, Types
      <4> QED BY <2>1, <4>1, <4>2
    <3>3. \A v \in Writers : writer[v].file <= Len(files)
      BY <1>0 DEF OpenInv
    <3>4. writes' \in Nat /\ writes <= writes'
      BY <1>0, <1>1, FieldTypes
    <3> QED BY <1>0, <1>2, <1>4, <1>8, <3>1, <3>2, <3>3, <3>4, HeldStep
  <2> QED BY <2>1, <2>2, <2>3, <2>4, <2>5 DEF RInv
<1>9. ASSUME NEW r \in Rec, r.id = 0 \/ r.id = call[g].id, r.at = call[g].at,
             r.pos = files[f].size, NEW len \in Nat, Wrote(w, r, len)
      PROVE  RInv'
  <2> DEFINE old == files[f].recs
             new == Append(old, r)
  <2>1. /\ new \in Seq(Rec) /\ Len(new) = Len(old) + 1 /\ new[Len(old) + 1] = r
        /\ \A i \in 1..Len(old) : new[i] = old[i]
    <3>1. old \in Seq(Rec)
      BY <1>4
    <3> HIDE DEF old
    <3> QED BY <3>1, AppendProperties
  <2>2. /\ files' \in Seq(File) /\ Len(files') = Len(files)
        /\ \A k \in 1..Len(files) : k # f => files'[k] = files[k]
        /\ files'[f].recs = new /\ files'[f].size = files[f].size + len
    <3> DEFINE nf == [recs |-> new, size |-> files[f].size + len, mtime |-> now]
    <3>1. nf \in File
      <4>1. now \in Nat /\ files[f].size + len \in Nat
        BY <1>0, <1>4, FieldTypes
      <4> HIDE DEF new
      <4> QED BY <2>1, <4>1 DEF File
    <3>2. files' = [files EXCEPT ![f] = nf]
      BY <1>9 DEF Wrote
    <3>4. nf.recs = new /\ nf.size = files[f].size + len
      OBVIOUS
    <3> HIDE DEF nf, new, f
    <3>3. /\ files' \in Seq(File) /\ Len(files') = Len(files)
          /\ \A k \in 1..Len(files) : files'[k] = IF k = f THEN nf ELSE files[k]
      BY <1>4, <3>1, <3>2, ExceptSeq
    <3> QED BY <1>4, <3>3, <3>4
  <2>3. writer \in [Writers -> WriterState] /\ writer[w] \in WriterState /\ writer[w].size \in Nat
    BY <1>0, <1>2, FieldTypes DEF Types
  <2>4. /\ writer' \in [Writers -> WriterState]
        /\ \A v \in Writers \ {w} : writer'[v] = writer[v]
        /\ writer'[w].size = writer[w].size + len
        /\ writer'[w].open = writer[w].open /\ writer'[w].file = f /\ writer'[w].name = n
        /\ writer'[w].status = writer[w].status /\ writer'[w].openedAt = writer[w].openedAt
    <3>1. writer' = [writer EXCEPT ![w] = [writer[w] EXCEPT !.size = writer[w].size + len]]
      BY <1>9 DEF Wrote
    <3>2. [writer[w] EXCEPT !.size = writer[w].size + len] \in WriterState
      BY <2>3 DEF WriterState
    <3>3. writer'[w] = [writer[w] EXCEPT !.size = writer[w].size + len]
      BY <1>2, <2>3, <3>1
    <3>4. /\ writer' \in [Writers -> WriterState]
          /\ \A v \in Writers \ {w} : writer'[v] = writer[v]
      BY <1>2, <2>3, <3>1, <3>2
    <3> QED BY <2>3, <3>3, <3>4 DEF WriterState
  <2>5. /\ CallInv'
        /\ lock' \in [Writers -> Goroutines \cup {NoGoroutine}]
        /\ call' \in [Goroutines -> CallState]
        /\ call'[g].pc = "idle" /\ \A h \in Goroutines \ {g} : call'[h] = call[h]
        /\ \A v \in Writers : lock'[v] = IF v = w THEN NoGoroutine ELSE lock[v]
    BY <1>0, <1>1, <2>4, Leaving
  <2>6. w = call[g].on /\ f = writer[w].file /\ n = writer[w].name
    OBVIOUS
  <2>7. Types'
    BY <1>0, <1>1, <1>7, <2>2, <2>4, <2>5 DEF Types
  <2> HIDE DEF w, f, n, new, old
  <2>8. Held(w, n, f)
    BY <1>3, <2>6 DEF Held
  <2>9. ASSUME NEW v \in Writers, NEW m \in Names, NEW k \in 1..Len(files)
        PROVE  Held(v, m, k)' <=> Held(v, m, k)
    <3>1. dir'[v][m] = dir[v][m]
      BY <1>1
    <3>2. CASE v = w
      BY <2>4, <2>6, <3>1, <3>2 DEF Held
    <3>3. CASE v # w
      <4>1. writer'[v] = writer[v]
        BY <2>4, <3>3
      <4> QED BY <3>1, <4>1 DEF Held
    <3> QED BY <3>2, <3>3
  <2>10. OpenInv'
    <3> SUFFICES ASSUME NEW v \in Writers
                 PROVE  /\ writer'[v].file <= Len(files')
                        /\ fds'[v] = IF writer'[v].open THEN 1 ELSE 0
                        /\ writer'[v].open =>
                             /\ writer'[v].status = "open" /\ writer'[v].file # 0
                             /\ writer'[v].name \in Names
                             /\ writer'[v].size = files'[writer'[v].file].size
                             /\ \/ link'[v].to \in {writer'[v].name, NoName}
                                \/ link'[v].failed
      BY DEF OpenInv
    <3>1. CASE v = w
      <4>2. writer'[w].size = files'[f].size
        BY <1>4, <2>2, <2>4
      <4>3. /\ fds[w] = IF writer[w].open THEN 1 ELSE 0
            /\ link[w].to \in {n, NoName} \/ link[w].failed
            /\ f <= Len(files) /\ f # 0
        BY <1>0, <1>2, <1>3, <2>6 DEF OpenInv
      <4> QED BY <1>1, <1>2, <1>3, <1>4, <2>2, <2>4, <3>1, <4>2, <4>3
    <3>2. CASE v # w
      <4>1. writer'[v] = writer[v]
        BY <2>4, <3>2
      <4>2. writer[v].open => /\ writer[v].file \in 1..Len(files) /\ writer[v].file # f
        <5>1. SUFFICES ASSUME writer[v].open
                       PROVE  writer[v].file \in 1..Len(files) /\ writer[v].file # f
          OBVIOUS
        <5>2. writer[v].file \in 1..Len(files) /\ writer[v].name \in Names
          BY <1>0, <5>1, FieldTypes DEF OpenInv
        <5>3. Held(v, writer[v].name, writer[v].file)
          BY <5>1 DEF Held
        <5> QED BY <1>0, <1>2, <1>4, <2>8, <3>2, <5>2, <5>3 DEF HeldInv
      <4> QED BY <1>0, <1>1, <2>2, <4>1, <4>2 DEF OpenInv
    <3> QED BY <3>1, <3>2
  <2>11. PeriodInv'
    <3>1. ASSUME NEW v \in Writers
          PROVE  /\ writer'[v].status = "open" => writer'[v].openedAt <= Period(now)
                 /\ writer'[v].status = "open" /\ ~writer'[v].open =>
                      writer'[v].openedAt < Period(now) \/ Full(v)'
                 /\ writer'[v].open => \E u \in (writer'[v].name * Minute)
                                                ..((writer'[v].name + 1) * Minute - 1) :
                                         Period(u) = writer'[v].openedAt
      <4>1. CASE v = w
        BY <1>0, <1>2, <1>3, <2>4, <2>6, <4>1, ZenonT(60) DEF PeriodInv
      <4>2. CASE v # w
        <5>1. writer'[v] = writer[v]
          BY <2>4, <4>2
        <5> QED BY <1>0, <5>1 DEF PeriodInv, Full
      <4> QED BY <4>1, <4>2
    <3>2. ASSUME NEW h \in Goroutines
          PROVE  LET v == call'[h].on IN
                 /\ call'[h].pc # "idle" => writer'[v].openedAt <= Period(call'[h].at)
                 /\ call'[h].pc = "rotate" => NeedRotate(call[h].on, call[h].at)'
                 /\ call'[h].pc = "append" =>
                      /\ writer'[v].open /\ writer'[v].openedAt = Period(call'[h].at)
                      /\ Full(call[h].on)' => writer'[v].name = MinuteOf(call'[h].at)
      <4>1. CASE call'[h].pc = "idle"
        BY <4>1
      <4>2. CASE call'[h].pc # "idle"
        <5>1. h # g /\ call'[h] = call[h] /\ call[h].pc # "idle"
          BY <2>5, <4>2
        <5>2. call[h].on \in Writers \ {w}
          BY <1>0, <1>2, <5>1 DEF CallInv
        <5>3. writer'[call[h].on] = writer[call[h].on]
          BY <2>4, <5>2
        <5> QED BY <1>0, <5>1, <5>3 DEF PeriodInv, NeedRotate, Full
      <4> QED BY <4>1, <4>2
    <3> QED BY <1>1, <3>1, <3>2 DEF PeriodInv
  <2>12. HeldInv'
    <3>1. \A v \in Writers, m \in Names : dir'[v][m] <= Len(files')
      BY <1>0, <1>1, <2>2 DEF HeldInv
    <3> QED BY <1>0, <2>2, <2>9, <3>1 DEF HeldInv
  <2>13. RecsInv'
    <3> SUFFICES ASSUME NEW v \in Writers, NEW m \in Names, NEW k \in 1..Len(files'),
                        Held(v, m, k)'
                 PROVE  Wellkept(v, m, files[k].recs)'
      BY DEF RecsInv
    <3>1. k \in 1..Len(files) /\ Held(v, m, k) /\ Wellkept(v, m, files[k].recs)
      BY <1>0, <2>2, <2>9 DEF RecsInv
    <3>2. CASE k # f
      <4>1. files'[k] = files[k] /\ writes' = writes
        BY <1>1, <2>2, <3>1, <3>2
      <4>2. lock'[v] # NoGoroutine =>
              lock'[v] = lock[v] /\ call'[lock[v]].id = call[lock[v]].id
        <5>1. SUFFICES ASSUME lock'[v] # NoGoroutine
                       PROVE  lock'[v] = lock[v] /\ call'[lock[v]].id = call[lock[v]].id
          OBVIOUS
        <5>2. v # w /\ lock'[v] = lock[v]
          BY <2>5, <5>1
        <5>3. lock[v] \in Goroutines /\ lock[v] # g
          BY <1>0, <2>6, <5>1, <5>2 DEF CallInv, Types
        <5> QED BY <2>5, <5>2, <5>3
      <4> QED BY <3>1, <4>1, <4>2 DEF Wellkept
    <3>3. CASE k = f
      <4>1. v = w /\ m = n
        BY <1>0, <1>2, <1>4, <2>8, <3>1, <3>3 DEF HeldInv
      <4>2. Wellkept(w, n, old) /\ files'[k].recs = new /\ Len(old) \in Nat
        BY <1>4, <2>2, <3>1, <3>3, <4>1 DEF old
      <4>3. \A i \in 1..Len(old) : old[i].id \in Nat /\ old[i].id < call[g].id
        BY <1>2, <1>4, <4>2 DEF Wellkept, old
      <4>4. lock'[w] = NoGoroutine /\ writes' = writes
        BY <1>1, <1>2, <2>5
      <4>5. ASSUME NEW i \in 1..Len(new)
            PROVE  /\ new[i].id <= writes'
                   /\ \E t \in (n * Minute)..((n + 1) * Minute - 1) :
                        Period(t) = Period(new[i].at)
                   /\ MaxSize > 0 /\ new[i].pos >= MaxSize => MinuteOf(new[i].at) = n
        <5>1. CASE i \in 1..Len(old)
          BY <2>1, <4>2, <4>4, <5>1 DEF Wellkept
        <5>2. CASE i = Len(old) + 1
          <6>1. new[i] = r /\ r.at = call[g].at /\ r.id \in 0..writes
            <7>1. writes \in Nat
              BY <1>0, FieldTypes
            <7>2. r.id \in 0..writes
              BY <1>2, <1>9, <7>1
            <7> QED BY <1>9, <2>1, <5>2, <7>2
          <6>3. MaxSize > 0 /\ r.pos >= MaxSize => Full(w)
            BY <1>4, <1>9 DEF Full
          <6>4. \E t \in (n * Minute)..((n + 1) * Minute - 1) : Period(t) = writer[w].openedAt
            BY <1>0, <1>2, <1>3, <2>6 DEF PeriodInv
          <6> QED BY <1>3, <4>4, <6>1, <6>3, <6>4, FieldTypes
        <5> QED BY <2>1, <4>2, <5>1, <5>2
      <4>6. ASSUME NEW i \in 1..Len(new), NEW j \in 1..Len(new), i < j, new[i].id # 0,
                   new[j].id # 0
            PROVE  new[i].id < new[j].id
        <5>1. i \in 1..Len(old) /\ new[i] = old[i]
          BY <2>1, <4>2, <4>6
        <5>2. CASE j \in 1..Len(old)
          BY <2>1, <4>2, <4>6, <5>1, <5>2 DEF Wellkept
        <5>3. CASE j = Len(old) + 1
          BY <1>9, <2>1, <4>3, <4>6, <5>1, <5>3
        <5> QED BY <2>1, <4>2, <5>2, <5>3
      <4> QED BY <4>1, <4>2, <4>4, <4>5, <4>6 DEF Wellkept
    <3> QED BY <3>2, <3>3
  <2>14. CleanerInv'
    BY <1>0, <1>1 DEF CleanerInv
  <2> QED BY <2>5, <2>7, <2>10, <2>11, <2>12, <2>13, <2>14 DEF RInv
<1> QED BY <1>2, <1>5, <1>6, <1>8, <1>9 DEF rec

LEMMA CallStepKeeps ==
  ASSUME RInv, NEW g \in Goroutines, CallStep(g)
  PROVE  RInv'
<1>1. CASE Rotate(g)
  <2>1. CASE /\ OpenFile(call[g].on, call[g].at, StillOpen(call[g].on))
             /\ call' = [call EXCEPT ![g].pc = "append"] /\ UNCHANGED lock
    BY <1>1, <2>1, RotatedKeeps DEF Rotate
  <2>2. CASE /\ OpenFails(call[g].on, call[g].at)
             /\ fds' = [fds EXCEPT ![call[g].on] = StillOpen(call[g].on)]
             /\ writer' = [writer EXCEPT ![call[g].on].open = FALSE]
             /\ Leave(g)
    BY <1>1, <2>2, NotRotatedKeeps DEF Rotate
  <2> QED BY <1>1, <2>1, <2>2 DEF Rotate
<1>2. CASE AppendRecord(g)
  BY <1>2, AppendRecordKeeps
<1> QED BY <1>1, <1>2 DEF CallStep

LEMMA CloseKeeps ==
  ASSUME RInv, NEW w \in Writers, Close(w)
  PROVE  RInv'
<1>0. Types /\ OpenInv /\ CallInv /\ PeriodInv /\ HeldInv /\ RecsInv /\ CleanerInv
  BY DEF RInv
<1>1. /\ lock[w] = NoGoroutine /\ writer[w].status = "open"
      /\ writer' = [writer EXCEPT ![w].status = "closed", ![w].open = FALSE]
      /\ fds' = [fds EXCEPT ![w] = StillOpen(w)]
      /\ UNCHANGED <<now, files, dir, link, lock, call, ticks, cleaner, accepted, writes, crashes>>
  BY DEF Close, fileVars
<1>2. StillOpen(w) = 0
  BY <1>0 DEF OpenInv, StillOpen, Types
<1>3. writer \in [Writers -> WriterState] /\ fds \in [Writers -> Int]
  BY <1>0 DEF Types
<1>4. /\ writer' \in [Writers -> WriterState] /\ fds' \in [Writers -> Int]
      /\ fds'[w] = 0 /\ ~writer'[w].open /\ writer'[w].status = "closed"
      /\ writer'[w].file = writer[w].file
      /\ \A v \in Writers \ {w} : writer'[v] = writer[v] /\ fds'[v] = fds[v]
  <2> DEFINE r == [writer[w] EXCEPT !.status = "closed", !.open = FALSE]
  <2>1. r \in WriterState /\ r.open = FALSE /\ r.status = "closed" /\ r.file = writer[w].file
    BY <1>3 DEF WriterState
  <2>2. writer' = [writer EXCEPT ![w] = r]
    BY <1>1, <1>3
  <2>3. fds' = [fds EXCEPT ![w] = 0]
    BY <1>1, <1>2
  <2> HIDE DEF r
  <2> QED BY <1>3, <2>1, <2>2, <2>3
<1>5. \A g \in Goroutines : call[g].pc # "idle" => call[g].on \in Writers \ {w}
  BY <1>0, <1>1, RotatingAssumption DEF CallInv
<1>6. Types'
  BY <1>0, <1>1, <1>4 DEF Types
<1>7. OpenInv' /\ CleanerInv'
  <2>1. ASSUME NEW v \in Writers
        PROVE  /\ writer'[v].file <= Len(files)
               /\ fds'[v] = IF writer'[v].open THEN 1 ELSE 0
               /\ writer'[v].open => writer'[v] = writer[v]
    <3>1. CASE v = w
      BY <1>0, <1>4, <3>1 DEF OpenInv
    <3>2. CASE v # w
      BY <1>0, <1>4, <3>2 DEF OpenInv
    <3> QED BY <3>1, <3>2
  <2> QED BY <1>0, <1>1, <2>1 DEF OpenInv, CleanerInv
<1>8. CallInv'
  BY <1>0, <1>1, <1>4, <1>5 DEF CallInv
<1>9. PeriodInv'
  <2>1. ASSUME NEW v \in Writers
        PROVE  /\ writer'[v].status = "open" => writer'[v].openedAt <= Period(now)
               /\ writer'[v].status = "open" /\ ~writer'[v].open =>
                    writer'[v].openedAt < Period(now) \/ Full(v)'
               /\ writer'[v].open => \E u \in (writer'[v].name * Minute)
                                              ..((writer'[v].name + 1) * Minute - 1) :
                                       Period(u) = writer'[v].openedAt
    <3>1. CASE v = w
      BY <1>4, <3>1
    <3>2. CASE v # w
      <4>1. writer'[v] = writer[v]
        BY <1>4, <3>2
      <4> QED BY <1>0, <4>1 DEF PeriodInv, Full
    <3> QED BY <3>1, <3>2
  <2>2. \A g \in Goroutines : call[g].pc # "idle" => writer'[call[g].on] = writer[call[g].on]
    BY <1>4, <1>5
  <2>3. ASSUME NEW h \in Goroutines
        PROVE  LET v == call[h].on IN
               /\ call[h].pc # "idle" => writer'[v].openedAt <= Period(call[h].at)
               /\ call[h].pc = "rotate" => NeedRotate(call[h].on, call[h].at)'
               /\ call[h].pc = "append" =>
                    /\ writer'[v].open /\ writer'[v].openedAt = Period(call[h].at)
                    /\ Full(call[h].on)' => writer'[v].name = MinuteOf(call[h].at)
    <3>1. CASE call[h].pc = "idle"
      BY <3>1
    <3>2. CASE call[h].pc # "idle"
      BY <1>0, <1>1, <2>2, <3>2 DEF PeriodInv, NeedRotate, Full
    <3> QED BY <3>1, <3>2
  <2> QED BY <1>1, <2>1, <2>3 DEF PeriodInv
<1>10. HeldInv' /\ RecsInv'
  <2>1. PICK n \in Names : Grown(w, n)
    <3>1. now \in 0..MaxTime
      BY <1>0 DEF Types
    <3> QED BY <1>0, <1>1, <3>1, MinuteFacts, SameGrows
  <2>2. ASSUME NEW v \in Writers, writer'[v].open
        PROVE  /\ writer[v].open /\ writer'[v].file = writer[v].file
               /\ writer'[v].name = writer[v].name /\ writer[v].file <= Len(files)
    BY <1>0, <1>4, <2>2 DEF OpenInv
  <2>3. writes' \in Nat /\ writes <= writes'
    BY <1>0, <1>1, FieldTypes
  <2> QED BY <1>0, <1>1, <2>1, <2>2, <2>3, HeldStep
<1> QED BY <1>6, <1>7, <1>8, <1>9, <1>10 DEF RInv

\* The cleanup goroutines touch no field of a writer: what they may change is their own
\* state, the directory and the links.
LEMMA CleanerKeeps ==
  ASSUME RInv, NEW w \in Writers, CleanerStep(w)
  PROVE  RInv'
<1>0. Types /\ OpenInv /\ CallInv /\ PeriodInv /\ HeldInv /\ RecsInv /\ CleanerInv
  BY DEF RInv
<1>1. UNCHANGED <<now, files, writer, fds, lock, call, accepted, writes, crashes>>
  BY DEF CleanerStep, Stop, List, Examine, Unlink, fileVars
<1>2. cleaner[w] \in CleanerState /\ cleaner \in [Writers -> CleanerState]
  BY <1>0 DEF Types
<1>3. ASSUME NEW cutoff \in Int, NEW todo \in SUBSET Listing
      PROVE  /\ Pass(cutoff, todo) \in CleanerState /\ Pass(cutoff, todo).pc \in {"wait", "examine"}
             /\ Pass(cutoff, todo).pc = "examine" => Pass(cutoff, todo).todo # {}
  BY RestingStates DEF Pass, CleanerState
<1>4. /\ ticks' \in [Writers -> Ticks]
      /\ dir' \in [Writers -> [Names -> Nat]]
      /\ link' \in [Writers -> LinkState]
      /\ \A v \in Writers : /\ link'[v].to \in {link[v].to, NoName}
                            /\ link'[v].failed = link[v].failed
      /\ \A v \in Writers, n \in Names : dir'[v][n] \in {dir[v][n], 0}
      /\ \E c \in CleanerState :
           /\ cleaner' = [cleaner EXCEPT ![w] = c]
           /\ c.pc = "examine" => c.todo # {}
           /\ c.pc = "unlink" => c.victim \in Listing
  <2>0. /\ ticks \in [Writers -> Ticks] /\ dir \in [Writers -> [Names -> Nat]]
        /\ link \in [Writers -> LinkState]
    BY <1>0 DEF Types
  <2>1. CASE Stop(w)
    <3> DEFINE c == [cleaner[w] EXCEPT !.pc = "done"]
    <3>1. c \in CleanerState /\ c.pc = "done"
      BY <1>2 DEF CleanerState
    <3>2. cleaner' = [cleaner EXCEPT ![w] = c] /\ UNCHANGED <<ticks, dir, link>>
      BY <1>2, <2>1 DEF Stop, fileVars
    <3> HIDE DEF c
    <3> QED BY <2>0, <3>1, <3>2
  <2>2. CASE List(w)
    <3> DEFINE cutoff == ticks[w] - writer[w].age
    <3>1. cutoff \in Int
      BY <1>0, <2>0, FieldTypes DEF Ticks, NoTick
    <3>2. PICK todo \in {Candidates(w, cutoff)} \cup {{} : f \in Faults \cap {"list"}} :
             cleaner' = [cleaner EXCEPT ![w] = Pass(cutoff, todo)]
      BY <2>2 DEF List
    <3>3. todo \in SUBSET Listing
      BY <3>2, RotatingAssumption DEF Candidates, Listed, Listing, LinkNames
    <3>4. ticks' = [ticks EXCEPT ![w] = NoTick] /\ UNCHANGED <<dir, link>>
      BY <2>2 DEF List, fileVars
    <3>5. ticks' \in [Writers -> Ticks]
      BY <2>0, <3>4 DEF Ticks
    <3> HIDE DEF cutoff
    <3>6. /\ Pass(cutoff, todo) \in CleanerState
          /\ Pass(cutoff, todo).pc \in {"wait", "examine"}
          /\ Pass(cutoff, todo).pc = "examine" => Pass(cutoff, todo).todo # {}
      BY <1>3, <3>1, <3>3
    <3> QED BY <2>0, <3>2, <3>4, <3>5, <3>6
  <2>3. CASE Examine(w)
    <3> DEFINE todo == cleaner[w].todo
               entry == CHOOSE e \in todo : \A e2 \in todo : ~Before(w, e2, e)
               rest == todo \ {entry}
               cutoff == cleaner[w].cutoff
               c == [cleaner[w] EXCEPT !.pc = "unlink", !.todo = rest, !.victim = entry]
    <3>1. todo \in SUBSET Listing /\ cutoff \in Int /\ cleaner[w].pc = "examine"
      BY <1>2, <2>3 DEF CleanerState, Examine
    <3>2. todo # {}
      BY <1>0, <3>1 DEF CleanerInv
    <3>3. entry \in todo
      BY <3>1, <3>2, FirstEntry
    <3>4. UNCHANGED <<ticks, dir, link>>
      BY <2>3 DEF Examine, fileVars
    <3>5. cleaner' = [cleaner EXCEPT ![w] = IF Expired(entry, cutoff) THEN c
                                            ELSE Pass(cutoff, rest)]
      BY <2>3 DEF Examine
    <3> HIDE DEF entry, todo, cutoff
    <3>6. c \in CleanerState /\ c.pc = "unlink" /\ c.victim = entry /\ entry \in Listing
      BY <1>2, <3>1, <3>3 DEF CleanerState
    <3>7. /\ Pass(cutoff, rest) \in CleanerState
          /\ Pass(cutoff, rest).pc \in {"wait", "examine"}
          /\ Pass(cutoff, rest).pc = "examine" => Pass(cutoff, rest).todo # {}
      BY <1>3, <3>1
    <3> HIDE DEF c, rest
    <3>8. CASE Expired(entry, cutoff)
      BY <2>0, <3>4, <3>5, <3>6, <3>8
    <3>9. CASE ~Expired(entry, cutoff)
      BY <2>0, <3>4, <3>5, <3>7, <3>9
    <3> QED BY <3>8, <3>9
  <2>4. CASE Unlink(w)
    <3> DEFINE v == cleaner[w].victim[1]
               name == cleaner[w].victim[2]
               c == Pass(cleaner[w].cutoff, cleaner[w].todo)
    <3>1. v \in Writers /\ name \in LinkNames
      BY <1>0, <2>4 DEF CleanerInv, Unlink, Listing
    <3>2. cleaner' = [cleaner EXCEPT ![w] = c] /\ UNCHANGED ticks
      BY <2>4 DEF Unlink
    <3>3. c \in CleanerState /\ c.pc \in {"wait", "examine"} /\ (c.pc = "examine" => c.todo # {})
      <4>1. cleaner[w].cutoff \in Int /\ cleaner[w].todo \in SUBSET Listing
        BY <1>2 DEF CleanerState
      <4> QED BY <1>3, <4>1
    <3>4. \/ name = NoName /\ link' = [link EXCEPT ![v].to = NoName] /\ UNCHANGED dir
          \/ name # NoName /\ dir' = [dir EXCEPT ![v][name] = 0] /\ UNCHANGED link
      BY <2>4 DEF Unlink
    <3> HIDE DEF c, v, name
    <3>5. CASE name = NoName /\ link' = [link EXCEPT ![v].to = NoName] /\ UNCHANGED dir
      <4>1. /\ link' \in [Writers -> LinkState]
            /\ \A u \in Writers : /\ link'[u].to \in {link[u].to, NoName}
                                  /\ link'[u].failed = link[u].failed
        <5>1. link \in [Writers -> LinkState] /\ link[v] \in LinkState
          BY <2>0, <3>1 DEF Types
        <5>2. [link[v] EXCEPT !.to = NoName] \in LinkState
          BY <5>1 DEF LinkState, LinkNames
        <5>3. /\ [link[v] EXCEPT !.to = NoName].to = NoName
              /\ [link[v] EXCEPT !.to = NoName].failed = link[v].failed
          BY <5>1 DEF LinkState
        <5> QED BY <3>1, <3>5, <5>1, <5>2, <5>3
      <4> QED BY <2>0, <3>2, <3>3, <3>5, <4>1
    <3>6. CASE name # NoName /\ dir' = [dir EXCEPT ![v][name] = 0] /\ UNCHANGED link
      <4>1. /\ dir' \in [Writers -> [Names -> Nat]]
            /\ \A u \in Writers, n \in Names : dir'[u][n] \in {dir[u][n], 0}
        BY <2>0, <3>1, <3>6
      <4> QED BY <2>0, <3>2, <3>3, <3>6, <4>1
    <3> QED BY <3>4, <3>5, <3>6
  <2> QED BY <2>1, <2>2, <2>3, <2>4 DEF CleanerStep
<1>5. PICK c \in CleanerState :
        /\ cleaner' = [cleaner EXCEPT ![w] = c]
        /\ c.pc = "examine" => c.todo # {}
        /\ c.pc = "unlink" => c.victim \in Listing
  BY <1>4
<1>6. Types'
  BY <1>0, <1>1, <1>4, <1>5 DEF Types
<1>7. OpenInv'
  BY <1>0, <1>1, <1>4 DEF OpenInv
<1>8. CallInv' /\ PeriodInv'
  BY <1>0, <1>1 DEF CallInv, PeriodInv, NeedRotate, Full
<1>9. HeldInv' /\ RecsInv'
  <2>1. PICK n \in Names : TRUE
    <3>1. now \in 0..MaxTime
      BY <1>0 DEF Types
    <3> QED BY <3>1, MinuteFacts
  <2>2. files \in Seq(File) /\ Len(files) \in Nat
    BY <1>0, FieldTypes DEF Types
  <2>3. Grown(w, n)
    BY <1>1, <1>4, <2>2 DEF Grown
  <2>4. \A v \in Writers : writer[v].file <= Len(files)
    BY <1>0 DEF OpenInv
  <2>5. writes' \in Nat /\ writes <= writes'
    BY <1>0, <1>1, FieldTypes
  <2> QED BY <1>0, <1>1, <2>1, <2>3, <2>4, <2>5, HeldStep
<1>10. CleanerInv'
  <2>1. ASSUME NEW v \in Writers
        PROVE  cleaner'[v] = IF v = w THEN c ELSE cleaner[v]
    BY <1>2, <1>5
  <2> QED BY <1>0, <1>5, <2>1 DEF CleanerInv
<1> QED BY <1>6, <1>7, <1>8, <1>9, <1>10 DEF RInv

LEMMA AdvanceKeeps ==
  ASSUME RInv, Advance
  PROVE  RInv'
<1>0. Types /\ OpenInv /\ CallInv /\ PeriodInv /\ HeldInv /\ RecsInv /\ CleanerInv
  BY DEF RInv
<1>1. /\ now < MaxTime /\ now' = now + 1 /\ now \in 0..MaxTime /\ MaxTime \in Nat
      /\ UNCHANGED <<files, dir, link, writer, fds, lock, call, cleaner, accepted, writes, crashes>>
  BY <1>0, RotatingAssumption DEF Advance, fileVars, Types
<1>2. ticks' \in [Writers -> Ticks]
  BY <1>0, <1>1 DEF Advance, Types, Ticks
<1>3. Types'
  BY <1>0, <1>1, <1>2 DEF Types
<1>4. OpenInv' /\ CleanerInv'
  BY <1>0, <1>1 DEF OpenInv, CleanerInv
<1>5. CallInv'
  <2>1. \A g \in Goroutines : call[g].at \in Int
    BY <1>0, FieldTypes
  <2> QED BY <1>0, <1>1, <2>1 DEF CallInv
<1>6. PeriodInv'
  <2>1. Period(now) <= Period(now') /\ Period(now) \in Int /\ Period(now') \in Int
    BY <1>1, PeriodFacts
  <2>2. ASSUME NEW w \in Writers
        PROVE  /\ writer[w].status = "open" => writer[w].openedAt <= Period(now')
               /\ writer[w].status = "open" /\ ~writer[w].open =>
                    writer[w].openedAt < Period(now') \/ Full(w)
    <3>1. writer[w].openedAt \in Int
      BY <1>0, FieldTypes
    <3> QED BY <1>0, <2>1, <3>1 DEF PeriodInv
  <2> QED BY <1>0, <1>1, <2>2 DEF PeriodInv, NeedRotate, Full
<1>7. HeldInv' /\ RecsInv'
  <2>1. ASSUME NEW w \in Writers PROVE HeldInv' /\ RecsInv'
    <3>1. PICK n \in Names : Grown(w, n)
      BY <1>0, <1>1, MinuteFacts, SameGrows
    <3>2. \A v \in Writers : writer[v].file <= Len(files)
      BY <1>0 DEF OpenInv
    <3>3. writes' \in Nat /\ writes <= writes'
      BY <1>0, <1>1, FieldTypes
    <3> QED BY <1>0, <1>1, <3>1, <3>2, <3>3, HeldStep
  <2>2. Writers = {} => HeldInv' /\ RecsInv'
    BY DEF HeldInv, RecsInv
  <2> QED BY <2>1, <2>2
<1> QED BY <1>3, <1>4, <1>5, <1>6, <1>7 DEF RInv

\* The files outlive the process; everything else starts again.
LEMMA CrashKeeps ==
  ASSUME RInv, Crash
  PROVE  RInv'
<1>0. Types /\ OpenInv /\ CallInv /\ PeriodInv /\ HeldInv /\ RecsInv /\ CleanerInv
  BY DEF RInv
<1>1. /\ UNCHANGED <<now, files, dir, link, accepted, writes>>
      /\ crashes < MaxCrashes /\ crashes' = crashes + 1
  BY DEF Crash, fileVars
<1>2. /\ \A w \in Writers : /\ writer'[w] = Absent /\ lock'[w] = NoGoroutine
                            /\ fds'[w] = 0 /\ cleaner'[w] = Resting
      /\ \A g \in Goroutines : call'[g] = NoCall
  BY DEF Crash
<1>3. /\ Absent.open = FALSE /\ Absent.status = "none" /\ Absent.file = 0
      /\ NoCall.pc = "idle"
  BY DEF Absent, NoCall
<1>4. Types'
  <2>1. /\ writer' \in [Writers -> WriterState] /\ call' \in [Goroutines -> CallState]
        /\ cleaner' \in [Writers -> CleanerState]
    BY RestingStates DEF Crash
  <2>2. /\ fds' \in [Writers -> Int] /\ ticks' \in [Writers -> Ticks]
        /\ lock' \in [Writers -> Goroutines \cup {NoGoroutine}]
    BY DEF Crash, Ticks
  <2>3. crashes' \in 0..MaxCrashes
    BY <1>0, <1>1, RotatingAssumption DEF Types
  <2> QED BY <1>0, <1>1, <2>1, <2>2, <2>3 DEF Types
<1>5. OpenInv' /\ CallInv' /\ PeriodInv' /\ CleanerInv'
  <2>1. Len(files) \in Nat
    BY <1>0, FieldTypes
  <2> QED BY <1>1, <1>2, <1>3, <2>1, RestingStates DEF OpenInv, CallInv, PeriodInv, CleanerInv
<1>6. HeldInv' /\ RecsInv'
  <2>1. ASSUME NEW w \in Writers PROVE HeldInv' /\ RecsInv'
    <3>1. PICK n \in Names : Grown(w, n)
      <4>1. now \in 0..MaxTime
        BY <1>0 DEF Types
      <4> QED BY <1>0, <1>1, <4>1, MinuteFacts, SameGrows
    <3>3. writes' \in Nat /\ writes <= writes'
      BY <1>0, <1>1, FieldTypes
    <3> QED BY <1>0, <1>2, <1>3, <3>1, <3>3, HeldStep
  <2>2. Writers = {} => HeldInv' /\ RecsInv'
    BY DEF HeldInv, RecsInv
  <2> QED BY <2>1, <2>2
<1> QED BY <1>4, <1>5, <1>6 DEF RInv

LEMMA StepKeeps ==
  ASSUME RInv, [Step]_vars
  PROVE  RInv'
<1>1. CASE UNCHANGED vars
  <2>1. UNCHANGED <<now, files, dir, link, writer, fds, lock, call, ticks, cleaner, accepted,
                    writes, crashes>>
    BY <1>1 DEF vars, fileVars, memVars
  <2>2. Types' /\ OpenInv' /\ CallInv' /\ CleanerInv'
    BY <2>1 DEF RInv, Types, OpenInv, CallInv, CleanerInv
  <2>3. PeriodInv'
    BY <2>1 DEF RInv, PeriodInv, NeedRotate, Full
  <2>4. HeldInv' /\ RecsInv'
    BY <2>1 DEF RInv, HeldInv, RecsInv, Held, Wellkept
  <2> QED BY <2>2, <2>3, <2>4 DEF RInv
<1>2. CASE Step
  BY <1>2, NewKeeps, NewFailsKeeps, CloseKeeps, CleanerKeeps, CallStepKeeps, EnterKeeps,
     AdvanceKeeps, CrashKeeps DEF Step
<1> QED BY <1>1, <1>2

\* The steps of RotatingFile are such steps.
LEMMA NextIsStep ==
  ASSUME Next
  PROVE  Step
  BY RotatingAssumption DEF Next, Step

LEMMA RotatingInvariant == Spec => []RInv
<1>1. Init => RInv
  BY InitHolds
<1>2. RInv /\ [Next]_vars => RInv'
  BY StepKeeps, NextIsStep
<1> QED BY <1>1, <1>2, PTL DEF Spec

------------------------------------------------------------------------------
(* What follows.                                                            *)

LEMMA TypesImply ==
  ASSUME RInv
  PROVE  RotatingTypeOK
<1>1. Types /\ OpenInv /\ HeldInv
  BY DEF RInv
<1>2. ASSUME NEW w \in Writers
      PROVE  /\ dir[w] \in [Names -> 0..Len(files)] /\ link[w].to \in Names \cup {NoName}
             /\ writer[w].status \in {"none", "open", "closed"}
             /\ writer[w].file \in 0..Len(files) /\ fds[w] \in Nat
             /\ lock[w] \in Goroutines \cup {NoGoroutine}
             /\ ticks[w] \in {NoTick} \cup 0..MaxTime
             /\ cleaner[w].pc \in {"off", "wait", "examine", "unlink", "done"}
  <2>1. dir[w] \in [Names -> 0..Len(files)]
    <3>1. dir[w] \in [Names -> Nat] /\ \A n \in Names : dir[w][n] <= Len(files)
      BY <1>1 DEF Types, HeldInv
    <3> QED BY <1>1, <3>1, FieldTypes
  <2>2. fds[w] \in Nat
    BY <1>1 DEF OpenInv
  <2>3. writer[w].file \in 0..Len(files) /\ writer[w].status \in {"none", "open", "closed"}
    BY <1>1, FieldTypes DEF OpenInv
  <2>4. link[w].to \in Names \cup {NoName} /\ lock[w] \in Goroutines \cup {NoGoroutine}
    BY <1>1 DEF Types, LinkNames, LinkState
  <2>5. cleaner[w] \in CleanerState /\ ticks[w] \in Ticks
    BY <1>1 DEF Types
  <2> QED BY <2>1, <2>2, <2>3, <2>4, <2>5 DEF CleanerState, Ticks
<1>3. \A g \in Goroutines : call[g].pc \in {"idle", "rotate", "append"}
  BY <1>1, FieldTypes
<1> QED BY <1>1, <1>2, <1>3 DEF RotatingTypeOK, Types

LEMMA BalanceImplied ==
  ASSUME RInv
  PROVE  DescriptorsBalanced
<1>1. Types /\ OpenInv /\ PeriodInv
  BY DEF RInv
<1>2. \A w \in Writers : /\ fds[w] = IF writer[w].open THEN 1 ELSE 0
                         /\ writer[w].status # "open" => fds[w] = 0
  BY <1>1 DEF OpenInv
<1>3. \A g \in Goroutines : call[g].pc = "append" => writer[call[g].on].open
  BY <1>1 DEF PeriodInv
<1> QED BY <1>2, <1>3 DEF DescriptorsBalanced

\* A file that a writer holds under a name is one of the files.
LEMMA NamedIsHeld ==
  ASSUME Types, HeldInv, RecsInv, NEW w \in Writers, NEW n \in Names, dir[w][n] # 0
  PROVE  /\ dir[w][n] \in 1..Len(files) /\ Wellkept(w, n, files[dir[w][n]].recs)
         /\ files[dir[w][n]].recs \in Seq(Rec)
<1>1. dir[w][n] \in 1..Len(files) /\ files \in Seq(File)
  BY FieldTypes DEF Types, HeldInv
<1>2. Held(w, n, dir[w][n])
  BY DEF Held
<1> QED BY <1>1, <1>2, FileTypes DEF RecsInv

LEMMA PeriodsImplied ==
  ASSUME RInv
  PROVE  FilesByPeriod
<1>1. Types /\ HeldInv /\ RecsInv
  BY DEF RInv
<1>2. ASSUME NEW w \in Writers, NEW n \in Names, NEW recs,
             recs = IF dir[w][n] = 0 THEN <<>> ELSE files[dir[w][n]].recs
      PROVE  /\ \A i \in DOMAIN recs :
                  \E t \in (n * Minute)..((n + 1) * Minute - 1) : Period(t) = Period(recs[i].at)
             /\ \A i, j \in DOMAIN recs : i < j /\ recs[i].id # 0 /\ recs[j].id # 0
                                          => recs[i].id < recs[j].id
  <2>1. CASE dir[w][n] = 0
    BY <1>2, <2>1
  <2>2. CASE dir[w][n] # 0
    <3>1. recs \in Seq(Rec) /\ Wellkept(w, n, recs)
      BY <1>1, <1>2, <2>2, NamedIsHeld
    <3>2. DOMAIN recs = 1..Len(recs)
      BY <3>1, LenProperties
    <3> QED BY <3>1, <3>2 DEF Wellkept
  <2> QED BY <2>1, <2>2
<1> QED BY <1>2 DEF FilesByPeriod

LEMMA OversizeImplied ==
  ASSUME RInv
  PROVE  OversizeByOneRecord
<1>1. Types /\ HeldInv /\ RecsInv
  BY DEF RInv
<1>2. ASSUME NEW w \in Writers, NEW n \in Names, dir[w][n] # 0, MaxSize > 0,
             NEW recs, recs = files[dir[w][n]].recs
      PROVE  \A i \in DOMAIN recs : recs[i].pos >= MaxSize => MinuteOf(recs[i].at) = n
  <2>1. recs \in Seq(Rec) /\ Wellkept(w, n, recs)
    BY <1>1, <1>2, NamedIsHeld
  <2>2. DOMAIN recs = 1..Len(recs)
    BY <2>1, LenProperties
  <2> QED BY <1>2, <2>1, <2>2 DEF Wellkept
<1> QED BY <1>2 DEF OversizeByOneRecord

\* A write is accepted in AppendRecord alone, of a call on a writer that is not closed.
LEMMA AcceptedWhileOpen ==
  ASSUME RInv, [Step]_vars, NEW w \in Writers, writer[w].status = "closed"
  PROVE  {r \in accepted' : r.by = w} = {r \in accepted : r.by = w}
<1>0. Types /\ CallInv
  BY DEF RInv
<1>1. CASE UNCHANGED accepted
  BY <1>1
<1>2. ASSUME NEW g \in Goroutines, AppendRecord(g)
      PROVE  {r \in accepted' : r.by = w} = {r \in accepted : r.by = w}
  <2>1. call[g].on # w
    BY <1>0, <1>2 DEF AppendRecord, CallInv
  <2>2. \/ accepted' = accepted
        \/ accepted' = accepted \cup {[id |-> call[g].id, at |-> call[g].at, by |-> call[g].on,
                                      pos |-> files[writer[call[g].on].file].size]}
    BY <1>2 DEF AppendRecord
  <2> QED BY <2>1, <2>2
<1>3. Step => UNCHANGED accepted \/ \E g \in Goroutines : AppendRecord(g)
  BY DEF Step, New, NewFails, Close, CleanerStep, Stop, List, Examine, Unlink, CallStep, Rotate,
         Enter, Advance, Crash, vars, memVars
<1>4. UNCHANGED vars => UNCHANGED accepted
  BY DEF vars
<1> QED BY <1>1, <1>2, <1>3, <1>4

\* Every variable keeps to its type, and no file or name leads outside of the files.
THEOREM RotatingTypeCorrect == Spec => []RotatingTypeOK
  BY RotatingInvariant, TypesImply, PTL

\* A writer has at most one descriptor, none when it is closed, and the call that is
\* about to append finds it open, whatever rotation has failed before.
THEOREM DescriptorsStayBalanced == Spec => []DescriptorsBalanced
  BY RotatingInvariant, BalanceImplied, PTL

\* The counted size is the size of the open file, which no other writer appends to.
THEOREM SizesAreCounted == Spec => []SizeCounted
<1>1. RInv => SizeCounted
  BY DEF RInv, OpenInv, SizeCounted
<1> QED BY <1>1, RotatingInvariant, PTL

\* Each file holds the writes of a period that its minute touches, in order.
THEOREM FilesHoldTheirPeriod == Spec => []FilesByPeriod
  BY RotatingInvariant, PeriodsImplied, PTL

\* A record that begins at MaxSize or beyond is of the minute that names its file: in a
\* later minute a file passes MaxSize by the end of one record only.
THEOREM OversizeIsBounded == Spec => []OversizeByOneRecord
  BY RotatingInvariant, OversizeImplied, PTL

\* The link of an open writer leads to its file or is gone, unless the last attempt of
\* the writer that set it failed, which the code does not report.
THEOREM LinkFollowsFile == Spec => []StaleLinkExplained
<1>1. RInv => StaleLinkExplained
  BY DEF RInv, OpenInv, StaleLinkExplained
<1> QED BY <1>1, RotatingInvariant, PTL

\* No write is accepted by a writer that has been closed.
THEOREM ClosedAcceptsNothing == Spec => NothingAfterClose
<1>1. RInv /\ [Next]_vars =>
        [\A w \in Writers : writer[w].status = "closed"
            => {r \in accepted' : r.by = w} = {r \in accepted : r.by = w}]_vars
  BY NextIsStep, AcceptedWhileOpen
<1> QED BY <1>1, RotatingInvariant, PTL DEF Spec, NothingAfterClose

------------------------------------------------------------------------------
(* What the cleanup goroutines may remove: an accepted write stays         *)
(* readable for MaxAge less the time that one file spans.  A file spans    *)
(* the longer of the minute in its name and the rotation period, provided  *)
(* that one divides the other: a rotation of 90 seconds is not covered.    *)

Nested == Rotation % Minute = 0 \/ Minute % Rotation = 0

Span == Larger(Rotation, Minute)

\* Whoever removes the files of v was made with an age that suits v.
AgesFit ==
  \A w \in Writers : writer[w].status # "none" => \A v \in Covers[w] : MaxAge[v] <= writer[w].age

\* A step that makes no writer but one with an age that suits the files it covers.
FitStep ==
  \/ \E w \in Writers, age \in Nat : New(w, age) /\ \A v \in Covers[w] : MaxAge[v] <= age
  \/ \E w \in Writers : NewFails(w) \/ Close(w) \/ CleanerStep(w)
  \/ \E g \in Goroutines : CallStep(g) \/ \E w \in Writers : Enter(g, w)
  \/ Advance \/ Crash

\* The pass of w's cleanup goroutine at a time: its cutoff is at least one MaxAge in the
\* past, it looks at the files it covers, and the file it is about to remove was named
\* before the cutoff.
PassOf(w, c, time) ==
  /\ c.pc \in {"examine", "unlink"} =>
       /\ \A v \in Covers[w] : c.cutoff <= time - MaxAge[v]
       /\ \A entry \in c.todo : entry[1] \in Covers[w]
  /\ c.pc = "unlink" =>
       /\ c.victim[1] \in Covers[w]
       /\ c.victim[2] # NoName => c.victim[2] * Minute < c.cutoff

PassInv ==
  \A w \in Writers : /\ ticks[w] <= now
                     /\ cleaner[w].pc # "off" => writer[w].status # "none"
                     /\ PassOf(w, cleaner[w], now)

\* No file was last written before the minute in its name.
StampInv ==
  \A w \in Writers, n \in Names :
    dir[w][n] # 0 => n * Minute <= files[dir[w][n]].mtime /\ n * Minute <= now

\* The open file is in the directory, unless its minute is long past.
GoneInv ==
  \A w \in Writers : writer[w].open =>
    \/ dir[w][writer[w].name] = writer[w].file
    \/ writer[w].name * Minute < now - MaxAge[w]

KeepInv == PassInv /\ StampInv /\ GoneInv /\ AcceptedWritesKept

------------------------------------------------------------------------------
(* The time that one file spans.                                            *)

\* A moment in a period that the minute n touches comes before n * Minute + Span.
LEMMA SpanBound ==
  ASSUME Nested, NEW n \in Nat, NEW s \in Nat, NEW t \in (n * Minute)..((n + 1) * Minute - 1),
         Period(t) = Period(s)
  PROVE  s < n * Minute + Span
<1> DEFINE q == t \div Rotation
<1>0. /\ Minute \in Nat \ {0} /\ Rotation \in Nat \ {0} /\ n * Minute \in Nat
      /\ t \in Int /\ n * Minute <= t /\ t < (n + 1) * Minute
  BY RotatingAssumption
<1>1. \A u \in Int : Period(u) = Rotation * (u \div Rotation)
                     /\ Period(u) <= u /\ u < Period(u) + Rotation /\ u \div Rotation \in Int
  BY <1>0, Euclid DEF Period
<1>2. s < Rotation * q + Rotation /\ Rotation * q <= t /\ q \in Int
  BY <1>0, <1>1
<1>3. Span \in Nat /\ Span >= Rotation /\ Span >= Minute
  BY <1>0 DEF Span, Larger
<1> HIDE DEF q
<1>4. CASE Rotation % Minute = 0
  <2> DEFINE k == Rotation \div Minute
             m == k * q
  <2>1. k \in Int /\ Rotation = Minute * k
    BY <1>0, <1>4, Euclid
  <2> HIDE DEF k
  <2>2. Rotation * q = Minute * m /\ m \in Int
    BY <1>0, <1>2, <2>1
  <2> HIDE DEF m
  <2>3. m <= n
    <3>1. SUFFICES ASSUME n + 1 <= m PROVE FALSE
      BY <2>2
    <3>2. Minute * (n + 1) <= Minute * m
      BY <1>0, <2>2, <3>1, MulMonotone
    <3> QED BY <1>0, <1>2, <2>2, <3>2
  <2>4. Minute * m <= Minute * n
    BY <1>0, <2>2, <2>3, MulMonotone
  <2>5. Minute * n = n * Minute /\ Minute * m \in Int
    BY <1>0, <2>2
  <2> QED BY <1>0, <1>2, <1>3, <2>2, <2>4, <2>5
<1>5. CASE Minute % Rotation = 0
  <2> DEFINE k == Minute \div Rotation
             m == k * (n + 1)
  <2>1. k \in Int /\ Minute = Rotation * k
    BY <1>0, <1>5, Euclid
  <2> HIDE DEF k
  <2>2. (n + 1) * Minute = Rotation * m /\ m \in Int
    BY <1>0, <2>1
  <2> HIDE DEF m
  <2>3. q + 1 <= m
    <3>1. SUFFICES ASSUME m <= q PROVE FALSE
      BY <1>2, <2>2
    <3>2. Rotation * m <= Rotation * q
      BY <1>0, <1>2, <2>2, <3>1, MulMonotone
    <3> QED BY <1>0, <1>2, <2>2, <3>2
  <2>4. Rotation * (q + 1) <= Rotation * m
    BY <1>0, <1>2, <2>2, <2>3, MulMonotone
  <2>5. Rotation * (q + 1) = Rotation * q + Rotation /\ Rotation * q \in Int
        /\ (n + 1) * Minute = n * Minute + Minute
    BY <1>0, <1>2
  <2> QED BY <1>0, <1>2, <1>3, <2>2, <2>4, <2>5
<1> QED BY <1>4, <1>5 DEF Nested

------------------------------------------------------------------------------
(* Steps that remove nothing.                                               *)

\* The directory keeps its entries and the files keep what they hold.
Longer ==
  /\ \A v \in Writers, n \in Names : dir[v][n] # 0 => dir'[v][n] = dir[v][n]
  /\ \A f \in 1..Len(files) : \A i \in DOMAIN files[f].recs :
       i \in DOMAIN files'[f].recs /\ files'[f].recs[i] = files[f].recs[i]

LEMMA LongerKeeps ==
  ASSUME Types, HeldInv, AcceptedWritesKept, Longer, accepted' = accepted,
         now' \in Nat, now <= now'
  PROVE  AcceptedWritesKept'
<1> SUFFICES ASSUME NEW rec \in accepted, now' - rec.at <= MaxAge[rec.by] - Span
             PROVE  Kept(rec)'
  BY DEF AcceptedWritesKept, Span
<1>1. rec.at \in Nat /\ rec.by \in Writers /\ now \in Nat /\ MaxAge[rec.by] \in Nat
      /\ Span \in Nat
  BY RotatingAssumption DEF Types, Rec, Span, Larger
<1>2. Kept(rec)
  BY <1>1 DEF AcceptedWritesKept, Span
<1>3. PICK name \in Names : /\ dir[rec.by][name] # 0
                            /\ \E i \in DOMAIN files[dir[rec.by][name]].recs :
                                 files[dir[rec.by][name]].recs[i] = rec
  BY <1>2 DEF Kept
<1>4. dir[rec.by][name] \in 1..Len(files) /\ dir'[rec.by][name] = dir[rec.by][name]
  BY <1>1, <1>3, FieldTypes DEF Types, HeldInv, Longer
<1> QED BY <1>1, <1>3, <1>4, ZenonT(60) DEF Kept, Longer

LEMMA SameIsLonger ==
  ASSUME UNCHANGED <<files, dir>>
  PROVE  Longer
  BY DEF Longer

\* Opening a file for a moment that has come.
LEMMA CreatedStamps ==
  ASSUME Types, HeldInv, StampInv, NEW w \in Writers, NEW t \in 0..MaxTime, t <= now,
         Created(w, MinuteOf(t)), now' = now
  PROVE  StampInv' /\ Longer /\ dir'[w][MinuteOf(t)] # 0
<1> DEFINE name == MinuteOf(t)
<1>0. /\ files \in Seq(File) /\ dir \in [Writers -> [Names -> Nat]] /\ now \in Nat
      /\ Len(files) \in Nat /\ name \in Names /\ t \in (name * Minute)..((name + 1) * Minute - 1)
  BY FieldTypes, MinuteFacts DEF Types
<1>1. CASE dir[w][name] # 0
  BY <1>1, SameIsLonger DEF Created, StampInv
<1>2. CASE dir[w][name] = 0
  <2> DEFINE e == [recs |-> <<>>, size |-> 0, mtime |-> now]
  <2>1. files' = Append(files, e) /\ dir' = [dir EXCEPT ![w][name] = Len(files) + 1]
    BY <1>2 DEF Created
  <2>2. e \in File /\ e.mtime = now
    BY <1>0 DEF File
  <2> HIDE DEF e
  <2>3. /\ \A f \in 1..Len(files) : files'[f] = files[f]
        /\ files'[Len(files) + 1] = e
    BY <1>0, <2>1, <2>2, AppendProperties
  <2>4. /\ dir'[w][name] = Len(files) + 1
        /\ \A v \in Writers, n \in Names : dir'[v][n] = dir[v][n] \/ (v = w /\ n = name)
    BY <1>0, <2>1
  <2>5. Longer
    BY <1>2, <2>3, <2>4 DEF Longer
  <2>6. ASSUME NEW v \in Writers, NEW n \in Names, dir'[v][n] # 0
        PROVE  n * Minute <= files'[dir'[v][n]].mtime /\ n * Minute <= now
    <3>1. CASE v = w /\ n = name
      <4>1. name * Minute <= now
        BY <1>0, RotatingAssumption DEF Names
      <4> QED BY <2>2, <2>3, <2>4, <3>1, <4>1
    <3>2. CASE dir'[v][n] = dir[v][n]
      <4>1. dir[v][n] \in 1..Len(files)
        BY <1>0, <2>6, <3>2 DEF HeldInv
      <4> QED BY <2>3, <2>6, <3>2, <4>1 DEF StampInv
    <3> QED BY <2>4, <3>1, <3>2
  <2> QED BY <1>0, <2>4, <2>5, <2>6 DEF StampInv
<1> QED BY <1>1, <1>2

\* The open files that a step leaves alone stay where they are.
LEMMA GoneStays ==
  ASSUME Types, OpenInv, GoneInv, Longer, NEW v \in Writers, writer[v].open,
         writer'[v].file = writer[v].file, writer'[v].name = writer[v].name, now' = now
  PROVE  \/ dir'[v][writer'[v].name] = writer'[v].file
         \/ writer'[v].name * Minute < now' - MaxAge[v]
  BY DEF OpenInv, GoneInv, Longer

\* A cleanup goroutine that a step leaves alone.
LEMMA PassStays ==
  ASSUME PassInv, UNCHANGED <<now, ticks, cleaner>>,
         \A w \in Writers : writer[w].status # "none" => writer'[w].status # "none"
  PROVE  PassInv'
  BY DEF PassInv

LEMMA OpenKeeps ==
  ASSUME RInv, KeepInv,
         \/ \E w \in Writers, age \in Nat : New(w, age)
         \/ \E w \in Writers : NewFails(w)
         \/ \E g \in Goroutines : Rotate(g)
  PROVE  KeepInv'
<1>0. Types /\ OpenInv /\ CallInv /\ HeldInv /\ PassInv /\ StampInv /\ GoneInv /\ AcceptedWritesKept
  BY DEF RInv, KeepInv
<1>1. now \in 0..MaxTime /\ now \in Nat /\ now <= now
  BY <1>0, FieldTypes
<1>2. ASSUME NEW w \in Writers, NEW age \in Nat, New(w, age)
      PROVE  KeepInv'
  <2>1. StampInv' /\ Longer
    BY <1>0, <1>1, <1>2, CreatedStamps DEF New
  <2>2. /\ UNCHANGED <<now, ticks, accepted>> /\ cleaner' = [cleaner EXCEPT ![w] = Waiting]
        /\ \A v \in Writers \ {w} : writer'[v] = writer[v]
        /\ writer'[w].status = "open" /\ writer'[w].file = dir'[w][writer'[w].name]
    BY <1>0, <1>2 DEF New, Types
  <2>3. \A v \in Writers : cleaner'[v] = IF v = w THEN Waiting ELSE cleaner[v]
    BY <1>0, <2>2 DEF Types
  <2>4. PassInv'
    BY <1>0, <2>2, <2>3, RestingStates DEF PassInv, PassOf
  <2>5. GoneInv'
    <3>1. ASSUME NEW v \in Writers, writer'[v].open
          PROVE  \/ dir'[v][writer'[v].name] = writer'[v].file
                 \/ writer'[v].name * Minute < now' - MaxAge[v]
      BY <1>0, <2>1, <2>2, <3>1, GoneStays
    <3> QED BY <3>1 DEF GoneInv
  <2>6. AcceptedWritesKept'
    BY <1>0, <1>1, <2>1, <2>2, LongerKeeps
  <2> QED BY <2>1, <2>4, <2>5, <2>6 DEF KeepInv
<1>3. ASSUME NEW w \in Writers, NewFails(w)
      PROVE  KeepInv'
  <2>1. UNCHANGED <<now, ticks, cleaner, writer, accepted>>
    BY <1>3 DEF NewFails, memVars
  <2>2. StampInv' /\ Longer
    BY <1>0, <1>1, <1>3, <2>1, CreatedStamps, SameIsLonger DEF NewFails, OpenFails, StampInv
  <2>3. PassInv'
    BY <1>0, <2>1, PassStays
  <2>4. GoneInv'
    BY <1>0, <2>1, <2>2, GoneStays DEF GoneInv
  <2>5. AcceptedWritesKept'
    BY <1>0, <1>1, <2>1, <2>2, LongerKeeps
  <2> QED BY <2>2, <2>3, <2>4, <2>5 DEF KeepInv
<1>4. ASSUME NEW g \in Goroutines, Rotate(g)
      PROVE  KeepInv'
  <2> DEFINE w == call[g].on
             t == call[g].at
  <2>1. w \in Writers /\ t \in 0..MaxTime /\ t <= now
    BY <1>0, <1>4, Caller DEF Rotate
  <2>2. UNCHANGED <<now, ticks, cleaner, accepted>>
    BY <1>4 DEF Rotate
  <2>3. /\ \A v \in Writers \ {w} : writer'[v] = writer[v]
        /\ writer'[w].status = writer[w].status
        /\ writer'[w].open => writer'[w].file = dir'[w][writer'[w].name]
    <3>1. CASE OpenFile(w, t, StillOpen(w))
      <4> DEFINE r == [writer[w] EXCEPT !.file = dir'[w][MinuteOf(t)], !.name = MinuteOf(t),
                                        !.open = TRUE, !.size = SizeAt(dir'[w][MinuteOf(t)]),
                                        !.openedAt = Period(t)]
      <4>1. writer' = [writer EXCEPT ![w] = r]
        BY <3>1 DEF OpenFile
      <4>2. writer \in [Writers -> WriterState] /\ writer[w] \in WriterState
        BY <1>0, <2>1 DEF Types
      <4>3. /\ r.file = dir'[w][MinuteOf(t)] /\ r.name = MinuteOf(t)
            /\ r.status = writer[w].status
        BY <4>2 DEF WriterState
      <4> HIDE DEF r
      <4> QED BY <2>1, <4>1, <4>2, <4>3
    <3>2. CASE writer' = [writer EXCEPT ![w].open = FALSE]
      <4>1. writer \in [Writers -> WriterState] /\ writer[w] \in WriterState
        BY <1>0, <2>1 DEF Types
      <4> QED BY <2>1, <3>2, <4>1 DEF WriterState
    <3> QED BY <1>4, <3>1, <3>2 DEF Rotate
  <2>4. Created(w, MinuteOf(t)) \/ UNCHANGED <<files, dir>>
    BY <1>4 DEF Rotate, OpenFile, OpenFails
  <2> HIDE DEF w, t
  <2>5. StampInv' /\ Longer
    BY <1>0, <2>1, <2>2, <2>4, CreatedStamps, SameIsLonger DEF StampInv
  <2>6. PassInv'
    <3>1. \A v \in Writers : writer'[v].status = writer[v].status
      BY <2>3
    <3> QED BY <1>0, <2>2, <3>1, PassStays
  <2>7. GoneInv'
    <3>1. ASSUME NEW v \in Writers, writer'[v].open
          PROVE  \/ dir'[v][writer'[v].name] = writer'[v].file
                 \/ writer'[v].name * Minute < now' - MaxAge[v]
      BY <1>0, <2>2, <2>3, <2>5, <3>1, GoneStays
    <3> QED BY <3>1 DEF GoneInv
  <2>8. AcceptedWritesKept'
    BY <1>0, <1>1, <2>2, <2>5, LongerKeeps
  <2> QED BY <2>5, <2>6, <2>7, <2>8 DEF KeepInv
<1> QED BY <1>2, <1>3, <1>4

LEMMA PlainKeeps ==
  ASSUME RInv, KeepInv,
         \/ \E g \in Goroutines, w \in Writers : Enter(g, w)
         \/ \E w \in Writers : Close(w)
         \/ Advance \/ Crash
  PROVE  KeepInv'
<1>0. Types /\ OpenInv /\ HeldInv /\ PassInv /\ StampInv /\ GoneInv /\ AcceptedWritesKept
  BY DEF RInv, KeepInv
<1>1. UNCHANGED <<files, dir, accepted>>
  BY DEF Enter, Close, Advance, Crash, fileVars
<1>2. now' \in {now, now + 1} /\ now \in Nat /\ now' \in Nat /\ now <= now'
  <2>1. now \in Nat
    BY <1>0, FieldTypes
  <2>2. CASE Advance
    BY <2>1, <2>2 DEF Advance
  <2>3. CASE Crash
    BY <2>1, <2>3 DEF Crash
  <2>4. CASE UNCHANGED now
    BY <2>1, <2>4
  <2>5. ((\E g \in Goroutines, w \in Writers : Enter(g, w)) \/ (\E w \in Writers : Close(w)))
        => UNCHANGED now
    BY DEF Enter, Close
  <2> QED BY <2>2, <2>3, <2>4, <2>5
<1>3. \A w \in Writers : MaxAge[w] \in Nat
  BY RotatingAssumption
<1>4. AcceptedWritesKept'
  BY <1>0, <1>1, <1>2, LongerKeeps, SameIsLonger
<1>5. StampInv'
  <2>1. \A w \in Writers, n \in Names : n * Minute \in Int
    BY RotatingAssumption DEF Names
  <2> QED BY <1>0, <1>1, <1>2, <2>1 DEF StampInv
<1>6. \A w \in Writers : writer'[w].open =>
        writer[w].open /\ writer'[w].file = writer[w].file /\ writer'[w].name = writer[w].name
  <2>1. \A w \in Writers : writer[w] \in WriterState
    BY <1>0 DEF Types
  <2>2. CASE UNCHANGED writer
    BY <2>2
  <2>3. CASE Crash
    BY <2>3 DEF Crash, Absent
  <2>4. ASSUME NEW w \in Writers, Close(w)
        PROVE  \A v \in Writers : writer'[v].open => v # w /\ writer'[v] = writer[v]
    BY <1>0, <2>1, <2>4 DEF Close, Types, WriterState
  <2> QED BY <2>2, <2>3, <2>4 DEF Enter, Advance
<1>7. GoneInv'
  <2>1. ASSUME NEW w \in Writers, writer'[w].open
        PROVE  \/ dir'[w][writer'[w].name] = writer'[w].file
               \/ writer'[w].name * Minute < now' - MaxAge[w]
    <3>1. writer[w].name * Minute \in Int
      BY <1>0, <1>6, <2>1, RotatingAssumption DEF OpenInv, Names
    <3> QED BY <1>0, <1>1, <1>2, <1>3, <1>6, <2>1, <3>1 DEF GoneInv
  <2> QED BY <2>1 DEF GoneInv
<1>8. PassInv'
  <2>1. CASE Crash
    <3>1. \A w \in Writers : cleaner'[w].pc = "off" /\ ticks'[w] = NoTick
      BY <2>1, RestingStates DEF Crash
    <3> QED BY <1>2, <3>1 DEF PassInv, PassOf, NoTick
  <2>2. CASE \E g \in Goroutines, w \in Writers : Enter(g, w)
    <3>1. UNCHANGED <<now, ticks, cleaner, writer>>
      BY <2>2 DEF Enter
    <3> QED BY <1>0, <3>1, PassStays
  <2>3. ASSUME NEW w \in Writers, Close(w)
        PROVE  PassInv'
    <3>1. UNCHANGED <<now, ticks, cleaner>> /\ writer'[w].status = "closed"
          /\ \A v \in Writers \ {w} : writer'[v] = writer[v]
      BY <1>0, <2>3 DEF Close, Types, WriterState
    <3> QED BY <1>0, <3>1, PassStays
  <2>4. CASE Advance
    <3>1. /\ UNCHANGED <<cleaner, writer>> /\ now' = now + 1
          /\ \A w \in Writers : ticks'[w] \in {now + 1, ticks[w]}
      BY <2>4 DEF Advance
    <3>2. \A w \in Writers : ticks[w] \in Int
      BY <1>0 DEF Types, Ticks, NoTick
    <3>3. \A w \in Writers : cleaner[w].cutoff \in Int
      BY <1>0 DEF Types, CleanerState
    <3>4. \A w \in Writers : PassOf(w, cleaner[w], now + 1)
      <4>1. SUFFICES ASSUME NEW w \in Writers PROVE PassOf(w, cleaner[w], now + 1)
        OBVIOUS
      <4>2. \A v \in Covers[w] : v \in Writers
        BY RotatingAssumption
      <4>3. PassOf(w, cleaner[w], now)
        BY <1>0 DEF PassInv
      <4> QED BY <1>2, <1>3, <3>3, <4>2, <4>3 DEF PassOf
    <3>5. \A w \in Writers : ticks'[w] <= now'
      BY <1>0, <1>2, <3>1, <3>2 DEF PassInv
    <3> QED BY <1>0, <3>1, <3>4, <3>5 DEF PassInv
  <2> QED BY <2>1, <2>2, <2>3, <2>4
<1> QED BY <1>4, <1>5, <1>7, <1>8 DEF KeepInv

------------------------------------------------------------------------------
(* Writing and removing.                                                    *)

\* A write goes into the file of its minute: if that is no longer in the directory, the
\* write itself is older than what has to be kept.
LEMMA AppendKeepsFiles ==
  ASSUME Nested, RInv, RInv', KeepInv, NEW g \in Goroutines, AppendRecord(g)
  PROVE  KeepInv'
<1> DEFINE w == call[g].on
           f == writer[w].file
           n == writer[w].name
           rec == [id |-> call[g].id, at |-> call[g].at, by |-> w, pos |-> files[f].size]
<1>0. /\ Types /\ OpenInv /\ CallInv /\ PeriodInv /\ HeldInv /\ RecsInv
      /\ PassInv /\ StampInv /\ GoneInv /\ AcceptedWritesKept
  BY DEF RInv, KeepInv
<1>1. call[g].pc = "append" /\ UNCHANGED <<now, dir, ticks, cleaner>>
  BY DEF AppendRecord
<1>2. /\ w \in Writers /\ writer[w].open /\ writer[w].openedAt = Period(call[g].at)
      /\ call[g].at \in Nat /\ rec.at = call[g].at /\ rec.by = w
  <2>1. w \in Writers /\ writer[w].open /\ writer[w].openedAt = Period(call[g].at)
    BY <1>0, <1>1 DEF CallInv, PeriodInv
  <2> QED BY <1>0, <2>1, FieldTypes
<1>3. /\ f \in 1..Len(files) /\ n \in Names /\ files \in Seq(File) /\ now \in Nat
      /\ Len(files) \in Nat
  BY <1>0, <1>2, FieldTypes DEF OpenInv, Types
<1>4. \A v \in Writers : /\ writer'[v].open = writer[v].open /\ writer'[v].file = writer[v].file
                         /\ writer'[v].name = writer[v].name
                         /\ writer'[v].status = writer[v].status
  <2>1. UNCHANGED writer \/ \E k \in Nat : writer' = [writer EXCEPT ![w].size = @ + k]
    BY AppendWrote DEF Wrote
  <2>2. writer \in [Writers -> WriterState] /\ \A v \in Writers : writer[v] \in WriterState
    BY <1>0 DEF Types
  <2>3. ASSUME NEW k \in Nat, writer' = [writer EXCEPT ![w].size = @ + k]
        PROVE  \A v \in Writers :
                 /\ writer'[v].open = writer[v].open /\ writer'[v].file = writer[v].file
                 /\ writer'[v].name = writer[v].name
                 /\ writer'[v].status = writer[v].status
    <3>1. \A v \in Writers : v # w => writer'[v] = writer[v]
      BY <2>2, <2>3
    <3>2. writer'[w] = [writer[w] EXCEPT !.size = @ + k]
      BY <1>2, <2>2, <2>3
    <3> QED BY <1>2, <2>2, <3>1, <3>2 DEF WriterState
  <2> QED BY <2>1, <2>3
<1>5. \/ UNCHANGED files /\ accepted' = accepted
      \/ \E r \in {rec, [rec EXCEPT !.id = 0]}, k \in Nat :
           /\ files' = [files EXCEPT ![f] =
                          [recs |-> Append(@.recs, r), size |-> @.size + k, mtime |-> now]]
           /\ accepted' \in {accepted, accepted \cup {rec}}
           /\ accepted' # accepted => r = rec
  <2>1. \A m \in Lengths : m \in Nat /\ 1..(m - 1) \subseteq Nat
    BY RotatingAssumption
  <2> HIDE DEF rec
  <2> QED BY <2>1 DEF AppendRecord, rec
<1> HIDE DEF rec
<1>6. CASE UNCHANGED files /\ accepted' = accepted
  <2>1. AcceptedWritesKept'
    BY <1>0, <1>1, <1>3, <1>6, LongerKeeps, SameIsLonger
  <2>2. StampInv'
    BY <1>0, <1>1, <1>6 DEF StampInv
  <2>3. GoneInv'
    BY <1>0, <1>1, <1>4 DEF GoneInv
  <2>4. PassInv'
    BY <1>0, <1>1, <1>4, PassStays
  <2> QED BY <2>1, <2>2, <2>3, <2>4 DEF KeepInv
<1>7. ASSUME NEW r, NEW k \in Nat,
             files' = [files EXCEPT ![f] =
                         [recs |-> Append(@.recs, r), size |-> @.size + k, mtime |-> now]],
             accepted' \in {accepted, accepted \cup {rec}}, accepted' # accepted => r = rec
      PROVE  KeepInv'
  <2> DEFINE old == files[f].recs
             new == Append(old, r)
             nf == [recs |-> new, size |-> files[f].size + k, mtime |-> now]
  <2>1. old \in Seq(Rec) /\ Len(old) \in Nat /\ DOMAIN old = 1..Len(old)
    BY <1>3, FileTypes, LenProperties
  <2>2. /\ DOMAIN new = 1..(Len(old) + 1) /\ new[Len(old) + 1] = r
        /\ \A i \in 1..Len(old) : new[i] = old[i]
    <3> HIDE DEF old
    <3> QED BY <2>1
  <2>3. nf.recs = new /\ nf.mtime = now
    OBVIOUS
  <2>4. files' = [files EXCEPT ![f] = nf]
    BY <1>7
  <2> HIDE DEF nf, new
  <2>5. \A x \in 1..Len(files) : files'[x] = IF x = f THEN nf ELSE files[x]
    BY <1>3, <2>4
  <2>6. Longer
    <3>1. ASSUME NEW x \in 1..Len(files), NEW i \in DOMAIN files[x].recs
          PROVE  i \in DOMAIN files'[x].recs /\ files'[x].recs[i] = files[x].recs[i]
      <4>1. CASE x = f
        <5>1. i \in 1..Len(old) /\ i \in 1..(Len(old) + 1)
          <6>1. i \in 1..Len(old) /\ Len(old) \in Nat
            BY <2>1, <3>1, <4>1
          <6> HIDE DEF old
          <6> QED BY <6>1
        <5>2. files'[x].recs = new /\ files[x].recs = old
          BY <2>3, <2>5, <3>1, <4>1
        <5> HIDE DEF old
        <5> QED BY <2>2, <5>1, <5>2
      <4> QED BY <2>5, <3>1, <4>1
    <3> QED BY <1>1, <3>1 DEF Longer
  <2>7. StampInv'
    <3>1. ASSUME NEW v \in Writers, NEW m \in Names, dir'[v][m] # 0
          PROVE  m * Minute <= files'[dir'[v][m]].mtime /\ m * Minute <= now'
      <4>1. dir[v][m] \in 1..Len(files) /\ dir'[v][m] = dir[v][m]
        BY <1>0, <1>1, <3>1, FieldTypes DEF Types, HeldInv
      <4>2. m * Minute <= files[dir[v][m]].mtime /\ m * Minute <= now
        BY <1>0, <1>1, <3>1 DEF StampInv
      <4> QED BY <1>1, <2>3, <2>5, <4>1, <4>2
    <3> QED BY <3>1 DEF StampInv
  <2>8. GoneInv'
    BY <1>0, <1>1, <1>4 DEF GoneInv
  <2>9. PassInv'
    BY <1>0, <1>1, <1>4, PassStays
  <2>10. AcceptedWritesKept'
    <3> SUFFICES ASSUME NEW a \in accepted', now' - a.at <= MaxAge[a.by] - Span
                 PROVE  Kept(a)'
      BY DEF AcceptedWritesKept, Span
    <3>1. CASE a \in accepted
      <4>1. Kept(a)
        BY <1>0, <1>1, <3>1 DEF AcceptedWritesKept, Span
      <4>2. PICK m \in Names : /\ dir[a.by][m] # 0
                               /\ \E i \in DOMAIN files[dir[a.by][m]].recs :
                                    files[dir[a.by][m]].recs[i] = a
        BY <4>1 DEF Kept
      <4>3. dir[a.by][m] \in 1..Len(files) /\ dir'[a.by][m] = dir[a.by][m]
        BY <1>0, <1>1, <3>1, <4>2, FieldTypes DEF Types, HeldInv, Rec
      <4> QED BY <2>6, <4>2, <4>3 DEF Kept, Longer
    <3>2. CASE a \notin accepted
      <4>1. a = rec /\ r = rec
        BY <1>7, <3>2
      <4>2. CASE dir[w][n] = f
        <5>1. dir'[w][n] # 0 /\ files'[dir'[w][n]].recs = new
          BY <1>1, <1>3, <2>3, <2>5, <4>2
        <5>2. Len(old) \in Nat
          BY <2>1
        <5> HIDE DEF old
        <5>3. Len(old) + 1 \in DOMAIN new /\ new[Len(old) + 1] = a
          BY <2>2, <4>1, <5>2
        <5>4. a.by = w
          BY <1>2, <4>1
        <5> HIDE DEF n, w
        <5> QED BY <1>3, <5>1, <5>3, <5>4 DEF Kept
      <4>3. CASE dir[w][n] # f
        <5>1. n * Minute < now - MaxAge[w] /\ n \in Nat /\ n * Minute \in Int
          <6>1. n * Minute < now - MaxAge[w]
            BY <1>0, <1>2, <4>3 DEF GoneInv
          <6>2. n \in Nat /\ Minute \in Nat
            BY <1>3, RotatingAssumption DEF Names
          <6> HIDE DEF n
          <6> QED BY <6>1, <6>2
        <5>2. PICK t \in (n * Minute)..((n + 1) * Minute - 1) : Period(t) = Period(call[g].at)
          BY <1>0, <1>2 DEF PeriodInv
        <5>3. call[g].at < n * Minute + Span
          BY <1>2, <5>1, <5>2, SpanBound
        <5>4. MaxAge[w] \in Nat /\ Span \in Nat
          BY <1>2, RotatingAssumption DEF Span, Larger
        <5>5. now - call[g].at <= MaxAge[w] - Span
          BY <1>1, <1>2, <4>1
        <5>6. call[g].at \in Nat /\ n * Minute \in Int /\ now \in Nat
          BY <1>2, <1>3, <5>1
        <5> DEFINE at == call[g].at
                   start == n * Minute
                   age == MaxAge[w]
        <5>7. /\ start < now - age /\ at < start + Span /\ now - at <= age - Span
              /\ at \in Nat /\ start \in Int /\ now \in Nat /\ age \in Nat /\ Span \in Nat
          BY <5>1, <5>3, <5>4, <5>5, <5>6
        <5> HIDE DEF at, start, age
        <5> QED BY <5>7
      <4> QED BY <4>2, <4>3
    <3> QED BY <3>1, <3>2
  <2> QED BY <2>7, <2>8, <2>9, <2>10 DEF KeepInv
<1> QED BY <1>5, <1>6, <1>7

\* The rest of a pass keeps the cutoff and the entries that are left.
LEMMA RestOfPass ==
  ASSUME NEW w \in Writers, NEW cutoff, NEW todo, NEW time,
         \A v \in Covers[w] : cutoff <= time - MaxAge[v],
         \A entry \in todo : entry[1] \in Covers[w]
  PROVE  PassOf(w, Pass(cutoff, todo), time) /\ Pass(cutoff, todo).pc # "off"
  BY RestingStates DEF PassOf, Pass

\* The pass of w after a step that changes no pass but that of w.
LEMMA PassMoves ==
  ASSUME PassInv, NEW w \in Writers, NEW c, cleaner' = [cleaner EXCEPT ![w] = c], Types,
         PassOf(w, c, now), writer[w].status # "none", UNCHANGED <<now, writer>>,
         \A v \in Writers : ticks'[v] <= now
  PROVE  PassInv'
<1>1. \A v \in Writers : cleaner'[v] = IF v = w THEN c ELSE cleaner[v]
  BY DEF Types
<1> QED BY <1>1 DEF PassInv

\* What a pass does without removing anything.
LEMMA LookingKeeps ==
  ASSUME AgesFit, RInv, KeepInv, NEW w \in Writers, Stop(w) \/ List(w) \/ Examine(w)
  PROVE  KeepInv'
<1>0. Types /\ CleanerInv /\ PassInv /\ StampInv /\ GoneInv /\ AcceptedWritesKept /\ HeldInv
  BY DEF RInv, KeepInv
<1>1. UNCHANGED <<now, files, dir, writer, accepted>> /\ cleaner[w].pc # "off"
  BY DEF Stop, List, Examine, fileVars
<1>2. now \in Nat /\ now <= now
  BY <1>0, FieldTypes
<1>3. StampInv' /\ GoneInv'
  BY <1>0, <1>1 DEF StampInv, GoneInv
<1>4. AcceptedWritesKept'
  BY <1>0, <1>1, <1>2, LongerKeeps, SameIsLonger
<1>5. writer[w].status # "none" /\ cleaner[w] \in CleanerState /\ PassOf(w, cleaner[w], now)
  BY <1>0, <1>1 DEF PassInv, Types
<1>6. CASE Stop(w)
  <2> DEFINE c == [cleaner[w] EXCEPT !.pc = "done"]
  <2>1. cleaner' = [cleaner EXCEPT ![w] = c] /\ UNCHANGED ticks
    BY <1>6 DEF Stop
  <2>2. PassOf(w, c, now)
    BY <1>5 DEF PassOf, CleanerState
  <2> HIDE DEF c
  <2>3. PassInv'
    BY <1>0, <1>1, <1>5, <2>1, <2>2, PassMoves DEF PassInv
  <2> QED BY <1>3, <1>4, <2>3 DEF KeepInv
<1>7. CASE List(w)
  <2> DEFINE cutoff == ticks[w] - writer[w].age
  <2>1. PICK todo \in {Candidates(w, cutoff), {}} : cleaner' = [cleaner EXCEPT ![w] = Pass(cutoff, todo)]
    BY <1>7 DEF List
  <2>2. \A entry \in todo : entry[1] \in Covers[w]
    BY DEF Candidates, Listed
  <2>3. \A v \in Writers : ticks[v] \in Int /\ ticks[v] <= now
    BY <1>0 DEF PassInv, Types, Ticks, NoTick
  <2>4. \A v \in Covers[w] : cutoff <= now - MaxAge[v]
    <3>1. SUFFICES ASSUME NEW v \in Covers[w] PROVE cutoff <= now - MaxAge[v]
      OBVIOUS
    <3>2. MaxAge[v] \in Nat /\ writer[w].age \in Nat /\ MaxAge[v] <= writer[w].age
      BY <1>0, <1>5, FieldTypes, RotatingAssumption DEF AgesFit
    <3> QED BY <1>2, <2>3, <3>2
  <2>5. \A v \in Writers : ticks'[v] <= now
    BY <1>0, <1>2, <1>7, <2>3 DEF List, Types, NoTick
  <2> HIDE DEF cutoff
  <2>6. PassOf(w, Pass(cutoff, todo), now)
    BY <2>2, <2>4, RestOfPass
  <2>7. PassInv'
    BY <1>0, <1>1, <1>5, <2>1, <2>5, <2>6, PassMoves
  <2> QED BY <1>3, <1>4, <2>7 DEF KeepInv
<1>8. CASE Examine(w)
  <2> DEFINE todo  == cleaner[w].todo
             entry == CHOOSE e \in todo : \A e2 \in todo : ~Before(w, e2, e)
             found == [cleaner[w] EXCEPT !.pc = "unlink", !.todo = todo \ {entry},
                                         !.victim = entry]
             rest  == Pass(cleaner[w].cutoff, todo \ {entry})
  <2>1. /\ cleaner[w].pc = "examine" /\ UNCHANGED ticks
        /\ cleaner' = [cleaner EXCEPT ![w] = IF Expired(entry, cleaner[w].cutoff) THEN found
                                                                                ELSE rest]
    BY <1>0, <1>8 DEF Examine, Types
  <2>2. /\ todo \in SUBSET Listing /\ todo # {}
        /\ \A v \in Covers[w] : cleaner[w].cutoff <= now - MaxAge[v]
        /\ \A e \in todo : e[1] \in Covers[w]
    BY <1>0, <1>5, <2>1 DEF CleanerState, CleanerInv, PassOf
  <2> HIDE DEF todo
  <2>3. entry \in todo
    <3>1. \E e \in todo : \A e2 \in todo : ~Before(w, e2, e)
      BY <2>2, FirstEntry
    <3> QED BY <3>1
  <2> HIDE DEF entry
  <2>4. PassOf(w, rest, now)
    BY <2>2, RestOfPass
  <2>5. ASSUME Expired(entry, cleaner[w].cutoff)
        PROVE  PassOf(w, found, now)
    <3>1. /\ found.pc = "unlink" /\ found.todo = todo \ {entry} /\ found.victim = entry
          /\ found.cutoff = cleaner[w].cutoff
      BY <1>5 DEF CleanerState
    <3>2. ASSUME entry[2] # NoName
          PROVE  entry[2] * Minute < cleaner[w].cutoff
      <4>1. entry[1] \in Writers /\ entry[2] \in Names
        BY <2>2, <2>3, <3>2 DEF Listing, LinkNames
      <4>2. /\ dir[entry[1]][entry[2]] # 0
            /\ files[dir[entry[1]][entry[2]]].mtime < cleaner[w].cutoff
        BY <2>5, <3>2 DEF Expired, Present
      <4>3. entry[2] * Minute <= files[dir[entry[1]][entry[2]]].mtime
        BY <1>0, <4>1, <4>2 DEF StampInv
      <4>4. /\ entry[2] * Minute \in Int /\ cleaner[w].cutoff \in Int
            /\ files[dir[entry[1]][entry[2]]].mtime \in Int
        <5>1. dir[entry[1]][entry[2]] \in 1..Len(files) /\ files \in Seq(File)
          BY <1>0, <4>1, <4>2, FieldTypes DEF Types, HeldInv
        <5>2. files[dir[entry[1]][entry[2]]] \in File
          BY <5>1, FileTypes
        <5> QED BY <1>5, <4>1, <5>2, RotatingAssumption DEF File, Names, CleanerState
      <4> QED BY <4>2, <4>3, <4>4
    <3> HIDE DEF found
    <3> QED BY <2>2, <2>3, <3>1, <3>2 DEF PassOf
  <2> HIDE DEF found, rest
  <2>6. PassInv'
    BY <1>0, <1>1, <1>5, <2>1, <2>4, <2>5, PassMoves DEF PassInv
  <2> QED BY <1>3, <1>4, <2>6 DEF KeepInv
<1> QED BY <1>6, <1>7, <1>8

\* What is removed holds nothing that is younger than MaxAge less Span.
LEMMA UnlinkKeeps ==
  ASSUME Nested, RInv, KeepInv, NEW w \in Writers, Unlink(w)
  PROVE  KeepInv'
<1> DEFINE v == cleaner[w].victim[1]
           name == cleaner[w].victim[2]
<1>0. /\ Types /\ CleanerInv /\ PassInv /\ StampInv /\ GoneInv /\ AcceptedWritesKept
      /\ HeldInv /\ RecsInv /\ OpenInv
  BY DEF RInv, KeepInv
<1>1. UNCHANGED <<now, files, writer, ticks, accepted>> /\ cleaner[w].pc = "unlink"
  BY DEF Unlink
<1>2. now \in Nat /\ now <= now
  BY <1>0, FieldTypes
<1>3. writer[w].status # "none" /\ cleaner[w] \in CleanerState /\ PassOf(w, cleaner[w], now)
  BY <1>0, <1>1 DEF PassInv, Types
<1>4. /\ v \in Writers /\ v \in Covers[w] /\ name \in LinkNames
      /\ cleaner[w].cutoff <= now - MaxAge[v] /\ cleaner[w].cutoff \in Int
      /\ MaxAge[v] \in Nat
      /\ name # NoName => name * Minute < cleaner[w].cutoff
      /\ \A u \in Covers[w] : cleaner[w].cutoff <= now - MaxAge[u]
      /\ \A entry \in cleaner[w].todo : entry[1] \in Covers[w]
  BY <1>0, <1>1, <1>3, RotatingAssumption DEF CleanerInv, Listing, PassOf, CleanerState
<1> HIDE DEF v, name
<1>5. PassInv'
  <2>1. cleaner' = [cleaner EXCEPT ![w] = Pass(cleaner[w].cutoff, cleaner[w].todo)]
    BY <1>0 DEF Unlink, Types
  <2>2. PassOf(w, Pass(cleaner[w].cutoff, cleaner[w].todo), now)
    BY <1>4, RestOfPass
  <2> QED BY <1>0, <1>1, <1>3, <2>1, <2>2, PassMoves DEF PassInv
<1>6. CASE name = NoName
  <2>1. UNCHANGED dir
    BY <1>6 DEF Unlink, name
  <2>2. StampInv' /\ GoneInv'
    BY <1>0, <1>1, <2>1 DEF StampInv, GoneInv
  <2>3. AcceptedWritesKept'
    BY <1>0, <1>1, <1>2, <2>1, LongerKeeps, SameIsLonger
  <2> QED BY <1>5, <2>2, <2>3 DEF KeepInv
<1>7. CASE name # NoName
  <2>1. dir' = [dir EXCEPT ![v][name] = 0] /\ name \in Names
    BY <1>4, <1>7 DEF Unlink, name, v, LinkNames
  <2>2. \A u \in Writers, m \in Names :
          dir'[u][m] = IF u = v /\ m = name THEN 0 ELSE dir[u][m]
    BY <1>0, <1>4, <2>1 DEF Types
  <2>3. name * Minute < now - MaxAge[v] /\ name * Minute \in Int /\ name \in Nat
    <3>1. name \in Nat /\ Minute \in Nat
      BY <2>1, RotatingAssumption DEF Names
    <3>2. name * Minute \in Int
      BY <3>1
    <3> QED BY <1>2, <1>4, <1>7, <3>1, <3>2
  <2>4. StampInv'
    BY <1>0, <1>1, <2>2 DEF StampInv
  <2>5. GoneInv'
    <3>1. ASSUME NEW u \in Writers, writer'[u].open
          PROVE  \/ dir'[u][writer'[u].name] = writer'[u].file
                 \/ writer'[u].name * Minute < now' - MaxAge[u]
      <4>1. writer[u].open /\ writer'[u] = writer[u] /\ writer[u].name \in Names
        BY <1>0, <1>1, <3>1 DEF OpenInv
      <4>2. \/ dir[u][writer[u].name] = writer[u].file
            \/ writer[u].name * Minute < now - MaxAge[u]
        BY <1>0, <4>1 DEF GoneInv
      <4> QED BY <1>1, <2>2, <2>3, <4>1, <4>2
    <3> QED BY <3>1 DEF GoneInv
  <2>6. AcceptedWritesKept'
    <3> SUFFICES ASSUME NEW rec \in accepted, now - rec.at <= MaxAge[rec.by] - Span
                 PROVE  Kept(rec)'
      BY <1>1 DEF AcceptedWritesKept, Span
    <3>1. Kept(rec) /\ rec.by \in Writers /\ rec.at \in Nat
      BY <1>0 DEF AcceptedWritesKept, Span, Types, Rec
    <3>2. PICK m \in Names : /\ dir[rec.by][m] # 0
                             /\ \E i \in DOMAIN files[dir[rec.by][m]].recs :
                                  files[dir[rec.by][m]].recs[i] = rec
      BY <3>1 DEF Kept
    <3>3. CASE rec.by # v \/ m # name
      <4>1. dir'[rec.by][m] = dir[rec.by][m]
        BY <2>2, <3>1, <3>3
      <4> QED BY <1>1, <3>2, <4>1 DEF Kept
    <3>4. CASE rec.by = v /\ m = name
      <4> DEFINE f == dir[v][name]
      <4>1. f \in 1..Len(files) /\ files \in Seq(File) /\ Held(v, name, f)
        BY <1>0, <1>4, <2>1, <3>2, <3>4, FieldTypes DEF Types, HeldInv, Held
      <4> HIDE DEF f
      <4>2. Wellkept(v, name, files[f].recs)
        BY <1>0, <1>4, <2>1, <4>1 DEF RecsInv
      <4>3. \E i \in 1..Len(files[f].recs) : files[f].recs[i] = rec
        <5>1. DOMAIN files[f].recs = 1..Len(files[f].recs)
          BY <4>1, FileTypes, LenProperties
        <5> QED BY <3>2, <3>4, <5>1 DEF f
      <4>4. PICK t \in (name * Minute)..((name + 1) * Minute - 1) : Period(t) = Period(rec.at)
        BY <4>2, <4>3 DEF Wellkept
      <4>5. rec.at < name * Minute + Span
        BY <2>3, <3>1, <4>4, SpanBound
      <4>6. Span \in Nat /\ now - rec.at <= MaxAge[v] - Span
        BY <3>4, RotatingAssumption DEF Span, Larger
      <4> DEFINE at == rec.at
                 start == name * Minute
                 age == MaxAge[v]
      <4>7. /\ start < now - age /\ at < start + Span /\ now - at <= age - Span
            /\ at \in Nat /\ start \in Int /\ now \in Nat /\ age \in Nat /\ Span \in Nat
        BY <1>2, <1>4, <2>3, <3>1, <4>5, <4>6
      <4> HIDE DEF at, start, age
      <4> QED BY <4>7
    <3> QED BY <3>3, <3>4
  <2> QED BY <1>5, <2>4, <2>5, <2>6 DEF KeepInv
<1> QED BY <1>6, <1>7

------------------------------------------------------------------------------
(* The invariant.                                                           *)

LEMMA AgesKeep ==
  ASSUME Types, AgesFit, [FitStep]_vars
  PROVE  AgesFit'
<1>1. \A w \in Writers : writer[w] \in WriterState
  BY DEF Types
<1>2. ASSUME NEW w \in Writers, NEW age \in Nat, New(w, age),
             \A v \in Covers[w] : MaxAge[v] <= age
      PROVE  AgesFit'
  <2>1. /\ \A v \in Writers \ {w} : writer'[v] = writer[v]
        /\ writer'[w].age = age
    BY <1>2 DEF New, Types
  <2> QED BY <1>2, <2>1 DEF AgesFit
<1>3. CASE \A w \in Writers : writer'[w].status # "none" =>
             writer[w].status # "none" /\ writer'[w].age = writer[w].age
  BY <1>3 DEF AgesFit
<1>4. CASE UNCHANGED writer
  BY <1>3, <1>4
<1>5. CASE Crash
  BY <1>5 DEF Crash, Absent, AgesFit
<1>6. ASSUME NEW w \in Writers, Close(w)
      PROVE  AgesFit'
  <2>1. \A v \in Writers : writer'[v].status # "none" =>
          writer[v].status # "none" /\ writer'[v].age = writer[v].age
    <3>1. /\ \A v \in Writers \ {w} : writer'[v] = writer[v]
          /\ writer'[w].age = writer[w].age /\ writer[w].status = "open"
      BY <1>1, <1>6 DEF Close, Types, WriterState
    <3> QED BY <3>1
  <2> QED BY <1>3, <2>1
<1>7. ASSUME NEW g \in Goroutines, CallStep(g), call[g].on \in Writers
      PROVE  AgesFit'
  <2> DEFINE w == call[g].on
  <2>1. \/ UNCHANGED writer
        \/ \E k \in Nat : writer' = [writer EXCEPT ![w].size = @ + k]
        \/ writer' = [writer EXCEPT ![w].open = FALSE]
        \/ \E r : /\ writer' = [writer EXCEPT ![w] = r]
                  /\ r.status = writer[w].status /\ r.age = writer[w].age
    <3>1. CASE AppendRecord(g)
      BY <3>1, AppendWrote DEF Wrote
    <3>2. CASE Rotate(g) /\ OpenFile(w, call[g].at, StillOpen(w))
      <4> DEFINE name == MinuteOf(call[g].at)
                 r == [writer[w] EXCEPT !.file = dir'[w][name], !.name = name, !.open = TRUE,
                                        !.size = SizeAt(dir'[w][name]),
                                        !.openedAt = Period(call[g].at)]
      <4>1. writer' = [writer EXCEPT ![w] = r]
        BY <3>2 DEF OpenFile
      <4>2. r.status = writer[w].status /\ r.age = writer[w].age
        BY <1>1, <1>7 DEF WriterState
      <4> HIDE DEF r
      <4> QED BY <4>1, <4>2
    <3>3. CASE Rotate(g) /\ writer' = [writer EXCEPT ![w].open = FALSE]
      BY <3>3
    <3> QED BY <1>7, <3>1, <3>2, <3>3 DEF CallStep, Rotate
  <2>2. /\ \A v \in Writers \ {w} : writer'[v] = writer[v]
        /\ writer'[w].status = writer[w].status /\ writer'[w].age = writer[w].age
    <3>1. writer \in [Writers -> WriterState] /\ writer[w] \in WriterState
      BY <1>1, <1>7 DEF Types
    <3> HIDE DEF w
    <3>2. w \in Writers
      BY <1>7 DEF w
    <3> QED BY <2>1, <3>1, <3>2 DEF WriterState
  <2> QED BY <1>3, <1>7, <2>2
<1>8. ASSUME NEW g \in Goroutines, CallStep(g), call[g].on \notin Writers
      PROVE  AgesFit'
  <2>1. \/ UNCHANGED writer
        \/ \E r : writer' = [writer EXCEPT ![call[g].on] = r]
    BY <1>8 DEF CallStep, Rotate, AppendRecord, OpenFile
  <2>2. UNCHANGED writer
    BY <1>8, <2>1 DEF Types
  <2> QED BY <1>4, <2>2
<1>9. \/ \E w \in Writers, age \in Nat : New(w, age) /\ \A v \in Covers[w] : MaxAge[v] <= age
      \/ \E w \in Writers : Close(w)
      \/ \E g \in Goroutines : CallStep(g)
      \/ Crash
      \/ UNCHANGED writer
  BY DEF FitStep, NewFails, CleanerStep, Stop, List, Examine, Unlink, Enter, Advance, vars,
         memVars
<1> QED BY <1>2, <1>4, <1>5, <1>6, <1>7, <1>8, <1>9

LEMMA KeepStep ==
  ASSUME Nested, AgesFit, RInv, RInv', KeepInv, [Step]_vars
  PROVE  KeepInv'
<1>1. CASE UNCHANGED vars
  <2>1. UNCHANGED <<now, files, dir, writer, ticks, cleaner, accepted>>
    BY <1>1 DEF vars, fileVars, memVars
  <2>2. now \in Nat /\ now <= now /\ Types /\ HeldInv
    BY FieldTypes DEF RInv
  <2>3. AcceptedWritesKept'
    BY <2>1, <2>2, LongerKeeps, SameIsLonger DEF KeepInv
  <2>4. PassInv' /\ StampInv' /\ GoneInv'
    BY <2>1 DEF KeepInv, PassInv, StampInv, GoneInv
  <2> QED BY <2>3, <2>4 DEF KeepInv
<1>2. CASE Step
  BY <1>2, OpenKeeps, PlainKeeps, AppendKeepsFiles, LookingKeeps, UnlinkKeeps
     DEF Step, CallStep, CleanerStep
<1> QED BY <1>1, <1>2

LEMMA KeepInit ==
  ASSUME Init
  PROVE  KeepInv /\ AgesFit
<1>1. PassInv
  BY RestingStates DEF Init, PassInv, PassOf, NoTick
<1>2. StampInv /\ GoneInv
  BY DEF Init, StampInv, GoneInv, Absent
<1>3. AcceptedWritesKept
  BY DEF Init, AcceptedWritesKept
<1>4. AgesFit
  BY DEF Init, AgesFit, Absent
<1> QED BY <1>1, <1>2, <1>3, <1>4 DEF KeepInv

\* Whoever removes the files of v was made with no less than the MaxAge of v: the
\* configuration of rotate_writer.go leaves it to the caller.
Covering == \A w \in Writers : \A v \in Covers[w] : MaxAge[v] <= MaxAge[w]

LEMMA NextIsFit ==
  ASSUME Covering, Next
  PROVE  FitStep
  BY RotatingAssumption DEF Next, FitStep, Covering

\* What the steps of the writers, those of a file hook among them, keep.
LEMMA FitStepKeeps ==
  ASSUME Nested, RInv, AgesFit, KeepInv, [FitStep]_vars
  PROVE  RInv' /\ AgesFit' /\ KeepInv'
<1>1. [Step]_vars
  BY DEF FitStep, Step
<1>2. RInv'
  BY <1>1, StepKeeps
<1>3. AgesFit'
  BY AgesKeep DEF RInv
<1>4. KeepInv'
  BY <1>1, <1>2, KeepStep
<1> QED BY <1>2, <1>3, <1>4

\* An accepted write can be read from a file of its writer for MaxAge less what a file
\* spans, whatever is rotated, removed, closed, lost in a fault or cut short by a crash.
THEOREM AcceptedStayReadable ==
  ASSUME Nested, Covering
  PROVE  Spec => []AcceptedWritesKept
<1>1. Init => RInv /\ AgesFit /\ KeepInv
  BY InitHolds, KeepInit
<1>2. RInv /\ AgesFit /\ KeepInv /\ [Next]_vars => RInv' /\ AgesFit' /\ KeepInv'
  BY NextIsFit, FitStepKeeps
<1>3. KeepInv => AcceptedWritesKept
  BY DEF KeepInv
<1> QED BY <1>1, <1>2, <1>3, PTL DEF Spec
==============================================================================
