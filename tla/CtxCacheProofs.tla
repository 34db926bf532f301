-------------------------- MODULE CtxCacheProofs --------------------------
(***************************************************************************)
(* Proofs about CtxCache, for every number of callers and writes, every    *)
(* clock that does not run backwards and every choice of broken versions:  *)
(* how stale a returned context can be, and that the cache never goes      *)
(* back.                                                                   *)
(***************************************************************************)
EXTENDS CtxCache, TLAPS

\* What exists has been written.
FileOK ==
  /\ present => written > 0
  /\ entry # NULL => entry.version <= written

\* Where g is, and what it may rely on there: the entry cannot change while
\* it has the mutex, the file can.
CallOK(g) ==
  /\ pc[g] # "idle" => started[g] <= written
  /\ pc[g] \in {"created", "reloaded"} =>
       /\ ctx[g] \in Versions /\ ctx[g] \notin Broken
       /\ started[g] <= ctx[g] /\ ctx[g] <= written
  /\ pc[g] \in {"create", "created"} => entry = NULL
  /\ pc[g] \in {"stat", "reload", "reloaded"} => entry # NULL
  /\ pc[g] = "reload" => written > 0 /\ mt[g] <= Mtime[written]
  /\ pc[g] = "reloaded" => mt[g] <= Mtime[ctx[g]] /\ entry.version <= ctx[g]

IInv == TypeOK /\ FileOK /\ NeverAhead /\ \A g \in Callers : CallOK(g)

Body == {"create", "created", "stat", "reload", "reloaded"}

-----------------------------------------------------------------------------
\* Times of versions are ordered, and the file's time is that of a version.
LEMMA Times ==
  ASSUME NEW v \in Versions, NEW w \in Versions
  PROVE  /\ Mtime[v] \in Nat /\ Mtime[w] \in Nat
         /\ v <= w => Mtime[v] <= Mtime[w]
BY MtimeAssumption

LEMMA InitHolds == Init => IInv
<1> SUFFICES ASSUME Init PROVE IInv
  OBVIOUS
<1> USE DEF Init
<1>1. TypeOK
  <2>1. MaxVersion \in Nat /\ 0 \in 0 .. MaxVersion
    BY VersionsAssumption
  <2>2. Failed("none") \in Results
    BY <2>1 DEF Results, Failed
  <2>3. result \in [Callers -> Results]
    BY <2>2
  <2>4. \A g \in Callers : lock # g
    BY NullAssumption
  <2> HIDE DEF Init
  <2>5. /\ pc = [g \in Callers |-> "idle"] /\ ctx = [g \in Callers |-> 0]
        /\ mt = [g \in Callers |-> 0] /\ started = [g \in Callers |-> 0]
        /\ written = 0 /\ present = FALSE /\ lock = NULL /\ entry = NULL /\ torn = FALSE
    BY DEF Init
  <2> QED
    BY <2>1, <2>3, <2>4, <2>5 DEF TypeOK
<1>2. FileOK /\ NeverAhead /\ \A g \in Callers : CallOK(g)
  BY DEF FileOK, NeverAhead, CallOK
<1> QED
  BY <1>1, <1>2 DEF IInv

\* Only the caller that has the mutex is in the body of a call.
LEMMA Alone ==
  ASSUME TypeOK, NEW g \in Callers, pc[g] \in Body, NEW h \in Callers, h # g
  PROVE  pc[h] \notin Body /\ lock = g
BY DEF TypeOK, Body

\* The file is written.
LEMMA WriteHolds ==
  ASSUME IInv, Write
  PROVE  IInv'
<1>0. /\ written \in Nat /\ written + 1 \in Versions /\ written' = written + 1 /\ present'
      /\ UNCHANGED <<lock, entry, pc, ctx, mt, result, started, torn>>
  BY VersionsAssumption DEF Write, IInv, TypeOK, Versions
<1>1. TypeOK'
  BY <1>0 DEF IInv, TypeOK, Versions, Write
<1>2. FileOK' /\ NeverAhead'
  BY <1>0 DEF IInv, TypeOK, FileOK, NeverAhead, Versions
<1>3. ASSUME NEW g \in Callers PROVE CallOK(g)'
  <2>1. CallOK(g) /\ started[g] \in Nat /\ mt[g] \in Nat
    BY DEF IInv, TypeOK
  <2>2. pc[g] = "reload" => mt[g] <= Mtime[written + 1]
    <3> HAVE pc[g] = "reload"
    <3>1. written \in Versions
      <4>1. written > 0
        BY <2>1 DEF CallOK
      <4> QED
        BY <4>1, <1>0, VersionsAssumption DEF Versions
    <3>2. Mtime[written] <= Mtime[written + 1]
          /\ Mtime[written] \in Nat /\ Mtime[written + 1] \in Nat
      BY <3>1, <1>0, Times
    <3> QED
      BY <2>1, <3>2 DEF CallOK
  <2>3. pc[g] \in {"created", "reloaded"} => ctx[g] <= written + 1
    BY <2>1, <1>0 DEF CallOK, Versions
  <2> QED
    BY <2>1, <2>2, <2>3, <1>0 DEF CallOK
<1> QED
  BY <1>1, <1>2, <1>3 DEF IInv

\* A call ends; the entry stays.
LEMMA ReturnHolds ==
  ASSUME IInv, NEW g \in Callers, pc[g] \in Body, NEW r \in Results, Return(g, r),
         UNCHANGED <<file, entry, ctx, mt, started, torn>>
  PROVE  IInv'
<1>0. pc' = [pc EXCEPT ![g] = "idle"] /\ result' = [result EXCEPT ![g] = r] /\ lock' = NULL
  BY DEF Return
<1>1. TypeOK'
  <2>1. \A h \in Callers : lock' = h <=> pc'[h] \in Body
    BY <1>0, NullAssumption, Alone DEF IInv, TypeOK, Body
  <2> QED
    BY <1>0, <2>1 DEF IInv, TypeOK, Body, file
<1>2. FileOK' /\ NeverAhead'
  BY DEF IInv, FileOK, NeverAhead, file
<1>3. ASSUME NEW h \in Callers PROVE CallOK(h)'
  <2>1. CallOK(h)
    BY DEF IInv
  <2>2. pc'[h] = IF h = g THEN "idle" ELSE pc[h]
    BY <1>0 DEF IInv, TypeOK
  <2> QED
    BY <2>1, <2>2 DEF CallOK, file
<1> QED
  BY <1>1, <1>2, <1>3 DEF IInv

\* A call ends with a new entry: a version not older than the entry's.
LEMMA EntryHolds ==
  ASSUME IInv, NEW g \in Callers, pc[g] \in {"created", "reloaded"},
         NEW m \in Nat, entry' = [version |-> ctx[g], mt |-> m],
         torn' \in BOOLEAN, ~torn' => m <= Mtime[ctx[g]],
         Return(g, Loaded(ctx[g], FALSE)), UNCHANGED <<file, ctx, mt, started>>
  PROVE  IInv'
<1>0. pc' = [pc EXCEPT ![g] = "idle"] /\ lock' = NULL
      /\ result' = [result EXCEPT ![g] = Loaded(ctx[g], FALSE)]
  BY DEF Return
<1>1. CallOK(g) /\ ctx[g] \in Versions /\ ctx[g] <= written
  BY DEF IInv, CallOK
<1>2. Loaded(ctx[g], FALSE) \in Results
  BY <1>1, VersionsAssumption DEF Loaded, Results, Versions
<1>3. entry'.version = ctx[g] /\ entry'.mt = m /\ entry' \in [version : Versions, mt : Nat]
  BY <1>1
<1>4. TypeOK'
  <2>1. \A h \in Callers : lock' = h <=> pc'[h] \in Body
    BY <1>0, NullAssumption, Alone DEF IInv, TypeOK, Body
  <2> QED
    BY <1>0, <1>2, <1>3, <2>1 DEF IInv, TypeOK, Body, file
<1>5. FileOK' /\ NeverAhead'
  BY <1>1, <1>3 DEF IInv, FileOK, NeverAhead, file
<1>6. ASSUME NEW h \in Callers PROVE CallOK(h)'
  <2>1. CallOK(h)
    BY DEF IInv
  <2>2. pc'[h] = IF h = g THEN "idle" ELSE pc[h]
    BY <1>0 DEF IInv, TypeOK
  <2>3. h # g => pc[h] \notin Body
    BY Alone DEF IInv, Body
  <2> QED
    BY <2>1, <2>2, <2>3 DEF CallOK, file, Body
<1> QED
  BY <1>4, <1>5, <1>6 DEF IInv

-----------------------------------------------------------------------------
LEMMA CallHolds ==
  ASSUME IInv, NEW g \in Callers, Call(g)
  PROVE  IInv'
<1>0. pc' = [pc EXCEPT ![g] = "lock"] /\ started' = [started EXCEPT ![g] = written]
      /\ UNCHANGED <<file, lock, entry, ctx, mt, result, torn>> /\ pc[g] = "idle"
  BY DEF Call
<1>1. TypeOK'
  BY <1>0 DEF IInv, TypeOK, file
<1>2. FileOK' /\ NeverAhead'
  BY <1>0 DEF IInv, FileOK, NeverAhead, file
<1>3. ASSUME NEW h \in Callers PROVE CallOK(h)'
  <2>1. CallOK(h) /\ written \in Nat
    BY DEF IInv, TypeOK
  <2>2. pc'[h] = (IF h = g THEN "lock" ELSE pc[h])
        /\ started'[h] = (IF h = g THEN written ELSE started[h])
    BY <1>0 DEF IInv, TypeOK
  <2> QED
    BY <2>1, <2>2, <1>0 DEF CallOK, file
<1> QED
  BY <1>1, <1>2, <1>3 DEF IInv

LEMMA EnterHolds ==
  ASSUME IInv, NEW g \in Callers, Enter(g)
  PROVE  IInv'
<1> DEFINE at == IF entry = NULL THEN "create" ELSE "stat"
<1>0. pc[g] = "lock" /\ lock = NULL /\ lock' = g /\ pc' = [pc EXCEPT ![g] = at]
      /\ UNCHANGED <<file, entry, ctx, mt, result, started, torn>>
  BY DEF Enter, LockFree
<1>1. TypeOK'
  <2>1. \A h \in Callers : lock' = h <=> pc'[h] \in Body
    BY <1>0, NullAssumption DEF IInv, TypeOK, Body
  <2> QED
    BY <1>0, <2>1 DEF IInv, TypeOK, Body, file
<1>2. FileOK' /\ NeverAhead'
  BY <1>0 DEF IInv, FileOK, NeverAhead, file
<1>3. ASSUME NEW h \in Callers PROVE CallOK(h)'
  <2>1. CallOK(h)
    BY DEF IInv
  <2>2. pc'[h] = IF h = g THEN at ELSE pc[h]
    BY <1>0 DEF IInv, TypeOK
  <2> QED
    BY <2>1, <2>2, <1>0 DEF CallOK, file
<1> QED
  BY <1>1, <1>2, <1>3 DEF IInv

LEMMA CreateHolds ==
  ASSUME IInv, NEW g \in Callers, Create(g)
  PROVE  IInv'
<1> DEFINE at == IF pc[g] = "create" THEN "created" ELSE "reloaded"
<1>0. pc[g] \in {"create", "reload"} /\ present /\ written \notin Broken
      /\ ctx' = [ctx EXCEPT ![g] = written] /\ pc' = [pc EXCEPT ![g] = at]
      /\ UNCHANGED <<file, lock, entry, mt, result, started, torn>>
  BY DEF Create, Loadable
<1>1. written \in Versions
  BY <1>0, VersionsAssumption DEF IInv, TypeOK, FileOK, Versions
<1>2. TypeOK'
  BY <1>0, <1>1 DEF IInv, TypeOK, file
<1>3. FileOK' /\ NeverAhead'
  BY <1>0 DEF IInv, FileOK, NeverAhead, file
<1>4. ASSUME NEW h \in Callers PROVE CallOK(h)'
  <2>1. CallOK(h) /\ FileOK
    BY DEF IInv
  <2>2. pc'[h] = (IF h = g THEN at ELSE pc[h])
        /\ ctx'[h] = (IF h = g THEN written ELSE ctx[h])
    BY <1>0 DEF IInv, TypeOK
  <2>3. written \in Nat
    BY <1>1 DEF Versions
  <2> QED
    BY <2>1, <2>2, <2>3, <1>0, <1>1 DEF CallOK, FileOK, file
<1> QED
  BY <1>2, <1>3, <1>4 DEF IInv

LEMMA MissHolds ==
  ASSUME IInv, NEW g \in Callers, Miss(g)
  PROVE  IInv'
<1>0. pc[g] = "stat" /\ present /\ mt' = [mt EXCEPT ![g] = Mtime[written]]
      /\ pc' = [pc EXCEPT ![g] = "reload"]
      /\ UNCHANGED <<file, lock, entry, ctx, result, started, torn>>
  BY DEF Miss
<1>1. written \in Versions
  BY <1>0, VersionsAssumption DEF IInv, TypeOK, FileOK, Versions
<1>2. Mtime[written] \in Nat
  BY <1>1, Times
<1>3. TypeOK'
  BY <1>0, <1>2 DEF IInv, TypeOK, file
<1>4. FileOK' /\ NeverAhead'
  BY <1>0 DEF IInv, FileOK, NeverAhead, file
<1>5. ASSUME NEW h \in Callers PROVE CallOK(h)'
  <2>1. CallOK(h) /\ FileOK
    BY DEF IInv
  <2>2. pc'[h] = (IF h = g THEN "reload" ELSE pc[h])
        /\ mt'[h] = (IF h = g THEN Mtime[written] ELSE mt[h])
    BY <1>0 DEF IInv, TypeOK
  <2> QED
    BY <2>1, <2>2, <1>0, <1>2 DEF CallOK, FileOK, file
<1> QED
  BY <1>3, <1>4, <1>5 DEF IInv

LEMMA StepHolds == IInv /\ [Next]_vars => IInv'
<1> SUFFICES ASSUME IInv, [Next]_vars PROVE IInv'
  OBVIOUS
<1>1. CASE Write
  BY <1>1, WriteHolds
<1>2. CASE Remove \/ UNCHANGED vars
  <2>1. TypeOK'
    BY <1>2 DEF IInv, TypeOK, Remove, vars
  <2>2. FileOK' /\ NeverAhead'
    BY <1>2 DEF IInv, FileOK, NeverAhead, Remove, vars
  <2>3. \A g \in Callers : CallOK(g)'
    BY <1>2 DEF IInv, CallOK, Remove, vars
  <2> QED
    BY <2>1, <2>2, <2>3 DEF IInv
<1>3. ASSUME NEW g \in Callers, Call(g) PROVE IInv'
  BY <1>3, CallHolds
<1>4. ASSUME NEW g \in Callers, Enter(g) PROVE IInv'
  BY <1>4, EnterHolds
<1>5. ASSUME NEW g \in Callers, Step(g) PROVE IInv'
  <2>1. CASE CreateFails(g) \/ StatPanics(g) \/ StatFails(g)
    <3>1. \A k \in {"error", "panic"} : Failed(k) \in Results
      BY VersionsAssumption DEF Failed, Results
    <3> QED
      BY <2>1, <3>1, ReturnHolds DEF CreateFails, StatPanics, StatFails, Body
  <2>2. CASE Hit(g)
    <3>1. entry # NULL /\ entry \in [version : Versions, mt : Nat]
      BY <2>2 DEF Hit, IInv, CallOK, TypeOK
    <3>2. Loaded(entry.version, TRUE) \in Results
      BY <3>1, VersionsAssumption DEF Loaded, Results, Versions
    <3> QED
      BY <2>2, <3>2, ReturnHolds DEF Hit, Body
  <2>3. CASE Update(g)
    <3>1. mt[g] \in Nat /\ mt[g] <= Mtime[ctx[g]]
      BY <2>3 DEF Update, IInv, CallOK, TypeOK
    <3> QED
      BY <2>3, <3>1, EntryHolds DEF Update, ReloadMt
  <2>4. CASE Store(g)
    <3>1. written \in Versions
      BY <2>4, VersionsAssumption DEF Store, IInv, TypeOK, FileOK, Versions
    <3>2. Mtime[written] \in Nat
      BY <3>1, Times
    <3>3. torn' = (ctx[g] # written)
      BY <2>4 DEF Store
    <3>4. ~torn' => ctx[g] = written
      BY <3>3, Zenon
    <3>5. torn' \in BOOLEAN
      BY <3>3, Zenon
    <3>6. ~torn' => Mtime[written] <= Mtime[ctx[g]]
      BY <3>2, <3>4
    <3> QED
      BY <2>4, <3>2, <3>5, <3>6, EntryHolds DEF Store
  <2>5. CASE Create(g)
    BY <2>5, CreateHolds
  <2>6. CASE Miss(g)
    BY <2>6, MissHolds
  <2> QED
    BY <1>5, <2>1, <2>2, <2>3, <2>4, <2>5, <2>6 DEF Step
<1> QED
  BY <1>1, <1>2, <1>3, <1>4, <1>5 DEF Next

-----------------------------------------------------------------------------
\* The inductive invariant holds in every reachable state.
THEOREM Invariant == Spec => []IInv
<1>1. Init => IInv
  BY InitHolds
<1>2. IInv /\ [Next]_vars => IInv'
  BY StepHolds
<1> QED
  BY <1>1, <1>2, PTL DEF Spec

\* Types, and the mutex of LoadFileFromCache is held exactly over the body
\* of a call.
THEOREM TypeCorrect == Spec => []TypeOK
<1>1. IInv => TypeOK
  BY DEF IInv
<1> QED
  BY <1>1, Invariant, PTL

\* An entry that is not torn never carries a time later than its content's,
\* so that a later change is still to be seen (jsC.mt in helper.go).
THEOREM TimesHonest == Spec => []NeverAhead
<1>1. IInv => NeverAhead
  BY DEF IInv
<1> QED
  BY <1>1, Invariant, PTL

\* Only Update and Store change the entry.
LEMMA EntryChanges ==
  ASSUME IInv, [Next]_vars, entry' # entry
  PROVE  \E g \in Callers : Update(g) \/ Store(g)
<1>1. Next
  BY DEF vars
<1> QED
  BY <1>1 DEF Next, Write, Remove, Call, Enter, Step, CreateFails, Create, StatPanics,
              StatFails, Hit, Miss, Return

\* The cached version never goes back, and a load that fails leaves the entry
\* as it was, whoever else loads and writes meanwhile.
THEOREM NeverBack == Spec => NoStepBack
<1> DEFINE Act == entry' # entry =>
               /\ entry = NULL \/ entry'.version >= entry.version
               /\ entry'.version \notin Broken
               /\ \E g \in Callers : result'[g] = Loaded(entry'.version, FALSE)
<1>1. IInv /\ [Next]_vars => [Act]_vars
  <2> SUFFICES ASSUME IInv, [Next]_vars, entry' # entry PROVE Act
    OBVIOUS
  <2>1. PICK g \in Callers : Update(g) \/ Store(g)
    BY EntryChanges
  <2>2. entry'.version = ctx[g] /\ pc[g] \in {"created", "reloaded"}
        /\ result' = [result EXCEPT ![g] = Loaded(ctx[g], FALSE)]
    <3>1. CASE Update(g)
      BY <3>1 DEF Update, Return
    <3>2. CASE Store(g)
      BY <3>2 DEF Store, Return
    <3> QED
      BY <2>1, <3>1, <3>2
  <2>3. CallOK(g) /\ result'[g] = Loaded(entry'.version, FALSE)
    BY <2>2 DEF IInv, TypeOK
  <2>4. entry # NULL => entry.version \in Nat /\ ctx[g] \in Nat
    BY <2>2, <2>3 DEF IInv, TypeOK, Versions, CallOK
  <2> QED
    BY <2>2, <2>3, <2>4 DEF CallOK
<1> QED
  BY <1>1, Invariant, PTL DEF Spec, NoStepBack

\* What a hit returns is as old as the call's start allows: its time is that
\* of the file, so it can only have been replaced within one tick.
LEMMA HitIsFresh ==
  ASSUME IInv, NEW g \in Callers, Hit(g), ~torn
  PROVE  LET v == entry.version IN
         v >= started[g] \/ (v > 0 /\ Mtime[v] = Mtime[started[g]])
<1> DEFINE v == entry.version
           s == started[g]
<1>1. pc[g] = "stat" /\ present /\ entry.mt = Mtime[written]
  BY DEF Hit
<1>2. entry # NULL /\ v \in Versions /\ entry.mt \in Nat /\ v <= written
  BY <1>1 DEF IInv, CallOK, TypeOK, FileOK
<1>3. written \in Versions /\ s <= written /\ s \in Nat
  BY <1>1, VersionsAssumption DEF IInv, TypeOK, FileOK, CallOK, Versions
<1>4. Mtime[written] <= Mtime[v] /\ Mtime[v] <= Mtime[written]
  BY <1>1, <1>2, <1>3, Times DEF IInv, NeverAhead
<1>5. CASE v < s
  <2>1. s \in Versions
    <3>1. v \in Nat /\ written \in Nat /\ written <= MaxVersion /\ MaxVersion \in Nat /\ v > 0
      BY <1>2, <1>3, VersionsAssumption DEF Versions
    <3>2. s > 0 /\ s <= MaxVersion
      BY <3>1, <1>3, <1>5
    <3> HIDE DEF s, v
    <3> QED
      BY <3>2, <1>3, <3>1 DEF Versions
  <2>2. v <= s /\ v > 0
    BY <1>2, <1>3, <1>5 DEF Versions
  <2>3. Mtime[v] <= Mtime[s] /\ Mtime[s] <= Mtime[written]
    BY <1>2, <1>3, <2>1, <2>2, Times
  <2>4. Mtime[v] \in Nat /\ Mtime[s] \in Nat /\ Mtime[written] \in Nat
    BY <1>2, <1>3, <2>1, Times
  <2> QED
    BY <1>4, <2>2, <2>3, <2>4
<1>6. CASE v >= s
  BY <1>6
<1> QED
  BY <1>2, <1>3, <1>5, <1>6 DEF Versions

\* A call returns a context that had been replaced when it started only if
\* the entry is torn or the replacing writes fall into one tick of the file
\* system's clock.
THEOREM BoundedStaleness == Spec => Regular
<1> DEFINE Good(g) == LET w == result'[g].version IN
                      \/ w >= started[g]
                      \/ torn /\ result'[g].existing
                      \/ w > 0 /\ Mtime[w] = Mtime[started[g]]
           Act == \A g \in Callers :
                    pc[g] # "idle" /\ pc'[g] = "idle" /\ result'[g].kind = "ctx" => Good(g)
<1>1. IInv /\ [Next]_vars => [Act]_vars
  <2> SUFFICES ASSUME IInv, [Next]_vars, NEW g \in Callers,
                      pc[g] # "idle", pc'[g] = "idle", result'[g].kind = "ctx"
               PROVE  Good(g)
    OBVIOUS
  <2>1. Hit(g) \/ Update(g) \/ Store(g)
    <3>1. PICK h \in Callers : Call(h) \/ Enter(h) \/ Step(h)
      BY DEF Next, Write, Remove, vars
    <3>2. h = g /\ Step(g)
      BY <3>1 DEF Call, Enter, Step, CreateFails, Create, Update, StatPanics, Store,
                  StatFails, Hit, Miss, Return, IInv, TypeOK
    <3>3. ~(CreateFails(g) \/ StatPanics(g) \/ StatFails(g))
      BY DEF CreateFails, StatPanics, StatFails, Return, Failed, IInv, TypeOK
    <3>4. ~(Create(g) \/ Miss(g))
      BY DEF Create, Miss, IInv, TypeOK
    <3> QED
      BY <3>2, <3>3, <3>4 DEF Step
  <2>2. CASE Update(g) \/ Store(g)
    <3>1. result'[g] = Loaded(ctx[g], FALSE) /\ pc[g] \in {"created", "reloaded"}
      BY <2>2 DEF Update, Store, Return, IInv, TypeOK
    <3>2. CallOK(g) /\ started[g] \in Nat /\ ctx[g] \in Nat
      BY <3>1 DEF IInv, TypeOK
    <3> QED
      BY <3>1, <3>2 DEF CallOK, Loaded
  <2>3. CASE Hit(g)
    <3>1. result'[g] = Loaded(entry.version, TRUE)
      BY <2>3 DEF Hit, Return, IInv, TypeOK
    <3> QED
      BY <2>3, <3>1, HitIsFresh DEF Loaded
  <2> QED
    BY <2>1, <2>2, <2>3
<1> QED
  BY <1>1, Invariant, PTL DEF Spec, Regular
=============================================================================
