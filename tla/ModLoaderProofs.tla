-------------------------- MODULE ModLoaderProofs --------------------------
(***************************************************************************)
(* Proofs about the two halves of the module loader.                       *)
(*                                                                         *)
(* ModLoader, for every set of ids and files and every bound on loads:     *)
(* however requires nest, fail and are retried while files change, no      *)
(* module is loaded inside its own load, none stays half loaded, and at    *)
(* most one load of it succeeds.                                           *)
(*                                                                         *)
(* ResolveId, for every alphabet, every set of names and every length of   *)
(* ids: the pass over the buffer never overtakes what it has still to read *)
(* and computes the meaning of the id.  The invariant lays the terms that  *)
(* are still ahead over the buffer and relates the text before q to the    *)
(* fold of the terms behind.  The recursive functions of the library under *)
(* both (FlattenSeq's, FoldLeft's) are unfolded one step at a time, by     *)
(* looking at the least number for which that would fail.                  *)
(***************************************************************************)
EXTENDS ModLoader, ResolveId, SequenceTheorems, FiniteSetTheorems, WellFoundedInduction, TLAPS

\* What the entry of a load under way is: its own table, and no load of the
\* id has succeeded before.
LoadsOpen ==
  \A k \in 1 .. Len(stack) :
    /\ modLoaded[stack[k].id] = stack[k].load
    /\ finished[stack[k].id] = {}

IInv == TypeOK /\ NoNestedLoad /\ LoadsOpen /\ NoHalfLoaded /\ OneInstance

-----------------------------------------------------------------------------
\* The innermost load, and the loads below it.
LEMMA StackTop ==
  ASSUME TypeOK, stack # <<>>
  PROVE  /\ Len(stack) \in Nat \ {0} /\ Top \in Frames
         /\ Below \in Seq(Frames) /\ Len(Below) = Len(stack) - 1
         /\ \A k \in 1 .. Len(stack) - 1 : Below[k] = stack[k]
<1>1. stack \in Seq(Frames) /\ Len(stack) \in Nat /\ Len(stack) # 0
  BY DEF TypeOK
<1>2. Top \in Frames
  BY <1>1 DEF Top
<1>3. \A k \in 1 .. Len(stack) - 1 : stack[k] \in Frames
  BY <1>1
<1>4. Below \in Seq(Frames) /\ Len(Below) = Len(stack) - 1
  <2> DEFINE n == Len(stack) - 1
  <2>1. n \in Nat
    BY <1>1
  <2>2. \A i \in 1 .. n : stack[i] \in Frames
    BY <1>3
  <2>3. SubSeq(stack, 1, n) \in Seq(Frames)
        /\ Len(SubSeq(stack, 1, n)) = IF 1 <= n THEN n - 1 + 1 ELSE 0
    <3> HIDE DEF n
    <3> QED
      BY <2>1, <2>2, SubSeqProperties
  <2>4. Len(SubSeq(stack, 1, n)) = n
    <3> HIDE DEF n
    <3> QED
      BY <2>1, <2>3
  <2> QED
    BY <2>3, <2>4 DEF Below
<1>5. \A k \in 1 .. Len(stack) - 1 : Below[k] = stack[k]
  BY <1>1 DEF Below
<1> QED
  BY <1>1, <1>2, <1>4, <1>5

\* An id that is not registered has no load under way and none that has
\* succeeded.
LEMMA Unregistered ==
  ASSUME IInv, NEW m \in Ids, ~Cached(m)
  PROVE  ~OnStack(m) /\ finished[m] = {}
<1>1. modLoaded[m] = 0
  BY DEF Cached
<1>2. \A k \in 1 .. Len(stack) : stack[k] \in Frames
  BY DEF IInv, TypeOK
<1>3. \A k \in 1 .. Len(stack) : stack[k].load # 0
  BY <1>2 DEF Frames, Loads
<1>4. ~OnStack(m)
  BY <1>1, <1>3 DEF IInv, OnStack, LoadsOpen
<1>5. \A i \in finished[m] : i \in Loads /\ i = 0
  BY <1>1 DEF IInv, TypeOK, OneInstance
<1> QED
  BY <1>4, <1>5 DEF Loads

-----------------------------------------------------------------------------
\* The invariant holds of the first state.
LEMMA InitHolds == Init => IInv
<1> SUFFICES ASSUME Init PROVE IInv
  OBVIOUS
<1> USE DEF Init, NotLoaded, Never
<1>1. TypeOK
  BY MaxLoadsAssumption DEF TypeOK, Frames, Loads
<1>2. NoNestedLoad /\ LoadsOpen /\ NoHalfLoaded /\ OneInstance
  BY DEF NoNestedLoad, LoadsOpen, NoHalfLoaded, OneInstance, OnStack
<1> QED
  BY <1>1, <1>2 DEF IInv

\* A new load goes on the stack of loads, its id registered.
LEMMA NewLoad ==
  ASSUME IInv, NEW m \in Ids, RequireNew(m)
  PROVE  IInv'
<1> DEFINE frame == [id |-> m, load |-> loads[m] + 1, stage |-> "search"]
<1>0. modLoaded' = [modLoaded EXCEPT ![m] = loads[m] + 1]
      /\ stack' = Append(stack, frame) /\ loads' = [loads EXCEPT ![m] = @ + 1]
      /\ UNCHANGED <<source, finished, seen>>
  BY DEF RequireNew, IInv, TypeOK
<1>1. ~OnStack(m) /\ finished[m] = {}
  BY Unregistered DEF RequireNew
<1>2. loads[m] + 1 \in Loads
  BY MaxLoadsAssumption DEF IInv, TypeOK, Loads, RequireNew
<1>3. frame \in Frames
  BY <1>2 DEF Frames
<1>4. /\ stack' \in Seq(Frames) /\ Len(stack') = Len(stack) + 1
      /\ stack'[Len(stack) + 1] = frame
      /\ \A k \in 1 .. Len(stack) : stack'[k] = stack[k] /\ stack[k] \in Frames
      /\ Len(stack) \in Nat
  BY <1>0, <1>3 DEF IInv, TypeOK
<1>5. \A k \in 1 .. Len(stack) : stack[k].id # m
  BY <1>1 DEF OnStack
<1>6. TypeOK'
  <2>1. \A k \in 1 .. Len(stack') - 1 : stack'[k].stage = "body"
    <3> SUFFICES ASSUME NEW k \in 1 .. Len(stack) PROVE stack[k].stage = "body"
      BY <1>4
    <3>1. CASE k < Len(stack)
      BY <3>1, <1>4 DEF IInv, TypeOK
    <3>2. CASE k = Len(stack)
      BY <3>2, <1>4 DEF RequireNew, ScriptRuns, Searching, Top, Frames
    <3> QED
      BY <3>1, <3>2, <1>4
  <2> QED
    BY <2>1, <1>0, <1>2, <1>4 DEF IInv, TypeOK, Loads
<1>7. NoNestedLoad'
  BY <1>4, <1>5 DEF IInv, NoNestedLoad
<1>8. LoadsOpen'
  <2> SUFFICES ASSUME NEW k \in 1 .. Len(stack')
               PROVE  /\ modLoaded'[stack'[k].id] = stack'[k].load
                      /\ finished'[stack'[k].id] = {}
    BY DEF LoadsOpen
  <2>1. CASE k = Len(stack) + 1
    BY <2>1, <1>0, <1>1, <1>4 DEF IInv, TypeOK
  <2>2. CASE k # Len(stack) + 1
    <3>1. k \in 1 .. Len(stack) /\ stack'[k] = stack[k] /\ stack[k].id \in Ids
          /\ stack[k].id # m
      BY <2>2, <1>4, <1>5 DEF Frames
    <3>2. modLoaded[stack[k].id] = stack[k].load /\ finished[stack[k].id] = {}
      BY <3>1 DEF IInv, LoadsOpen
    <3> QED
      BY <3>1, <3>2, <1>0 DEF IInv, TypeOK
  <2> QED
    BY <2>1, <2>2
<1>9. NoHalfLoaded'
  <2> SUFFICES ASSUME NEW n \in Ids
               PROVE  /\ OnStack(n)' => \E k \in 1 .. Len(stack') :
                            stack'[k].id = n /\ stack'[k].load = modLoaded'[n]
                      /\ ~OnStack(n)' => modLoaded'[n] \in finished'[n] \cup {0}
    BY DEF NoHalfLoaded
  <2>1. CASE n = m
    BY <2>1, <1>0, <1>4 DEF IInv, TypeOK, OnStack
  <2>2. CASE n # m
    <3>1. OnStack(n)' <=> OnStack(n)
      BY <2>2, <1>4 DEF OnStack
    <3>2. modLoaded'[n] = modLoaded[n] /\ finished'[n] = finished[n]
      BY <2>2, <1>0 DEF IInv, TypeOK
    <3> QED
      BY <3>1, <3>2, <1>4 DEF IInv, NoHalfLoaded
  <2> QED
    BY <2>1, <2>2
<1>10. OneInstance'
  BY <1>0, <1>1 DEF IInv, TypeOK, OneInstance
<1> QED
  BY <1>6, <1>7, <1>8, <1>9, <1>10 DEF IInv

\* The innermost load succeeds.
LEMMA LoadReturns ==
  ASSUME IInv, stack # <<>>, ReturnExports
  PROVE  IInv'
<1>1. /\ Len(stack) \in Nat \ {0} /\ Top \in Frames /\ Top = stack[Len(stack)]
      /\ Below \in Seq(Frames) /\ Len(Below) = Len(stack) - 1
      /\ \A k \in 1 .. Len(stack) - 1 : Below[k] = stack[k]
  BY StackTop DEF IInv, Top
<1>2. /\ stack' = Below /\ modLoaded' = modLoaded /\ loads' = loads /\ source' = source
      /\ finished' = [finished EXCEPT ![Top.id] = @ \cup {Top.load}]
      /\ seen' = [seen EXCEPT ![Top.id] = @ \cup {Top.load}]
  BY DEF ReturnExports
<1>3. Top.id \in Ids /\ Top.load \in Loads
  BY <1>1 DEF Frames
<1>4. modLoaded[Top.id] = Top.load /\ finished[Top.id] = {}
  <2>1. Len(stack) \in 1 .. Len(stack)
    BY <1>1
  <2> QED
    BY <1>1, <2>1 DEF IInv, LoadsOpen
<1>5. \A k \in 1 .. Len(stack') : stack'[k] = stack[k] /\ stack[k].id # Top.id
  BY <1>1, <1>2 DEF IInv, NoNestedLoad
<1>6. TypeOK'
  BY <1>1, <1>2, <1>3, <1>5 DEF IInv, TypeOK
<1>7. NoNestedLoad'
  BY <1>1, <1>2, <1>5 DEF IInv, NoNestedLoad
<1>8. LoadsOpen'
  <2> SUFFICES ASSUME NEW k \in 1 .. Len(stack')
               PROVE  modLoaded'[stack'[k].id] = stack'[k].load /\ finished'[stack'[k].id] = {}
    BY DEF LoadsOpen
  <2>1. k \in 1 .. Len(stack) /\ stack'[k] = stack[k] /\ stack[k].id # Top.id
    BY <1>1, <1>2, <1>5
  <2>2. stack[k] \in Frames
    BY <2>1 DEF IInv, TypeOK
  <2>3. stack[k].id \in Ids
    BY <2>2 DEF Frames
  <2> QED
    BY <2>1, <2>3, <1>2 DEF IInv, TypeOK, LoadsOpen
<1>9. NoHalfLoaded'
  <2> SUFFICES ASSUME NEW n \in Ids
               PROVE  /\ OnStack(n)' => \E k \in 1 .. Len(stack') :
                            stack'[k].id = n /\ stack'[k].load = modLoaded'[n]
                      /\ ~OnStack(n)' => modLoaded'[n] \in finished'[n] \cup {0}
    BY DEF NoHalfLoaded
  <2>1. OnStack(n)' => \E k \in 1 .. Len(stack') :
            stack'[k].id = n /\ stack'[k].load = modLoaded'[n]
    BY <1>1, <1>2, <1>5 DEF IInv, LoadsOpen, OnStack
  <2>2. CASE n = Top.id
    BY <2>1, <2>2, <1>2, <1>3, <1>4 DEF IInv, TypeOK
  <2>3. CASE n # Top.id
    <3>1. OnStack(n) => OnStack(n)'
      BY <2>3, <1>1, <1>2, <1>5 DEF OnStack
    <3> QED
      BY <2>1, <2>3, <3>1, <1>2 DEF IInv, TypeOK, NoHalfLoaded
  <2> QED
    BY <2>2, <2>3
<1>10. OneInstance'
  BY <1>2, <1>3, <1>4 DEF IInv, TypeOK, OneInstance
<1> QED
  BY <1>6, <1>7, <1>8, <1>9, <1>10 DEF IInv

\* The innermost load fails.
LEMMA Forgotten ==
  ASSUME IInv, stack # <<>>, DeleteRethrow
  PROVE  IInv'
<1>1. /\ Len(stack) \in Nat \ {0} /\ Top \in Frames /\ Top = stack[Len(stack)]
      /\ Below \in Seq(Frames) /\ Len(Below) = Len(stack) - 1
      /\ \A k \in 1 .. Len(stack) - 1 : Below[k] = stack[k]
  BY StackTop DEF IInv, Top
<1>2. /\ stack' = Below /\ modLoaded' = [modLoaded EXCEPT ![Top.id] = 0]
      /\ UNCHANGED <<source, loads, finished, seen>>
  BY DEF DeleteRethrow, DeleteEntry
<1>3. Top.id \in Ids /\ finished[Top.id] = {}
  <2>1. Len(stack) \in 1 .. Len(stack)
    BY <1>1
  <2>2. Top.id \in Ids
    BY <1>1 DEF Frames
  <2> QED
    BY <1>1, <2>1, <2>2 DEF IInv, LoadsOpen
<1>4. \A k \in 1 .. Len(stack) : stack[k] \in Frames
  BY DEF IInv, TypeOK
<1>5. \A k \in 1 .. Len(stack') : stack'[k] = stack[k] /\ stack[k].id # Top.id
                                   /\ stack[k].id \in Ids
  BY <1>1, <1>2, <1>4 DEF IInv, NoNestedLoad, Frames
<1>6. TypeOK'
  BY <1>1, <1>2, <1>3, <1>5, MaxLoadsAssumption DEF IInv, TypeOK
<1>7. NoNestedLoad'
  BY <1>1, <1>2, <1>5 DEF IInv, NoNestedLoad
<1>8. LoadsOpen'
  <2> SUFFICES ASSUME NEW k \in 1 .. Len(stack')
               PROVE  /\ modLoaded'[stack'[k].id] = stack'[k].load
                      /\ finished'[stack'[k].id] = {}
    BY DEF LoadsOpen
  <2>1. k \in 1 .. Len(stack) /\ stack'[k] = stack[k] /\ stack[k].id # Top.id
        /\ stack[k].id \in Ids
    BY <1>1, <1>2, <1>5
  <2>2. modLoaded[stack[k].id] = stack[k].load /\ finished[stack[k].id] = {}
    BY <2>1 DEF IInv, LoadsOpen
  <2>3. modLoaded'[stack[k].id] = modLoaded[stack[k].id]
    BY <2>1, <1>2 DEF IInv, TypeOK
  <2> QED
    BY <2>1, <2>2, <2>3, <1>2
<1>9. NoHalfLoaded'
  <2> SUFFICES ASSUME NEW n \in Ids
               PROVE  /\ OnStack(n)' => \E k \in 1 .. Len(stack') :
                            stack'[k].id = n /\ stack'[k].load = modLoaded'[n]
                      /\ ~OnStack(n)' => modLoaded'[n] \in finished'[n] \cup {0}
    BY DEF NoHalfLoaded
  <2>1. OnStack(n)' => \E k \in 1 .. Len(stack') :
            stack'[k].id = n /\ stack'[k].load = modLoaded'[n]
    BY <1>8 DEF LoadsOpen, OnStack
  <2>2. CASE n = Top.id
    BY <2>1, <2>2, <1>2, <1>3 DEF IInv, TypeOK
  <2>3. CASE n # Top.id
    <3>1. OnStack(n) => OnStack(n)'
      BY <2>3, <1>1, <1>2, <1>5 DEF OnStack
    <3> QED
      BY <2>1, <2>3, <3>1, <1>2 DEF IInv, TypeOK, NoHalfLoaded
  <2> QED
    BY <2>2, <2>3
<1>10. OneInstance'
  BY <1>2, <1>3 DEF IInv, TypeOK, OneInstance
<1> QED
  BY <1>6, <1>7, <1>8, <1>9, <1>10 DEF IInv

\* The module's text has compiled: its body begins.
LEMMA Entered ==
  ASSUME IInv, Enter
  PROVE  IInv'
<1>1. stack # <<>>
  BY DEF Enter, Searching
<1>2. /\ Len(stack) \in Nat \ {0} /\ Top \in Frames /\ Top = stack[Len(stack)]
      /\ Below \in Seq(Frames) /\ Len(Below) = Len(stack) - 1
      /\ \A k \in 1 .. Len(stack) - 1 : Below[k] = stack[k]
  BY <1>1, StackTop DEF IInv, Top
<1>3. [Top EXCEPT !.stage = "body"] \in Frames
      /\ [Top EXCEPT !.stage = "body"].id = Top.id
      /\ [Top EXCEPT !.stage = "body"].load = Top.load
      /\ [Top EXCEPT !.stage = "body"].stage = "body"
  BY <1>2 DEF Frames
<1>4. /\ stack' \in Seq(Frames) /\ Len(stack') = Len(stack)
      /\ \A k \in 1 .. Len(stack) :
           stack'[k].id = stack[k].id /\ stack'[k].load = stack[k].load
      /\ \A k \in 1 .. Len(stack) - 1 : stack'[k] = stack[k]
      /\ UNCHANGED <<source, modLoaded, loads, finished, seen>>
  BY <1>2, <1>3 DEF Enter
<1>5. TypeOK'
  BY <1>2, <1>4 DEF IInv, TypeOK
<1>6. \A m \in Ids : OnStack(m)' <=> OnStack(m)
  BY <1>4 DEF OnStack
<1>7. NoNestedLoad'
  BY <1>4 DEF IInv, NoNestedLoad
<1>7a. LoadsOpen'
  BY <1>4 DEF IInv, LoadsOpen
<1>7b. OneInstance'
  BY <1>4 DEF IInv, OneInstance
<1>8. NoHalfLoaded'
  BY <1>4, <1>6 DEF IInv, NoHalfLoaded
<1> QED
  BY <1>5, <1>7, <1>7a, <1>7b, <1>8 DEF IInv

\* Every step keeps the invariant.
LEMMA StepHolds == IInv /\ [Next]_vars => IInv'
<1> SUFFICES ASSUME IInv, [Next]_vars PROVE IInv'
  OBVIOUS
<1>1. CASE \E f \in Files, s \in {"missing", "broken", "script"} : Edit(f, s)
  <2> PICK f \in Files, s \in {"missing", "broken", "script"} : Edit(f, s)
    BY <1>1
  <2>1. TypeOK'
    BY DEF IInv, TypeOK, Edit
  <2>2. NoNestedLoad' /\ LoadsOpen' /\ NoHalfLoaded' /\ OneInstance'
    BY DEF IInv, NoNestedLoad, LoadsOpen, NoHalfLoaded, OneInstance, OnStack, Edit
  <2> QED
    BY <2>1, <2>2 DEF IInv
<1>2. CASE \E m \in Ids : RequireCached(m)
  <2> PICK m \in Ids : RequireCached(m)
    BY <1>2
  <2>0. modLoaded[m] \in Loads
    BY MaxLoadsAssumption DEF RequireCached, Cached, IInv, TypeOK, Loads
  <2>1. TypeOK'
    BY <2>0 DEF IInv, TypeOK, RequireCached
  <2>2. NoNestedLoad' /\ LoadsOpen' /\ NoHalfLoaded'
    BY DEF IInv, NoNestedLoad, LoadsOpen, NoHalfLoaded, OnStack, RequireCached
  <2>3. OneInstance'
    BY DEF IInv, TypeOK, OneInstance, RequireCached
  <2> QED
    BY <2>1, <2>2, <2>3 DEF IInv
<1>3. CASE \E m \in Ids : RequireNew(m)
  BY <1>3, NewLoad
<1>4. CASE SearchMisses \/ BodyReturns
  BY <1>4, LoadReturns DEF SearchMisses, BodyReturns, Searching, InBody
<1>5. CASE CompileFails \/ BodyThrows
  BY <1>5, Forgotten DEF CompileFails, BodyThrows, Searching, InBody
<1>6. CASE Enter
  BY <1>6, Entered
<1>7. CASE UNCHANGED vars
  <2>1. TypeOK'
    BY <1>7 DEF IInv, TypeOK, vars
  <2>2. NoNestedLoad' /\ LoadsOpen' /\ NoHalfLoaded' /\ OneInstance'
    BY <1>7 DEF IInv, NoNestedLoad, LoadsOpen, NoHalfLoaded, OneInstance, OnStack, vars
  <2> QED
    BY <2>1, <2>2 DEF IInv
<1> QED
  BY <1>1, <1>2, <1>3, <1>4, <1>5, <1>6, <1>7 DEF Next

-----------------------------------------------------------------------------
\* The inductive invariant holds in every reachable state.
THEOREM Invariant == Spec => []IInv
<1>1. Init => IInv
  BY InitHolds
<1>2. IInv /\ [Next]_vars => IInv'
  BY StepHolds
<1> QED
  BY <1>1, <1>2, PTL DEF Spec

\* Types of the loader's state (duk__require); only the innermost load can
\* still be searching.
THEOREM TypeCorrect == Spec => []TypeOK
<1>1. IInv => TypeOK
  BY DEF IInv
<1> QED
  BY <1>1, Invariant, PTL

\* Circular requires, of any length, end: no module is loaded inside its own
\* load (the early registration of duk__require).
THEOREM CyclesEnd == Spec => []NoNestedLoad
<1>1. IInv => NoNestedLoad
  BY DEF IInv
<1> QED
  BY <1>1, Invariant, PTL

\* A load that fails, at any depth of nested requires, leaves no entry in
\* modLoaded (delete_rethrow of duk__require).
THEOREM FailuresForgotten == Spec => []NoHalfLoaded
<1>1. IInv => NoHalfLoaded
  BY DEF IInv
<1> QED
  BY <1>1, Invariant, PTL

\* At most one load of a module ever succeeds, and modLoaded keeps it.
THEOREM OneLoadSucceeds == Spec => []OneInstance
<1>1. IInv => OneInstance
  BY DEF IInv
<1> QED
  BY <1>1, Invariant, PTL

-----------------------------------------------------------------------------
(* Induction, for ResolveId *)

\* A set of natural numbers that is not empty has a least element.
LEMMA Least ==
  ASSUME NEW T \in SUBSET Nat, T # {}
  PROVE  \E x \in T : \A y \in T : x <= y
<1> DEFINE Upto == {0 .. n : n \in T}
<1>1. Upto \subseteq FiniteSubsetsOf(Nat) /\ Upto # {}
  <2>1. ASSUME NEW n \in T PROVE 0 .. n \in FiniteSubsetsOf(Nat)
    <3>1. n \in Nat /\ 0 \in Int /\ n \in Int
      OBVIOUS
    <3>2. IsFiniteSet(0 .. n)
      BY <3>1, FS_Interval
    <3> QED
      BY <3>1, <3>2 DEF FiniteSubsetsOf
  <2> QED
    BY <2>1
<1>2. \E X \in Upto : \A Y \in Upto : ~(<<Y, X>> \in StrictSubsetOrdering(Nat))
  <2> HIDE DEF Upto
  <2> QED
    BY <1>1, FS_StrictSubsetOrderingWellFounded, WFMin
<1>3. PICK n \in T : \A m \in T : ~(<<0 .. m, 0 .. n>> \in StrictSubsetOrdering(Nat))
  BY <1>2
<1>4. ASSUME NEW m \in T, m < n PROVE FALSE
  <2>1. 0 .. m \in SUBSET Nat /\ 0 .. n \in SUBSET Nat /\ 0 .. m \subseteq 0 .. n /\ n \in 0 .. n /\ n \notin 0 .. m
    BY <1>4
  <2>2. 0 .. m # 0 .. n
    BY <2>1
  <2>3. <<0 .. m, 0 .. n>> \in (SUBSET Nat) \X (SUBSET Nat)
    BY <2>1
  <2> QED
    BY <1>3, <2>1, <2>2, <2>3 DEF StrictSubsetOrdering
<1> QED
  BY <1>4

\* Induction up to n.
LEMMA UpTo ==
  ASSUME NEW n \in Nat, NEW G, 0 \in G, \A m \in 0 .. n : m < n /\ m \in G => m + 1 \in G
  PROVE  0 .. n \subseteq G
<1> DEFINE T == {m \in 0 .. n : m \notin G}
<1>1. SUFFICES ASSUME T # {} PROVE FALSE
  OBVIOUS
<1>2. T \in SUBSET Nat
  OBVIOUS
<1>3. PICK x \in T : \A y \in T : x <= y
  <2> HIDE DEF T
  <2> QED
    BY <1>1, <1>2, Least
<1>4. PICK y \in 0 .. n : y + 1 = x
  <2>1. x - 1 \in 0 .. n /\ (x - 1) + 1 = x
    OBVIOUS
  <2> QED
    BY <2>1
<1>5. y \in G /\ y < n
  BY <1>3, <1>4
<1> QED
  BY <1>4, <1>5

\* What lies between z and z + l lies some way after z.
LEMMA Between ==
  ASSUME NEW z \in Nat, NEW l \in Nat, NEW i \in Int, z + 1 <= i, i <= z + l
  PROVE  \E d \in 1 .. l : i = z + d
<1>1. i - z \in 1 .. l
  OBVIOUS
<1>2. i = z + (i - z)
  OBVIOUS
<1> QED
  BY <1>1, <1>2

-----------------------------------------------------------------------------
(* FlattenSeq *)

\* f is what FlattenSeq's function has to be for s.
Flattens(f, s) ==
  f = [i \in 1 .. Len(s) |-> IF i = 1 THEN s[i] ELSE f[i - 1] \o s[i]]

\* The recursion of FlattenSeq has a solution, found one prefix of s at a time.
LEMMA FlattenExists ==
  ASSUME NEW C, NEW s \in Seq(Seq(C))
  PROVE  \E f \in [1 .. Len(s) -> Seq(C)] : Flattens(f, s)
<1> DEFINE Part(f, n) == \A i \in 1 .. n : f[i] = IF i = 1 THEN s[i] ELSE f[i - 1] \o s[i]
<1> DEFINE G == {n \in Nat : n <= Len(s) => \E f \in [1 .. n -> Seq(C)] : Part(f, n)}
<1>1. Len(s) \in Nat /\ \A i \in 1 .. Len(s) : s[i] \in Seq(C)
  BY ElementOfSeq
<1>2. 0 \in G
  <2>1. [i \in 1 .. 0 |-> <<>>] \in [1 .. 0 -> Seq(C)] /\ Part([i \in 1 .. 0 |-> <<>>], 0)
    OBVIOUS
  <2> QED
    BY <2>1
<1>3. ASSUME NEW m \in 0 .. Len(s), m < Len(s), m \in G PROVE m + 1 \in G
  <2>1. PICK f \in [1 .. m -> Seq(C)] : Part(f, m)
    BY <1>1, <1>3
  <2>2. PICK v \in Seq(C) : v = IF m = 0 THEN s[m + 1] ELSE f[m] \o s[m + 1]
    <3>1. s[m + 1] \in Seq(C)
      BY <1>1, <1>3
    <3>2. CASE m = 0
      BY <3>1, <3>2
    <3>3. CASE m # 0
      <4>1. f[m] \in Seq(C)
        BY <1>1, <2>1, <3>3
      <4>2. f[m] \o s[m + 1] \in Seq(C)
        BY <3>1, <4>1, ConcatProperties
      <4> QED
        BY <3>3, <4>2
    <3> QED
      BY <3>2, <3>3
  <2> DEFINE g == [i \in 1 .. m + 1 |-> IF i = m + 1 THEN v ELSE f[i]]
  <2>3. g \in [1 .. m + 1 -> Seq(C)]
    BY <2>1, <2>2
  <2>4. g[m + 1] = v /\ \A i \in 1 .. m : g[i] = f[i]
    BY <1>1
  <2>5. ASSUME NEW i \in 1 .. m + 1 PROVE g[i] = IF i = 1 THEN s[i] ELSE g[i - 1] \o s[i]
    <3> HIDE DEF g
    <3>1. CASE i = m + 1
      <4>1. i # 1 => i - 1 \in 1 .. m /\ i - 1 = m
        BY <3>1
      <4> QED
        BY <2>2, <2>4, <3>1, <4>1
    <3>2. CASE i \in 1 .. m
      <4>1. i # 1 => i - 1 \in 1 .. m
        BY <3>2
      <4> QED
        BY <2>1, <2>4, <3>2, <4>1
    <3> QED
      BY <3>1, <3>2
  <2>6. Part(g, m + 1)
    <3> HIDE DEF g
    <3> QED
      BY <2>5
  <2>7. m + 1 \in Nat
    OBVIOUS
  <2> HIDE DEF g, Part
  <2> QED
    BY <2>3, <2>6, <2>7
<1>4. 0 .. Len(s) \subseteq G
  <2> HIDE DEF G
  <2> QED
    BY <1>1, <1>2, <1>3, UpTo
<1>5. PICK f \in [1 .. Len(s) -> Seq(C)] : Part(f, Len(s))
  <2>1. Len(s) \in 0 .. Len(s) /\ Len(s) <= Len(s)
    BY <1>1
  <2> QED
    BY <1>4, <2>1
<1>6. Flattens(f, s)
  BY <1>5 DEF Flattens
<1> QED
  BY <1>6

\* FlattenSeq is what the last element of that solution is.
LEMMA FlattenSpec ==
  ASSUME NEW C, NEW s \in Seq(Seq(C)), s # <<>>
  PROVE  \E f : Flattens(f, s) /\ FlattenSeq(s) = f[Len(s)]
<1> DEFINE F == CHOOSE f : f = [i \in 1 .. Len(s) |-> IF i = 1 THEN s[i] ELSE f[i - 1] \o s[i]]
<1>1. Len(s) # 0
  BY EmptySeq
<1>2. \E f : f = [i \in 1 .. Len(s) |-> IF i = 1 THEN s[i] ELSE f[i - 1] \o s[i]]
  <2>1. PICK f \in [1 .. Len(s) -> Seq(C)] : Flattens(f, s)
    BY FlattenExists
  <2> QED
    BY <2>1 DEF Flattens
<1>3. Flattens(F, s)
  BY <1>2 DEF Flattens
<1>4. FlattenSeq(s) = F[Len(s)]
  BY <1>1 DEF FlattenSeq
<1> HIDE DEF F
<1> QED
  BY <1>3, <1>4

\* The functions of s and of a longer sequence agree.
LEMMA FlattenAgree ==
  ASSUME NEW C, NEW s \in Seq(Seq(C)), NEW x \in Seq(C), NEW f, NEW g,
         Flattens(f, s), Flattens(g, Append(s, x))
  PROVE  \A i \in 1 .. Len(s) : g[i] = f[i] /\ f[i] \in Seq(C)
<1> DEFINE G == {n \in 0 .. Len(s) : n # 0 => g[n] = f[n] /\ f[n] \in Seq(C)}
<1>1. Len(s) \in Nat /\ Len(Append(s, x)) = Len(s) + 1
  BY AppendProperties
<1>2. ASSUME NEW n \in 0 .. Len(s), n < Len(s), n \in G PROVE n + 1 \in G
  <2>1. PICK k \in 1 .. Len(s) : k = n + 1
    BY <1>1, <1>2
  <2>2. s[k] \in Seq(C) /\ Append(s, x)[k] = s[k] /\ k \in 1 .. Len(Append(s, x)) /\ k - 1 = n
    BY <1>1, <2>1, ElementOfSeq, AppendProperties
  <2>3. f[k] = IF k = 1 THEN s[k] ELSE f[n] \o s[k]
    BY <2>2 DEF Flattens
  <2>4. g[k] = IF k = 1 THEN s[k] ELSE g[n] \o s[k]
    BY <2>2 DEF Flattens
  <2>5. f[k] \in Seq(C)
    <3>1. CASE k = 1
      BY <2>2, <2>3, <3>1
    <3>2. CASE k # 1
      <4>1. f[n] \in Seq(C)
        BY <1>2, <2>1, <3>2
      <4> QED
        BY <2>2, <2>3, <3>2, <4>1, ConcatProperties
    <3> QED
      BY <3>1, <3>2
  <2>6. g[k] = f[k]
    BY <1>2, <2>1, <2>3, <2>4
  <2> QED
    BY <1>1, <2>1, <2>5, <2>6
<1>3. 0 .. Len(s) \subseteq G
  <2>1. 0 \in G
    BY <1>1
  <2> HIDE DEF G
  <2> QED
    BY <1>1, <1>2, <2>1, UpTo
<1> QED
  BY <1>1, <1>3

\* One more element is joined at the end.
LEMMA FlattenAppend ==
  ASSUME NEW C, NEW s \in Seq(Seq(C)), NEW x \in Seq(C)
  PROVE  /\ FlattenSeq(s) \in Seq(C)
         /\ FlattenSeq(Append(s, x)) = IF s = <<>> THEN x ELSE FlattenSeq(s) \o x
<1>1. PICK l \in Nat : l = Len(s) + 1
  OBVIOUS
<1>2. Append(s, x) \in Seq(Seq(C)) /\ Append(s, x) # <<>> /\ l = Len(Append(s, x))
      /\ Append(s, x)[l] = x /\ l \in 1 .. l
  BY <1>1, AppendProperties
<1>3. PICK g : Flattens(g, Append(s, x)) /\ FlattenSeq(Append(s, x)) = g[l]
  BY <1>2, FlattenSpec
<1>4. g[l] = IF l = 1 THEN x ELSE g[l - 1] \o x
  BY <1>2, <1>3 DEF Flattens
<1>5. CASE s = <<>>
  <2>1. FlattenSeq(s) = <<>> /\ l = 1 /\ <<>> \in Seq(C)
    BY <1>1, <1>5, EmptySeq DEF FlattenSeq
  <2> QED
    BY <1>3, <1>4, <1>5, <2>1
<1>6. CASE s # <<>>
  <2>1. PICK f : Flattens(f, s) /\ FlattenSeq(s) = f[Len(s)]
    BY <1>6, FlattenSpec
  <2>2. Len(s) \in 1 .. Len(s) /\ l # 1 /\ l - 1 = Len(s)
    BY <1>1, <1>6, EmptySeq
  <2>3. g[Len(s)] = f[Len(s)] /\ f[Len(s)] \in Seq(C)
    BY <1>3, <2>1, <2>2, FlattenAgree
  <2> QED
    BY <1>3, <1>4, <1>6, <2>1, <2>2, <2>3
<1> QED
  BY <1>5, <1>6

-----------------------------------------------------------------------------
(* Join *)

\* The characters of the buffer.
Chars == Letters \cup {".", "/", NUL}
Text == Seq(Chars)

\* A sequence of one element.
LEMMA Single ==
  /\ <<"/">> \in Seq(Chars) /\ Len(<<"/">>) = 1 /\ <<"/">>[1] = "/"
  /\ <<NUL>> \in Seq(Chars) /\ Len(<<NUL>>) = 1 /\ <<NUL>>[1] = NUL
<1>1. "/" \in Chars /\ NUL \in Chars
  BY DEF Chars
<1>2. ASSUME NEW C, NEW c \in C PROVE <<c>> \in Seq(C) /\ Len(<<c>>) = 1 /\ <<c>>[1] = c
  OBVIOUS
<1> QED
  BY <1>1, <1>2

\* The terms with a slash after each.
Slashed(ts) == IF ts = <<>> THEN <<>> ELSE Join(ts) \o <<"/">>

\* One more term is written after the slash of the one before.
LEMMA JoinAppend ==
  ASSUME NEW ts \in Seq(Text), NEW t \in Text
  PROVE  /\ Join(ts) \in Text /\ Slashed(ts) \in Text
         /\ Join(Append(ts, t)) = Slashed(ts) \o t
         /\ Slashed(Append(ts, t)) = (Slashed(ts) \o t) \o <<"/">>
<1> DEFINE M(x) == [k \in 1 .. Len(x) |-> IF k = 1 THEN x[k] ELSE <<"/">> \o x[k]]
<1> DEFINE y == IF ts = <<>> THEN t ELSE <<"/">> \o t
<1>1. Len(ts) \in Nat /\ (\A k \in 1 .. Len(ts) : ts[k] \in Text) /\ <<"/">> \in Text
      /\ Append(ts, t) \in Seq(Text) /\ Len(Append(ts, t)) = Len(ts) + 1
      /\ Append(ts, t)[Len(ts) + 1] = t /\ \A k \in 1 .. Len(ts) : Append(ts, t)[k] = ts[k]
  <2>1. Len(ts) \in Nat /\ (\A k \in 1 .. Len(ts) : ts[k] \in Text)
    BY ElementOfSeq
  <2>2. <<"/">> \in Text
    BY Single DEF Text
  <2> QED
    BY <2>1, <2>2, AppendProperties
<1>2. \A u \in Text : <<"/">> \o u \in Text
  BY <1>1, ConcatProperties DEF Text
<1>3. y \in Text
  BY <1>2
<1>4. M(ts) \in Seq(Text) /\ Len(M(ts)) = Len(ts) /\ (ts = <<>> <=> M(ts) = <<>>)
  <2>1. \A k \in 1 .. Len(ts) : M(ts)[k] \in Text
    BY <1>1, <1>2
  <2>2. M(ts) \in [1 .. Len(ts) -> Text]
    BY <2>1
  <2>3. M(ts) \in Seq(Text) /\ Len(M(ts)) = Len(ts)
    BY <1>1, <2>2
  <2> HIDE DEF M
  <2> QED
    BY <2>3, EmptySeq
<1>5. M(Append(ts, t)) = Append(M(ts), y)
  <2> DEFINE a == M(Append(ts, t))
             b == Append(M(ts), y)
  <2>1. b \in Seq(Text) /\ Len(b) = Len(ts) + 1 /\ b[Len(ts) + 1] = y
        /\ \A k \in 1 .. Len(ts) : b[k] = M(ts)[k]
    <3> HIDE DEF M, y
    <3> QED
      BY <1>3, <1>4, AppendProperties
  <2>2. \A k \in 1 .. Len(ts) : a[k] = M(ts)[k]
    BY <1>1
  <2>3. a[Len(ts) + 1] = y
    <3>1. Len(ts) + 1 = 1 <=> ts = <<>>
      BY <1>1, EmptySeq
    <3> QED
      BY <1>1, <3>1
  <2>4. \A k \in 1 .. Len(ts) + 1 : k = Len(ts) + 1 \/ k \in 1 .. Len(ts)
    BY <1>1
  <2>5. a \in [1 .. Len(ts) + 1 -> Text]
    <3>1. \A k \in 1 .. Len(ts) : M(ts)[k] \in Text
      BY <1>1, <1>2
    <3>2. \A k \in 1 .. Len(ts) + 1 : a[k] \in Text
      <4> HIDE DEF M, y
      <4> QED
        BY <1>3, <2>2, <2>3, <2>4, <3>1
    <3>3. a = [k \in 1 .. Len(ts) + 1 |-> a[k]]
      BY <1>1
    <3> HIDE DEF M
    <3> QED
      BY <3>2, <3>3
  <2>6. a \in Seq(Text) /\ Len(a) = Len(ts) + 1
    <3> HIDE DEF a
    <3> QED
      BY <1>1, <2>5
  <2> HIDE DEF M, y, a, b
  <2> QED
    BY <2>1, <2>2, <2>3, <2>4, <2>6, SeqEqual DEF a, b
<1>6. Join(ts) = FlattenSeq(M(ts)) /\ Join(Append(ts, t)) = FlattenSeq(M(Append(ts, t)))
  BY DEF Join
<1>7. Join(ts) \in Text /\ Join(Append(ts, t)) = IF ts = <<>> THEN y ELSE Join(ts) \o y
  <2> HIDE DEF M, y
  <2> QED
    BY <1>3, <1>4, <1>5, <1>6, FlattenAppend DEF Text
<1>8. Slashed(ts) \in Text
  <2>1. Join(ts) \o <<"/">> \in Text /\ <<>> \in Text
    BY <1>1, <1>7, ConcatProperties, EmptySeq DEF Text
  <2> QED
    BY <2>1 DEF Slashed
<1>9. Join(Append(ts, t)) = Slashed(ts) \o t
  <2>1. CASE ts = <<>>
    BY <1>7, <2>1, ConcatEmptySeq DEF Slashed, Text
  <2>2. CASE ts # <<>>
    <3>1. (Join(ts) \o <<"/">>) \o t = Join(ts) \o (<<"/">> \o t)
      BY <1>1, <1>7, ConcatAssociative DEF Text
    <3> QED
      BY <1>7, <2>2, <3>1 DEF Slashed
  <2> QED
    BY <2>1, <2>2
<1>10. Slashed(Append(ts, t)) = (Slashed(ts) \o t) \o <<"/">>
  <2>1. Append(ts, t) # <<>>
    BY <1>1, EmptySeq
  <2> QED
    BY <1>9, <2>1 DEF Slashed
<1> QED
  BY <1>7, <1>8, <1>9, <1>10

-----------------------------------------------------------------------------
(* Where the terms are *)

\* How many characters stand before the term that follows the first k.
At(ts) == [k \in 0 .. Len(ts) |-> Len(Slashed(SubSeq(ts, 1, k)))]

\* The prefixes of a sequence, each one element longer than the one before.
LEMMA PrefixFacts ==
  ASSUME NEW C, NEW ts \in Seq(C)
  PROVE  /\ Len(ts) \in Nat /\ SubSeq(ts, 1, 0) = <<>> /\ SubSeq(ts, 1, Len(ts)) = ts
         /\ \A k \in 0 .. Len(ts) : SubSeq(ts, 1, k) \in Seq(C) /\ Len(SubSeq(ts, 1, k)) = k
                                    /\ \A i \in 1 .. k : SubSeq(ts, 1, k)[i] = ts[i]
         /\ \A k \in 1 .. Len(ts) :
              ts[k] \in C /\ SubSeq(ts, 1, k) = Append(SubSeq(ts, 1, k - 1), ts[k])
<1>1. Len(ts) \in Nat /\ \A k \in 1 .. Len(ts) : ts[k] \in C
  BY ElementOfSeq
<1>2. SubSeq(ts, 1, 0) = <<>> /\ SubSeq(ts, 1, Len(ts)) = ts
  BY SubSeqEmpty, SubSeqFull
<1>3. ASSUME NEW k \in 0 .. Len(ts)
      PROVE  SubSeq(ts, 1, k) \in Seq(C) /\ Len(SubSeq(ts, 1, k)) = k
             /\ \A i \in 1 .. k : SubSeq(ts, 1, k)[i] = ts[i]
  <2>1. \A i \in 1 .. k : ts[i] \in C
    BY <1>1
  <2> QED
    BY <1>1, <2>1, SubSeqProperties
<1>4. ASSUME NEW k \in 1 .. Len(ts)
      PROVE  ts[k] \in C /\ SubSeq(ts, 1, k) = Append(SubSeq(ts, 1, k - 1), ts[k])
  <2> DEFINE a == SubSeq(ts, 1, k)
             b == SubSeq(ts, 1, k - 1)
  <2>1. a \in Seq(C) /\ Len(a) = k /\ \A i \in 1 .. k : a[i] = ts[i]
    BY <1>1, <1>3
  <2>2. k - 1 \in 0 .. Len(ts)
    BY <1>1
  <2>3. b \in Seq(C) /\ Len(b) = k - 1 /\ \A i \in 1 .. k - 1 : b[i] = ts[i]
    BY <1>3, <2>2
  <2> HIDE DEF a, b
  <2>4. Append(b, ts[k]) \in Seq(C) /\ Len(Append(b, ts[k])) = k
        /\ \A i \in 1 .. k : Append(b, ts[k])[i] = ts[i]
    BY <1>1, <2>3, AppendProperties
  <2>5. a = Append(b, ts[k])
    BY <2>1, <2>4, SeqEqual
  <2> QED
    BY <1>1, <2>5 DEF a, b
<1> QED
  BY <1>1, <1>2, <1>3, <1>4

\* A text, a term and a slash.
LEMMA Concat3 ==
  ASSUME NEW s \in Text, NEW t \in Text, NEW c, c = (s \o t) \o <<"/">>
  PROVE  /\ c \in Text /\ Len(c) = Len(s) + Len(t) + 1 /\ c[Len(s) + Len(t) + 1] = "/"
         /\ \A i \in 1 .. Len(s) : c[i] = s[i]
         /\ \A i \in 1 .. Len(t) : c[Len(s) + i] = t[i]
<1> DEFINE a == s \o t
           b == <<"/">>
<1>1. a \in Text /\ Len(a) = Len(s) + Len(t) /\ Len(s) \in Nat /\ Len(t) \in Nat
      /\ \A i \in 1 .. Len(s) + Len(t) : a[i] = IF i <= Len(s) THEN s[i] ELSE t[i - Len(s)]
  BY ConcatProperties DEF Text
<1>2. b \in Text /\ Len(b) = 1 /\ b[1] = "/"
  BY Single DEF Text
<1> HIDE DEF a, b
<1>3. a \o b \in Text /\ Len(a \o b) = Len(a) + 1
      /\ \A i \in 1 .. Len(a) + 1 : (a \o b)[i] = IF i <= Len(a) THEN a[i] ELSE b[i - Len(a)]
  <2>1. a \in Seq(Chars) /\ b \in Seq(Chars)
    BY <1>1, <1>2 DEF Text
  <2>2. a \o b \in Seq(Chars) /\ Len(a \o b) = Len(a) + Len(b)
    BY <2>1, ConcatProperties
  <2>3. \A i \in 1 .. Len(a) + Len(b) : (a \o b)[i] = IF i <= Len(a) THEN a[i] ELSE b[i - Len(a)]
    BY <2>1, ConcatProperties
  <2> QED
    BY <1>2, <2>2, <2>3 DEF Text
<1>4. (a \o b)[Len(a) + 1] = "/"
  <2>1. Len(a) + 1 \in 1 .. Len(a) + 1 /\ ~(Len(a) + 1 <= Len(a)) /\ (Len(a) + 1) - Len(a) = 1
    BY <1>1
  <2> QED
    BY <1>2, <1>3, <2>1
<1>5. \A i \in 1 .. Len(s) : (a \o b)[i] = s[i]
  BY <1>1, <1>3
<1>6. ASSUME NEW i \in 1 .. Len(t) PROVE (a \o b)[Len(s) + i] = t[i]
  <2>1. PICK j \in Nat : j = Len(s) + i
    BY <1>1
  <2>2. j \in 1 .. Len(a) /\ ~(j <= Len(s)) /\ j - Len(s) = i
    BY <1>1, <2>1
  <2> QED
    BY <1>1, <1>3, <2>1, <2>2
<1> QED
  BY <1>1, <1>3, <1>4, <1>5, <1>6 DEF a, b

\* The first k terms of ts are in c, with slashes, and A is where they end.
Laid(c, ts, A, k) ==
  \A m \in 1 .. k :
    /\ c[A[m]] = "/" /\ A[m] <= A[k]
    /\ \A i \in 1 .. Len(ts[m]) : c[A[m - 1] + i] = ts[m][i]

\* Term k of ts stands, with its slash, between At(ts)[k - 1] and At(ts)[k].
LEMMA SlashedLayout ==
  ASSUME NEW ts \in Seq(Text), NEW A, A = At(ts)
  PROVE  /\ A \in [0 .. Len(ts) -> Nat] /\ A[0] = 0 /\ A[Len(ts)] = Len(Slashed(ts))
         /\ \A k \in 1 .. Len(ts) : A[k] = A[k - 1] + Len(ts[k]) + 1
         /\ Laid(Slashed(ts), ts, A, Len(ts))
<1> DEFINE S(k) == Slashed(SubSeq(ts, 1, k))
<1>1. Len(ts) \in Nat /\ \A k \in 1 .. Len(ts) : ts[k] \in Text /\ Len(ts[k]) \in Nat
  BY ElementOfSeq DEF Text
<1>2. ASSUME NEW k \in 0 .. Len(ts) PROVE S(k) \in Text /\ Len(S(k)) \in Nat /\ A[k] = Len(S(k))
  <2>1. SubSeq(ts, 1, k) \in Seq(Text) /\ <<>> \in Text
    BY PrefixFacts, EmptySeq DEF Text
  <2>2. S(k) \in Text
    BY <2>1, JoinAppend
  <2>3. A[k] = Len(S(k))
    BY DEF At
  <2> QED
    BY <2>2, <2>3 DEF Text
<1>3. A \in [0 .. Len(ts) -> Nat]
  BY <1>2 DEF At
<1>4. A[0] = 0
  <2>1. S(0) = <<>> /\ 0 \in 0 .. Len(ts)
    BY <1>1, PrefixFacts DEF Slashed
  <2> QED
    BY <1>2, <2>1, EmptySeq
<1>5. ASSUME NEW k \in 1 .. Len(ts), NEW j, j = k - 1
      PROVE  S(k) = (S(j) \o ts[k]) \o <<"/">> /\ j \in 0 .. Len(ts)
  <2>1. j \in 0 .. Len(ts) /\ SubSeq(ts, 1, j) \in Seq(Text)
    BY <1>1, <1>5, PrefixFacts
  <2>2. SubSeq(ts, 1, k) = Append(SubSeq(ts, 1, j), ts[k])
    BY <1>5, PrefixFacts
  <2> QED
    BY <1>1, <2>1, <2>2, JoinAppend
<1> HIDE DEF S
<1>6. ASSUME NEW k \in 1 .. Len(ts), NEW j, j = k - 1
      PROVE  /\ j \in 0 .. Len(ts) /\ A[k] = A[j] + Len(ts[k]) + 1 /\ S(k)[A[k]] = "/"
             /\ \A i \in 1 .. A[j] : S(k)[i] = S(j)[i]
             /\ \A i \in 1 .. Len(ts[k]) : S(k)[A[j] + i] = ts[k][i]
  <2>1. j \in 0 .. Len(ts) /\ S(k) = (S(j) \o ts[k]) \o <<"/">> /\ S(j) \in Text /\ ts[k] \in Text
    BY <1>1, <1>2, <1>5, <1>6
  <2>2. A[j] = Len(S(j)) /\ A[k] = Len(S(k)) /\ A[j] \in Nat
    <3>1. k \in 0 .. Len(ts)
      BY <1>1
    <3> QED
      BY <1>2, <2>1, <3>1
  <2>3. /\ Len(S(k)) = Len(S(j)) + Len(ts[k]) + 1 /\ S(k)[Len(S(j)) + Len(ts[k]) + 1] = "/"
        /\ \A i \in 1 .. Len(S(j)) : S(k)[i] = S(j)[i]
        /\ \A i \in 1 .. Len(ts[k]) : S(k)[Len(S(j)) + i] = ts[k][i]
    <3>1. PICK s \in Text, t \in Text : s = S(j) /\ t = ts[k]
      BY <2>1
    <3>2. PICK c : c = (s \o t) \o <<"/">>
      OBVIOUS
    <3>3. /\ Len(c) = Len(s) + Len(t) + 1 /\ c[Len(s) + Len(t) + 1] = "/"
          /\ \A i \in 1 .. Len(s) : c[i] = s[i]
          /\ \A i \in 1 .. Len(t) : c[Len(s) + i] = t[i]
      BY <3>2, Concat3
    <3>4. S(k) = c
      BY <2>1, <3>1, <3>2
    <3> QED
      BY <3>1, <3>3, <3>4
  <2> QED
    BY <2>1, <2>2, <2>3
<1> DEFINE G == {k \in 0 .. Len(ts) : Laid(S(k), ts, A, k)}
<1>7. ASSUME NEW j \in 0 .. Len(ts), j < Len(ts), j \in G PROVE j + 1 \in G
  <2>1. PICK k \in 1 .. Len(ts) : k = j + 1 /\ j = k - 1
    <3>1. j + 1 \in 1 .. Len(ts) /\ j = (j + 1) - 1
      BY <1>1, <1>7
    <3> QED
      BY <3>1
  <2>2. /\ A[k] = A[j] + Len(ts[k]) + 1 /\ S(k)[A[k]] = "/"
        /\ \A i \in 1 .. A[j] : S(k)[i] = S(j)[i]
        /\ \A i \in 1 .. Len(ts[k]) : S(k)[A[j] + i] = ts[k][i]
    BY <1>6, <2>1
  <2>3. Laid(S(k), ts, A, k)
    <3> SUFFICES ASSUME NEW m \in 1 .. k
                 PROVE  /\ S(k)[A[m]] = "/" /\ A[m] <= A[k]
                        /\ \A i \in 1 .. Len(ts[m]) : S(k)[A[m - 1] + i] = ts[m][i]
      BY DEF Laid
    <3>1. CASE m = k
      BY <1>3, <2>1, <2>2, <3>1
    <3>2. CASE m # k
      <4>1. PICK l : l = m - 1
        OBVIOUS
      <4>2. m \in 1 .. Len(ts) /\ m \in 1 .. j /\ l \in 0 .. Len(ts)
        BY <1>1, <2>1, <3>2, <4>1
      <4>3. S(j)[A[m]] = "/" /\ A[m] <= A[j] /\ \A i \in 1 .. Len(ts[m]) : S(j)[A[l] + i] = ts[m][i]
        BY <1>7, <4>1, <4>2 DEF Laid
      <4>4. A[m] = A[l] + Len(ts[m]) + 1
        BY <1>6, <4>1, <4>2
      <4>5. A[m] \in Nat /\ A[l] \in Nat /\ A[j] \in Nat /\ Len(ts[m]) \in Nat /\ Len(ts[k]) \in Nat
        <5>1. \A x \in 0 .. Len(ts) : A[x] \in Nat
          BY <1>3
        <5>2. m \in 0 .. Len(ts)
          BY <1>1, <4>2
        <5> QED
          BY <1>1, <1>7, <2>1, <4>2, <5>1, <5>2
      <4>6. A[m] \in 1 .. A[j] /\ A[m] <= A[k]
        <5>1. PICK z \in Nat, d \in Nat, a \in Nat, f \in Nat, g \in Nat :
                z = A[l] /\ d = Len(ts[m]) /\ a = A[j] /\ f = Len(ts[k]) /\ g = A[m]
          BY <4>5
        <5>2. g = z + d + 1 /\ g <= a /\ A[k] = a + f + 1
          BY <2>2, <4>3, <4>4, <5>1
        <5>3. g \in 1 .. a /\ g <= a + f + 1
          <6>1. z \in Nat /\ d \in Nat /\ a \in Nat /\ f \in Nat /\ g = z + d + 1 /\ g <= a
            BY <5>1, <5>2
          <6> QED
            BY <6>1
        <5> QED
          BY <5>1, <5>2, <5>3
      <4>7. ASSUME NEW i \in 1 .. Len(ts[m]) PROVE S(k)[A[l] + i] = ts[m][i]
        <5>1. A[l] + i \in 1 .. A[j]
          <6>1. PICK z \in Nat, d \in Nat, a \in Nat : z = A[l] /\ d = Len(ts[m]) /\ a = A[j] /\ z + d + 1 <= a
            BY <4>3, <4>4, <4>5
          <6>2. i \in 1 .. d
            BY <6>1
          <6>3. z + i \in 1 .. a
            <7>1. z \in Nat /\ d \in Nat /\ a \in Nat /\ z + d + 1 <= a
              BY <6>1
            <7> QED
              BY <6>2, <7>1
          <6> QED
            BY <6>1, <6>3
        <5> QED
          BY <2>2, <4>3, <5>1
      <4> QED
        BY <2>2, <4>1, <4>3, <4>6, <4>7
    <3> QED
      BY <3>1, <3>2
  <2> QED
    BY <1>1, <2>1, <2>3
<1>8. 0 .. Len(ts) \subseteq G
  <2>1. 0 \in G
    BY <1>1 DEF Laid
  <2> HIDE DEF G
  <2> QED
    BY <1>1, <1>7, <2>1, UpTo
<1>9. Len(ts) \in G /\ S(Len(ts)) = Slashed(ts)
  <2>1. Len(ts) \in 0 .. Len(ts) /\ SubSeq(ts, 1, Len(ts)) = ts
    BY <1>1, PrefixFacts
  <2>2. S(Len(ts)) = Slashed(ts)
    BY <2>1 DEF S
  <2> HIDE DEF G
  <2> QED
    BY <1>8, <2>1, <2>2
<1>10. A[Len(ts)] = Len(Slashed(ts))
  BY <1>1, <1>2, <1>9
<1> QED
  BY <1>3, <1>4, <1>6, <1>9, <1>10

-----------------------------------------------------------------------------
(* FoldLeft with Step *)

Nothing == [ok |-> TRUE, names |-> <<>>]
Folded(ts) == FoldLeft(Step, Nothing, ts)

\* f is what the fold's function has to be on the places up to m.
Folds(f, ts, m) ==
  f = [s \in SUBSET (1 .. m) |-> IF s = {} THEN Nothing ELSE Step(f[s \ {Max(s)}], ts[Max(s)])]

\* The greatest of a set of places is the last place if that is in it.
LEMMA MaxIs ==
  ASSUME NEW m \in Nat, NEW s \in SUBSET (1 .. m), m \in s
  PROVE  Max(s) = m
<1>1. \A y \in s : m >= y /\ y \in Nat
  OBVIOUS
<1>2. \E x \in s : \A y \in s : x >= y
  BY <1>1
<1>3. PICK x : x = Max(s) /\ x \in s /\ \A y \in s : x >= y
  BY <1>2 DEF Max
<1> QED
  BY <1>1, <1>3

\* The recursion of the fold has a solution, found one place at a time.
LEMMA FoldExists ==
  ASSUME NEW ts, NEW n \in Nat
  PROVE  \E f : Folds(f, ts, n)
<1> DEFINE G == {m \in Nat : \E f : Folds(f, ts, m)}
<1>1. 0 \in G
  <2> DEFINE f == [s \in SUBSET (1 .. 0) |-> Nothing]
  <2>1. \A s \in SUBSET (1 .. 0) : s = {}
    OBVIOUS
  <2>2. f = [s \in SUBSET (1 .. 0) |-> IF s = {} THEN Nothing ELSE Step(f[s \ {Max(s)}], ts[Max(s)])]
    BY <2>1
  <2> QED
    BY <2>2 DEF Folds
<1>2. ASSUME NEW m \in 0 .. n, m < n, m \in G PROVE m + 1 \in G
  <2>1. PICK l \in Nat : l = m + 1
    OBVIOUS
  <2>2. PICK f : Folds(f, ts, m)
    BY <1>2
  <2> DEFINE g == [s \in SUBSET (1 .. l) |->
                    IF l \in s THEN Step(f[s \ {l}], ts[l]) ELSE f[s]]
  <2>3. ASSUME NEW s \in SUBSET (1 .. l), l \notin s PROVE s \in SUBSET (1 .. m)
    BY <2>1, <2>3
  <2>4. ASSUME NEW s \in SUBSET (1 .. m) PROVE l \notin s /\ s \in SUBSET (1 .. l) /\ g[s] = f[s]
    BY <2>1
  <2>5. ASSUME NEW s \in SUBSET (1 .. l)
        PROVE  g[s] = IF s = {} THEN Nothing ELSE Step(g[s \ {Max(s)}], ts[Max(s)])
    <3>1. CASE l \in s
      <4>1. Max(s) = l /\ s # {}
        BY <3>1, MaxIs
      <4>2. g[s] = Step(f[s \ {l}], ts[l])
        BY <3>1
      <4>3. g[s \ {l}] = f[s \ {l}]
        <5>1. s \ {l} \in SUBSET (1 .. m)
          BY <2>1
        <5> QED
          BY <2>4, <5>1
      <4> HIDE DEF g
      <4> QED
        BY <4>1, <4>2, <4>3
    <3>2. CASE l \notin s
      <4>1. s \in SUBSET (1 .. m)
        BY <2>3, <3>2
      <4>2. f[s] = IF s = {} THEN Nothing ELSE Step(f[s \ {Max(s)}], ts[Max(s)])
        BY <2>2, <4>1 DEF Folds
      <4>3. s \ {Max(s)} \in SUBSET (1 .. m)
        BY <4>1
      <4>4. g[s] = f[s] /\ g[s \ {Max(s)}] = f[s \ {Max(s)}]
        BY <2>4, <4>1, <4>3
      <4> HIDE DEF g
      <4> QED
        BY <4>2, <4>4
    <3> QED
      BY <3>1, <3>2
  <2>6. Folds(g, ts, l)
    <3>1. g = [s \in SUBSET (1 .. l) |-> g[s]]
      OBVIOUS
    <3> HIDE DEF g
    <3> QED
      BY <2>5, <3>1 DEF Folds
  <2> HIDE DEF g
  <2> QED
    BY <2>1, <2>6
<1>3. 0 .. n \subseteq G
  <2> HIDE DEF G
  <2> QED
    BY <1>1, <1>2, UpTo
<1> QED
  BY <1>3

\* The fold is what that solution gives for all places.
LEMMA FoldSpec ==
  ASSUME NEW C, NEW ts \in Seq(C)
  PROVE  \E f : Folds(f, ts, Len(ts)) /\ Folded(ts) = f[1 .. Len(ts)]
<1> DEFINE F == CHOOSE f : f = [s \in SUBSET (1 .. Len(ts)) |->
                  IF s = {} THEN Nothing ELSE Step(f[s \ {Max(s)}], ts[Max(s)])]
<1>1. DOMAIN ts = 1 .. Len(ts) /\ Len(ts) \in Nat
  OBVIOUS
<1>2. Folds(F, ts, Len(ts))
  <2>1. \E f : f = [s \in SUBSET (1 .. Len(ts)) |->
                  IF s = {} THEN Nothing ELSE Step(f[s \ {Max(s)}], ts[Max(s)])]
    BY <1>1, FoldExists DEF Folds
  <2> QED
    BY <2>1 DEF Folds
<1>3. Folded(ts) = F[1 .. Len(ts)]
  BY <1>1 DEF Folded, FoldLeft, MapThenFoldSet
<1> HIDE DEF F
<1> QED
  BY <1>2, <1>3

\* The fold of a longer sequence takes one more step.
LEMMA FoldAppend ==
  ASSUME NEW C, NEW ts \in Seq(C), NEW t \in C
  PROVE  Folded(<<>>) = Nothing /\ Folded(Append(ts, t)) = Step(Folded(ts), t)
<1>1. PICK u \in Seq(C), l \in Nat, n \in Nat :
        /\ u = Append(ts, t) /\ n = Len(ts) /\ l = n + 1 /\ Len(u) = l /\ u[l] = t
        /\ \A i \in 1 .. n : u[i] = ts[i]
  <2>1. PICK n \in Nat, l \in Nat : n = Len(ts) /\ l = n + 1
    OBVIOUS
  <2>2. PICK u : u = Append(ts, t)
    OBVIOUS
  <2>3. u \in Seq(C) /\ Len(u) = l /\ u[l] = t /\ \A i \in 1 .. n : u[i] = ts[i]
    BY <2>1, <2>2, AppendProperties
  <2> QED
    BY <2>1, <2>2, <2>3
<1>2. PICK f : Folds(f, ts, n) /\ Folded(ts) = f[1 .. n]
  BY <1>1, FoldSpec
<1>3. PICK g : Folds(g, u, l) /\ Folded(u) = g[1 .. l]
  BY <1>1, FoldSpec
<1>4. ASSUME NEW k \in 1 .. l
      PROVE  1 .. k \in SUBSET (1 .. l) /\ 1 .. k # {} /\ Max(1 .. k) = k
             /\ (1 .. k) \ {k} = 1 .. (k - 1)
  <2>1. k \in Nat /\ 1 .. k \in SUBSET (1 .. k) /\ k \in 1 .. k
    BY <1>1
  <2>2. Max(1 .. k) = k
    BY <2>1, MaxIs
  <2> QED
    BY <1>1, <2>1, <2>2
<1>5. ASSUME NEW k \in 1 .. l PROVE g[1 .. k] = Step(g[1 .. (k - 1)], u[k])
  <2>1. g[1 .. k] = IF 1 .. k = {} THEN Nothing ELSE Step(g[(1 .. k) \ {Max(1 .. k)}], u[Max(1 .. k)])
    BY <1>3, <1>4 DEF Folds
  <2> QED
    BY <1>4, <2>1
<1>6. ASSUME NEW k \in 1 .. n PROVE f[1 .. k] = Step(f[1 .. (k - 1)], ts[k])
  <2>1. k \in 1 .. l /\ 1 .. k \in SUBSET (1 .. n)
    BY <1>1
  <2>2. f[1 .. k] = IF 1 .. k = {} THEN Nothing ELSE Step(f[(1 .. k) \ {Max(1 .. k)}], ts[Max(1 .. k)])
    BY <1>2, <2>1 DEF Folds
  <2> QED
    BY <1>4, <2>1, <2>2
<1> DEFINE G == {k \in 0 .. n : g[1 .. k] = f[1 .. k]}
<1>7. 0 \in G
  <2>1. 1 .. 0 = {} /\ {} \in SUBSET (1 .. n) /\ {} \in SUBSET (1 .. l)
    OBVIOUS
  <2>2. g[{}] = Nothing /\ f[{}] = Nothing
    BY <1>2, <1>3, <2>1 DEF Folds
  <2> QED
    BY <2>1, <2>2
<1>8. ASSUME NEW j \in 0 .. n, j < n, j \in G PROVE j + 1 \in G
  <2>1. PICK k \in 1 .. n : k = j + 1 /\ k - 1 = j
    <3>1. j + 1 \in 1 .. n /\ (j + 1) - 1 = j
      BY <1>8
    <3> QED
      BY <3>1
  <2>2. k \in 1 .. l /\ u[k] = ts[k] /\ g[1 .. j] = f[1 .. j]
    BY <1>1, <1>8, <2>1
  <2>3. g[1 .. k] = f[1 .. k]
    BY <1>5, <1>6, <2>1, <2>2
  <2> QED
    BY <1>1, <2>1, <2>3
<1>9. g[1 .. n] = f[1 .. n]
  <2>1. 0 .. n \subseteq G
    <3> HIDE DEF G
    <3> QED
      BY <1>1, <1>7, <1>8, UpTo
  <2>2. n \in 0 .. n
    BY <1>1
  <2> QED
    BY <2>1, <2>2
<1>10. Folded(u) = Step(Folded(ts), t)
  <2>1. l \in 1 .. l /\ l - 1 = n
    BY <1>1
  <2> QED
    BY <1>1, <1>2, <1>3, <1>5, <1>9, <2>1
<1>11. Folded(<<>>) = Nothing
  <2>1. <<>> \in Seq(C) /\ Len(<<>>) = 0 /\ 1 .. 0 = {} /\ {} \in SUBSET (1 .. 0)
    BY EmptySeq
  <2>2. PICK e : Folds(e, <<>>, 0) /\ Folded(<<>>) = e[{}]
    BY <2>1, FoldSpec
  <2> QED
    BY <2>1, <2>2 DEF Folds
<1> QED
  BY <1>1, <1>10, <1>11

-----------------------------------------------------------------------------
(* Terms *)

\* Terms have no slash and no NUL, and only those that are not names begin with a period.
LEMMA TermFacts ==
  ASSUME NEW t \in Terms
  PROVE  /\ t \in Text /\ Len(t) \in Nat
         /\ \A i \in 1 .. Len(t) : t[i] \notin {"/", NUL}
         /\ t # <<>> => 1 \in 1 .. Len(t)
         /\ t \in Names => t \notin BadTerms \cup {<<>>, Dot, DotDot} /\ t[1] # "."
         /\ t \in BadTerms => t \notin {<<>>, Dot, DotDot} /\ t[1] = "."
<1> DEFINE C == Letters \cup {"."}
<1>1. "." # "/" /\ "." # NUL /\ "/" # NUL
  BY DEF NUL
<1>2. C \subseteq Chars /\ "/" \notin C /\ NUL \notin C /\ "." \in C
  BY <1>1, TermsAssumption DEF Chars
<1>3. t \in Seq(C)
  <2>1. ASSUME NEW c \in C PROVE <<c>> \in Seq(C) /\ <<c, c>> \in Seq(C)
    OBVIOUS
  <2>2. Dot \in Seq(C) /\ DotDot \in Seq(C) /\ <<>> \in Seq(C)
    BY <1>2, <2>1, EmptySeq DEF Dot, DotDot
  <2>3. Names \subseteq Seq(C) /\ BadTerms \subseteq Seq(C)
    BY TermsAssumption
  <2> HIDE DEF C
  <2> QED
    BY <2>2, <2>3 DEF Terms
<1>4. \A i \in 1 .. Len(t) : t[i] \in C
  <2> HIDE DEF C
  <2> QED
    BY <1>3, ElementOfSeq
<1>5. t \in Text
  <2>1. Len(t) \in Nat /\ t \in [1 .. Len(t) -> C]
    BY <1>3
  <2>2. t \in [1 .. Len(t) -> Chars]
    <3> HIDE DEF C
    <3> QED
      BY <1>2, <2>1
  <2> QED
    BY <2>1, <2>2 DEF Text
<1>6. t # <<>> => 1 \in 1 .. Len(t)
  <2>1. Len(t) \in Nat /\ (t # <<>> => Len(t) # 0)
    BY <1>3, EmptySeq
  <2> QED
    BY <2>1
<1>7. t \in Names => t \notin {<<>>, Dot, DotDot} /\ t[1] # "."
  BY TermsAssumption
<1>8. t \in BadTerms => t \notin {<<>>, Dot, DotDot} /\ t[1] = "."
  BY TermsAssumption
<1>9. Len(t) \in Nat
  BY <1>3
<1> HIDE DEF C
<1> QED
  BY <1>2, <1>4, <1>5, <1>6, <1>7, <1>8, <1>9

\* The terms '.' and '..'.
LEMMA DotFacts ==
  /\ Dot \in Terms /\ DotDot \in Terms /\ <<>> \in Terms
  /\ Len(Dot) = 1 /\ Dot[1] = "." /\ Len(DotDot) = 2 /\ DotDot[1] = "." /\ DotDot[2] = "."
  /\ Dot # <<>> /\ DotDot # <<>> /\ Dot # DotDot
<1>1. Len(Dot) = 1 /\ Dot[1] = "." /\ Len(DotDot) = 2 /\ DotDot[1] = "." /\ DotDot[2] = "."
  BY DEF Dot, DotDot
<1>2. Len(<<>>) = 0
  OBVIOUS
<1>3. Dot # <<>> /\ DotDot # <<>> /\ Dot # DotDot
  BY <1>1, <1>2
<1> QED
  BY <1>1, <1>3 DEF Terms

-----------------------------------------------------------------------------
(* Where the terms of the input are *)

Offsets(A, T, n) ==
  /\ n \in Nat /\ n >= 1 /\ T \in Seq(Terms) /\ Len(T) = n
  /\ A \in [0 .. n -> Nat] /\ A[0] = 0
  /\ \A k \in 1 .. n : A[k] = A[k - 1] + Len(T[k]) + 1
  /\ \A j, k \in 0 .. n : j < k => A[j] < A[k]

\* From the term k on, b still is the input.
Ahead(b, A, T, n, k) ==
  /\ b \in Seq(Chars) /\ Len(b) = A[n] /\ b[A[n]] = NUL
  /\ \A m \in k .. n - 1 : b[A[m]] = "/"
  /\ \A m \in k .. n : \A i \in 1 .. Len(T[m]) : b[A[m - 1] + i] = T[m][i]

\* Offsets that grow from one to the next grow.
LEMMA Increasing ==
  ASSUME NEW n \in Nat, NEW A \in [0 .. n -> Nat], \A k \in 1 .. n : A[k - 1] < A[k]
  PROVE  \A j, k \in 0 .. n : j < k => A[j] < A[k]
<1> DEFINE G == {k \in 0 .. n : \A j \in 0 .. n : j < k => A[j] < A[k]}
<1>1. \A k \in 0 .. n : A[k] \in Nat
  OBVIOUS
<1>2. 0 \in G
  OBVIOUS
<1>3. ASSUME NEW m \in 0 .. n, m < n, m \in G PROVE m + 1 \in G
  <2>1. PICK k \in 1 .. n : k = m + 1 /\ k - 1 = m
    <3>1. m + 1 \in 1 .. n /\ (m + 1) - 1 = m
      BY <1>3
    <3> QED
      BY <3>1
  <2>2. A[m] < A[k] /\ A[m] \in Nat /\ A[k] \in Nat
    BY <1>1, <2>1
  <2>3. ASSUME NEW j \in 0 .. n, j < k PROVE A[j] < A[k]
    <3>1. CASE j = m
      BY <2>2, <3>1
    <3>2. CASE j < m
      <4>1. A[j] < A[m] /\ A[j] \in Nat
        BY <1>1, <1>3, <3>2
      <4> QED
        BY <2>2, <4>1
    <3> QED
      BY <2>1, <2>3, <3>1, <3>2
  <2> QED
    BY <2>1, <2>3
<1>4. 0 .. n \subseteq G
  <2> HIDE DEF G
  <2> QED
    BY <1>2, <1>3, UpTo
<1> QED
  BY <1>4

\* The input has its terms where Offsets says, with the NUL after the last.
LEMMA InputLayout ==
  ASSUME NEW T \in Seq(Terms), T # <<>>, NEW n, n = Len(T), NEW A, A = At(T)
  PROVE  /\ Offsets(A, T, n) /\ Ahead(Append(Join(T), NUL), A, T, n, 1)
         /\ A[n] = Len(Join(T)) + 1 /\ Join(T) \in Text
<1>1. T \in Seq(Text)
  <2>1. Len(T) \in Nat /\ T \in [1 .. Len(T) -> Terms] /\ Terms \subseteq Text
    BY TermFacts
  <2>2. T \in [1 .. Len(T) -> Text]
    BY <2>1
  <2> QED
    BY <2>1, <2>2
<1>2. n \in Nat /\ n >= 1
  BY EmptySeq
<1>3. \A k \in 1 .. n : T[k] \in Terms /\ T[k] \in Text /\ Len(T[k]) \in Nat
  BY TermFacts, ElementOfSeq
<1>4. /\ A \in [0 .. n -> Nat] /\ A[0] = 0 /\ A[n] = Len(Slashed(T))
      /\ \A k \in 1 .. n : A[k] = A[k - 1] + Len(T[k]) + 1
      /\ Laid(Slashed(T), T, A, n)
  BY <1>1, SlashedLayout
<1>5. \A j, k \in 0 .. n : j < k => A[j] < A[k]
  <2>1. ASSUME NEW k \in 1 .. n PROVE A[k - 1] < A[k]
    <3>1. k - 1 \in 0 .. n
      BY <1>2
    <3>2. A[k - 1] \in Nat /\ Len(T[k]) \in Nat
      BY <1>3, <1>4, <3>1
    <3> QED
      BY <1>4, <3>2
  <2> QED
    BY <1>2, <1>4, <2>1, Increasing
<1>6. PICK s : s = Join(T)
  OBVIOUS
<1>7. s \in Text /\ Slashed(T) = s \o <<"/">>
  <2>1. <<>> \in Text
    BY EmptySeq DEF Text
  <2> QED
    BY <1>1, <1>6, <2>1, JoinAppend DEF Slashed
<1>8. PICK b : b = Append(s, NUL)
  OBVIOUS
<1>9. NUL \in Chars /\ "/" \in Chars
  BY DEF Chars
<1>10. /\ b \in Seq(Chars) /\ Len(s) \in Nat /\ Len(b) = Len(s) + 1 /\ b[Len(s) + 1] = NUL
       /\ \A i \in 1 .. Len(s) : b[i] = s[i]
  <2>1. s \in Seq(Chars)
    BY <1>7 DEF Text
  <2>2. b \in Seq(Chars) /\ Len(b) = Len(s) + 1 /\ b[Len(s) + 1] = NUL
    BY <1>8, <1>9, <2>1, AppendProperties
  <2>3. \A i \in 1 .. Len(s) : b[i] = s[i]
    BY <1>8, <1>9, <2>1, AppendProperties
  <2> QED
    BY <2>1, <2>2, <2>3
<1>11. Len(Slashed(T)) = Len(s) + 1 /\ \A i \in 1 .. Len(s) : Slashed(T)[i] = b[i]
  <2>1. s \in Seq(Chars) /\ <<"/">> \in Seq(Chars) /\ Len(<<"/">>) = 1
    BY <1>7, Single DEF Text
  <2>2. Len(s \o <<"/">>) = Len(s) + 1
    BY <2>1, ConcatProperties
  <2>3. \A i \in 1 .. Len(s) + 1 : (s \o <<"/">>)[i] = IF i <= Len(s) THEN s[i] ELSE <<"/">>[i - Len(s)]
    BY <2>1, ConcatProperties
  <2>4. \A i \in 1 .. Len(s) : i \in 1 .. Len(s) + 1 /\ i <= Len(s)
    BY <1>10
  <2> QED
    BY <1>7, <1>10, <2>2, <2>3, <2>4
<1>12. \A k \in 0 .. n : A[k] \in Nat
  BY <1>4
<1>13. ASSUME NEW k \in 1 .. n - 1 PROVE b[A[k]] = "/"
  <2>1. k \in 0 .. n /\ n \in 0 .. n /\ 0 \in 0 .. n /\ k < n /\ 0 < k /\ k \in 1 .. n
    BY <1>2
  <2>2. A[0] < A[k] /\ A[k] < A[n]
    BY <1>5, <2>1
  <2>3. A[k] \in 1 .. Len(s)
    BY <1>4, <1>10, <1>11, <1>12, <2>1, <2>2
  <2>4. Slashed(T)[A[k]] = "/"
    BY <1>4, <2>1 DEF Laid
  <2> QED
    BY <1>11, <2>3, <2>4
<1>14. ASSUME NEW k \in 1 .. n, NEW i \in 1 .. Len(T[k]) PROVE b[A[k - 1] + i] = T[k][i]
  <2>1. PICK j : j = k - 1
    OBVIOUS
  <2>2. k \in 0 .. n /\ j \in 0 .. n /\ n \in 0 .. n
    BY <1>2, <2>1
  <2>31. A[j] \in Nat /\ A[k] \in Nat /\ A[n] \in Nat /\ A[k] = A[j] + Len(T[k]) + 1
    BY <1>4, <1>12, <2>1, <2>2
  <2>32. k < n => A[k] < A[n]
    BY <1>5, <2>2
  <2>33. A[k] <= A[n]
    BY <1>2, <2>31, <2>32
  <2>3. A[j] \in Nat /\ A[k] \in Nat /\ A[n] \in Nat /\ A[k] <= A[n] /\ A[k] = A[j] + Len(T[k]) + 1
    BY <2>31, <2>33
  <2>4. A[j] + i \in 1 .. Len(s)
    <3>1. PICK z \in Nat, e \in Nat, r \in Nat, d \in Nat :
            z = A[j] /\ e = A[k] /\ r = A[n] /\ d = Len(T[k]) /\ e <= r /\ e = z + d + 1
      BY <1>3, <2>3
    <3>2. r = Len(s) + 1 /\ Len(s) \in Nat
      BY <1>4, <1>10, <1>11, <3>1
    <3>3. i \in 1 .. d
      BY <3>1
    <3>4. z + i \in 1 .. Len(s)
      <4>1. z \in Nat /\ d \in Nat /\ z + d + 1 <= r
        BY <3>1
      <4> QED
        BY <3>2, <3>3, <4>1
    <3> QED
      BY <3>1, <3>4
  <2>5. Slashed(T)[A[j] + i] = T[k][i]
    BY <1>4, <2>1 DEF Laid
  <2> QED
    BY <1>11, <2>1, <2>4, <2>5
<1>15. Ahead(b, A, T, n, 1)
  BY <1>4, <1>10, <1>11, <1>13, <1>14 DEF Ahead
<1> QED
  BY <1>2, <1>4, <1>5, <1>6, <1>7, <1>8, <1>10, <1>11, <1>15 DEF Offsets

\* What the offsets give for a term.
LEMMA TermAt ==
  ASSUME NEW T, NEW A, NEW n, Offsets(A, T, n), NEW k \in 1 .. n
  PROVE  /\ n \in Nat /\ k \in Nat /\ T[k] \in Terms /\ Len(T[k]) \in Nat
         /\ A[k - 1] \in Nat /\ A[k] \in Nat /\ A[n] \in Nat
         /\ A[k] = A[k - 1] + Len(T[k]) + 1 /\ A[k] <= A[n] /\ (k < n => A[k] < A[n])
<1>1. n \in Nat /\ k \in 0 .. n /\ k - 1 \in 0 .. n /\ n \in 0 .. n /\ k \in 1 .. Len(T)
  BY DEF Offsets
<1>2. T[k] \in Terms
  BY <1>1, ElementOfSeq DEF Offsets
<1>3. Len(T[k]) \in Nat
  BY <1>2, TermFacts
<1>4. A[k - 1] \in Nat /\ A[k] \in Nat /\ A[n] \in Nat
  BY <1>1 DEF Offsets
<1>5. A[k] = A[k - 1] + Len(T[k]) + 1
  BY DEF Offsets
<1>6. k < n => A[k] < A[n]
  BY <1>1 DEF Offsets
<1>7. A[k] <= A[n]
  BY <1>1, <1>4, <1>6
<1> QED
  BY <1>1, <1>2, <1>3, <1>4, <1>5, <1>6, <1>7

\* The first character of the term k tells whether it is empty, and what ends it.
LEMMA FirstChar ==
  ASSUME NEW T, NEW A, NEW n, Offsets(A, T, n), NEW k \in 1 .. n,
         NEW b, Ahead(b, A, T, n, k), NEW x, x = A[k - 1] + 1
  PROVE  /\ (T[k] = <<>> => b[x] \in {NUL, "/"})
         /\ (T[k] # <<>> => b[x] = T[k][1] /\ b[x] \notin {NUL, "/"})
         /\ b[A[k]] = IF k = n THEN NUL ELSE "/"
         /\ NUL # "/" /\ NUL # "."
<1>1. NUL # "/" /\ NUL # "."
  BY DEF NUL
<1>2. b[A[k]] = IF k = n THEN NUL ELSE "/"
  <2>1. k # n => k \in k .. n - 1
    BY TermAt
  <2> QED
    BY <2>1 DEF Ahead
<1>3. CASE T[k] = <<>>
  <2>1. Len(T[k]) = 0
    BY <1>3, EmptySeq
  <2>2. A[k] = x
    BY <2>1, TermAt
  <2> QED
    BY <1>1, <1>2, <1>3, <2>2
<1>4. CASE T[k] # <<>>
  <2>1. T[k] \in Terms /\ k \in k .. n
    BY TermAt
  <2>2. 1 \in 1 .. Len(T[k]) /\ T[k][1] \notin {"/", NUL}
    BY <1>4, <2>1, TermFacts
  <2>3. b[A[k - 1] + 1] = T[k][1]
    BY <2>1, <2>2 DEF Ahead
  <2> QED
    BY <1>1, <1>2, <1>4, <2>2, <2>3
<1> QED
  BY <1>3, <1>4

\* Where the term at x ends in b.
EndFrom(b, x) ==
  CHOOSE j \in x .. Len(b) : b[j] \in {"/", NUL} /\ \A i \in x .. j - 1 : b[i] \notin {"/", NUL}

\* The term k ends where the next one's offset is.
LEMMA EndOfTerm ==
  ASSUME NEW T, NEW A, NEW n, Offsets(A, T, n), NEW k \in 1 .. n,
         NEW b, Ahead(b, A, T, n, k), NEW x, x = A[k - 1] + 1
  PROVE  EndFrom(b, x) = A[k]
<1> DEFINE Ends(j) == b[j] \in {"/", NUL} /\ \A i \in x .. j - 1 : b[i] \notin {"/", NUL}
<1>1. PICK l \in Nat, z \in Nat : l = Len(T[k]) /\ z = A[k - 1]
  BY TermAt
<1>2. x = z + 1 /\ x \in Nat /\ A[k] \in Nat /\ A[k] = x + l /\ A[k] <= Len(b) /\ Len(b) \in Nat
  <2>1. A[k] = z + l + 1 /\ A[k] \in Nat /\ A[n] \in Nat /\ A[k] <= A[n]
    BY <1>1, TermAt
  <2>2. Len(b) = A[n]
    BY DEF Ahead
  <2>3. x = z + 1
    BY <1>1
  <2> QED
    BY <2>1, <2>2, <2>3
<1>3. ASSUME NEW i \in x .. A[k] - 1 PROVE b[i] \notin {"/", NUL}
  <2>1. PICK d \in 1 .. l : i = z + d
    <3>1. PICK y \in Nat : y = A[k] /\ y = x + l /\ x = z + 1
      BY <1>2
    <3>2. i \in Int /\ x <= i /\ i <= y - 1
      BY <1>2, <3>1
    <3>3. z + 1 <= i /\ i <= z + l
      BY <3>1, <3>2
    <3> QED
      BY <3>2, <3>3, Between
  <2>2. b[i] = T[k][d] /\ T[k] \in Terms
    BY <1>1, <2>1, TermAt DEF Ahead
  <2> QED
    BY <1>1, <2>2, TermFacts
<1>4. Ends(A[k]) /\ A[k] \in x .. Len(b)
  <2>1. b[A[k]] \in {"/", NUL}
    BY FirstChar
  <2> QED
    BY <1>2, <1>3, <2>1
<1>5. ASSUME NEW j \in x .. Len(b), Ends(j) PROVE j = A[k]
  <2>1. j \in Nat
    BY <1>2
  <2>2. ~(j < A[k])
    <3>1. j < A[k] => j \in x .. A[k] - 1
      BY <1>2, <2>1
    <3> QED
      BY <1>3, <1>5, <3>1
  <2>3. ~(A[k] < j)
    <3>1. A[k] < j => A[k] \in x .. j - 1
      BY <1>2, <2>1
    <3> QED
      BY <1>4, <1>5, <3>1
  <2> QED
    BY <1>2, <2>1, <2>2, <2>3
<1>6. \E j \in x .. Len(b) : Ends(j)
  BY <1>4
<1> QED
  BY <1>5, <1>6 DEF EndFrom

\* Eating the slashes after the term k leads to the next term that is not
\* empty, or to the last one.
EatenFrom(b, A, T, n, k) ==
  \E m \in k + 1 .. n : /\ T[m] = <<>> => m = n
                        /\ \A i \in k + 1 .. m - 1 : T[i] = <<>>
                        /\ EatSlashes(b, A[k] + 1) = A[m - 1] + 1

\* The slashes after the term k are eaten, and the next term is reached.
LEMMA EatsTo ==
  ASSUME NEW T, NEW A, NEW n, Offsets(A, T, n), NEW k \in 1 .. n, k < n,
         NEW o, o = k + 1, NEW b, Ahead(b, A, T, n, o)
  PROVE  EatenFrom(b, A, T, n, k)
<1> DEFINE S == {m \in k + 1 .. n : T[m] # <<>> \/ m = n}
<1>1. n \in Nat /\ k \in Nat /\ n \in k + 1 .. n /\ S \in SUBSET Nat /\ n \in S
  <2>1. n \in Nat
    BY DEF Offsets
  <2>2. k \in Nat /\ n \in k + 1 .. n /\ k + 1 .. n \in SUBSET Nat
    BY <2>1
  <2> QED
    BY <2>1, <2>2
<1>2. PICK m \in S : \A y \in S : m <= y
  <2> HIDE DEF S
  <2> QED
    BY <1>1, Least
<1>3. m \in k + 1 .. n /\ m \in Nat /\ m \in 1 .. n /\ m - 1 \in k .. n - 1 /\ (T[m] = <<>> => m = n)
  BY <1>1, <1>2
<1>4. ASSUME NEW i \in k + 1 .. m - 1 PROVE T[i] = <<>>
  <2>1. i \in k + 1 .. n /\ ~(m <= i)
    BY <1>1, <1>3
  <2> QED
    BY <1>2, <2>1
<1>5. PICK w \in Nat : w = m - 1 - k
  BY <1>1, <1>3
<1> DEFINE G == {d \in 0 .. w : A[k + d] = A[k] + d}
<1>6. A[k] \in Nat /\ k \in 1 .. n
  BY <1>1, TermAt
<1>7. 0 .. w \subseteq G
  <2>1. 0 \in G
    BY <1>1, <1>6
  <2>2. ASSUME NEW d \in 0 .. w, d < w, d \in G PROVE d + 1 \in G
    <3>1. PICK i \in k + 1 .. m - 1 : i = k + (d + 1) /\ i - 1 = k + d
      <4>1. k + (d + 1) \in k + 1 .. m - 1 /\ (k + (d + 1)) - 1 = k + d
        BY <1>1, <1>3, <1>5, <2>2
      <4> QED
        BY <4>1
    <3>2. i \in 1 .. n
      BY <1>1, <1>3
    <3>3. T[i] = <<>>
      BY <1>4
    <3>4. Len(T[i]) = 0
      BY <3>3, EmptySeq
    <3>5. A[i] = A[i - 1] + 1
      BY <3>2, <3>4, TermAt
    <3>6. A[k + d] = A[k] + d
      BY <2>2
    <3>7. A[k + (d + 1)] = A[k] + (d + 1)
      BY <1>6, <3>1, <3>5, <3>6
    <3> QED
      BY <2>2, <3>7
  <2> HIDE DEF G
  <2> QED
    BY <2>1, <2>2, UpTo
<1>8. PICK x \in Nat : x = A[k] + 1
  BY <1>6
<1>9. PICK e \in Nat : e = A[m - 1] + 1
  BY <1>3, TermAt
<1>10. e = x + w
  <2>1. w \in 0 .. w /\ k + w = m - 1
    BY <1>1, <1>3, <1>5
  <2>2. A[k + w] = A[k] + w
    BY <1>7, <2>1
  <2> QED
    BY <1>6, <1>8, <1>9, <2>1, <2>2
<1>11. ASSUME NEW i \in x .. e - 1 PROVE b[i] = "/"
  <2>1. PICK d \in 1 .. w : i = A[k] + d
    <3>1. PICK z \in Nat : z = A[k]
      BY <1>6
    <3>2. i \in Int /\ x <= i /\ i <= e - 1
      BY <1>8, <1>9
    <3>3. z + 1 <= i /\ i <= z + w
      <4>1. x = z + 1
        BY <1>8, <3>1
      <4>2. e = z + 1 + w
        BY <1>10, <4>1
      <4>3. i <= (z + 1 + w) - 1
        BY <3>2, <4>2
      <4>4. i \in Int /\ z \in Nat /\ w \in Nat
        BY <1>5, <3>1, <3>2
      <4> QED
        BY <3>2, <4>1, <4>3, <4>4
    <3> QED
      BY <3>1, <3>2, <3>3, Between
  <2>2. d \in 0 .. w /\ k + d \in k + 1 .. n - 1
    BY <1>1, <1>3, <1>5
  <2>3. A[k + d] = i
    BY <1>7, <2>1, <2>2
  <2> QED
    BY <2>2, <2>3 DEF Ahead
<1>12. b[e] # "/" /\ e \in x .. Len(b)
  <2>1. Ahead(b, A, T, n, m)
    <3>1. \A j \in m .. n : j \in k + 1 .. n
      BY <1>1, <1>3
    <3>2. \A j \in m .. n - 1 : j \in k + 1 .. n - 1
      BY <1>1, <1>3
    <3> QED
      BY <3>1, <3>2 DEF Ahead
  <2>2. b[e] # "/"
    <3>1. CASE T[m] # <<>>
      BY <1>3, <1>9, <2>1, <3>1, FirstChar
    <3>2. CASE T[m] = <<>>
      <4>1. m = n /\ Len(T[m]) = 0
        BY <1>3, <3>2, EmptySeq
      <4>2. A[m] = e
        BY <1>3, <1>9, <4>1, TermAt
      <4> QED
        BY <1>3, <1>9, <2>1, <4>1, <4>2, FirstChar
    <3> QED
      BY <3>1, <3>2
  <2>3. e <= Len(b) /\ Len(b) \in Nat
    <3>1. PICK z \in Nat, l \in Nat, r \in Nat, g \in Nat :
            z = A[m - 1] /\ l = Len(T[m]) /\ r = A[n] /\ g = A[m] /\ g = z + l + 1 /\ g <= r
      <4>1. A[m - 1] \in Nat /\ Len(T[m]) \in Nat /\ A[n] \in Nat /\ A[m] \in Nat
        BY <1>3, TermAt
      <4>2. A[m] = A[m - 1] + Len(T[m]) + 1 /\ A[m] <= A[n]
        BY <1>3, TermAt
      <4> QED
        BY <4>1, <4>2
    <3>2. Len(b) = r /\ e = z + 1
      BY <1>9, <3>1 DEF Ahead
    <3>3. z + 1 <= r
      <4>1. z \in Nat /\ l \in Nat /\ r \in Nat /\ z + l + 1 <= r
        BY <3>1
      <4> QED
        BY <4>1
    <3>4. e <= r /\ r \in Nat
      BY <3>1, <3>2, <3>3
    <3> QED
      BY <3>2, <3>4
  <2> QED
    BY <1>10, <2>2, <2>3
<1>13. EatSlashes(b, x) = e
  <2> DEFINE Stops(j) == b[j] # "/" /\ \A i \in x .. j - 1 : b[i] = "/"
  <2>1. Stops(e) /\ e \in x .. Len(b)
    BY <1>11, <1>12
  <2>2. ASSUME NEW j \in x .. Len(b), Stops(j) PROVE j = e
    <3>1. j \in Int
      OBVIOUS
    <3>2. j < e => j \in x .. e - 1
      BY <3>1
    <3>3. e < j => e \in x .. j - 1
      BY <1>10, <3>1
    <3> QED
      BY <1>11, <1>12, <2>2, <3>1, <3>2, <3>3
  <2>3. \E j \in x .. Len(b) : Stops(j)
    BY <2>1
  <2>4. EatSlashes(b, x) = CHOOSE j \in x .. Len(b) : Stops(j)
    BY DEF EatSlashes
  <2> QED
    BY <2>2, <2>3, <2>4
<1> QED
  BY <1>3, <1>4, <1>8, <1>9, <1>13 DEF EatenFrom

\* b has t and a slash from x to e.
HasTerm(b, x, e, t) == b[x] = "." /\ SubSeq(b, x, e) = Append(t, "/")

\* TermIs tells the terms '.' and '..' that are not the last.
LEMMA TermIsDots ==
  ASSUME NEW T, NEW A, NEW n, Offsets(A, T, n), NEW k \in 1 .. n,
         NEW b, Ahead(b, A, T, n, k), NEW x, x = A[k - 1] + 1
  PROVE  \A t \in {Dot, DotDot} : HasTerm(b, x, A[k], t) <=> (T[k] = t /\ k < n)
<1> TAKE t \in {Dot, DotDot}
<1>1. T[k] \in Terms /\ t \in Terms /\ t # <<>> /\ t[1] = "." /\ n \in Nat /\ k <= n
  BY DotFacts, TermAt
<1>2. PICK u : u = T[k] /\ u \in Seq(Chars) /\ Len(u) \in Nat
  BY <1>1, TermFacts DEF Text
<1>3. t \in Seq(Chars) /\ "/" \in Chars /\ Len(t) \in Nat
  BY <1>1, TermFacts DEF Text, Chars
<1>4. PICK a : a = Append(t, "/")
  OBVIOUS
<1>5. a \in Seq(Chars) /\ Len(a) = Len(t) + 1 /\ a[Len(t) + 1] = "/" /\ \A i \in 1 .. Len(t) : a[i] = t[i]
  BY <1>3, <1>4, AppendProperties
<1>6. PICK c : c = SubSeq(b, x, A[k])
  OBVIOUS
<1>7. b \in Seq(Chars) /\ Len(b) \in Nat
  BY DEF Ahead
<1>81. PICK z \in Nat : z = A[k - 1]
  BY TermAt
<1>8. x = z + 1 /\ x \in Nat /\ x >= 1 /\ A[k] \in Nat /\ A[k] = x + Len(u) /\ A[k] <= Len(b)
  <2>1. A[k] = z + Len(u) + 1 /\ A[k] \in Nat /\ A[n] \in Nat /\ A[k] <= A[n]
    BY <1>2, <1>81, TermAt
  <2>2. Len(b) = A[n]
    BY DEF Ahead
  <2>3. x = z + 1
    BY <1>81
  <2> QED
    BY <1>2, <2>1, <2>2, <2>3
<1>9. c \in Seq(Chars) /\ Len(c) = Len(u) + 1 /\ \A i \in 1 .. Len(u) + 1 : c[i] = b[x + i - 1]
  <2>1. \A i \in x .. A[k] : b[i] \in Chars
    <3>1. \A i \in x .. A[k] : i \in 1 .. Len(b)
      BY <1>7, <1>8
    <3> QED
      BY <1>7, <3>1, ElementOfSeq
  <2>3. PICK y \in Nat, v \in Nat : y = A[k] /\ v = Len(u) /\ y = x + v
    BY <1>2, <1>8
  <2>2. y - x + 1 = v + 1 /\ x \in Int /\ y \in Int /\ x <= y
    BY <1>8, <2>3
  <2>4. SubSeq(b, x, y) \in Seq(Chars) /\ Len(SubSeq(b, x, y)) = Len(u) + 1
        /\ \A i \in 1 .. Len(u) + 1 : SubSeq(b, x, y)[i] = b[x + i - 1]
    <3>1. \A i \in x .. y : b[i] \in Chars
      BY <2>1, <2>3
    <3>2. y - x + 1 = Len(u) + 1
      BY <2>2, <2>3
    <3>3. x \in Int /\ y \in Int /\ x <= y
      BY <2>2
    <3>4. SubSeq(b, x, y) \in Seq(Chars)
          /\ Len(SubSeq(b, x, y)) = (IF x <= y THEN y - x + 1 ELSE 0)
          /\ \A i \in 1 .. y - x + 1 : SubSeq(b, x, y)[i] = b[x + i - 1]
      BY <3>1, <3>3, SubSeqProperties
    <3> QED
      BY <3>2, <3>3, <3>4
  <2> QED
    BY <1>6, <2>3, <2>4
<1>10. \A i \in 1 .. Len(u) : c[i] = u[i]
  <2>1. \A i \in 1 .. Len(u) : i \in 1 .. Len(u) + 1 /\ x + i - 1 = z + i
    BY <1>2, <1>8
  <2>2. \A i \in 1 .. Len(u) : b[z + i] = u[i]
    <3>1. k \in k .. n
      BY <1>1, TermAt
    <3> QED
      BY <1>2, <1>81, <3>1 DEF Ahead
  <2> QED
    BY <1>9, <2>1, <2>2
<1>11. c[Len(u) + 1] = b[A[k]]
  <2>1. PICK y \in Nat, v \in Nat : y = A[k] /\ v = Len(u) /\ y = x + v
    BY <1>2, <1>8
  <2>2. v + 1 \in 1 .. v + 1 /\ x + (v + 1) - 1 = y
    BY <1>8, <2>1
  <2> QED
    BY <1>9, <2>1, <2>2
<1>12. ASSUME T[k] = t, k < n PROVE b[x] = "." /\ c = a
  <2>1. b[x] = "." /\ b[A[k]] = "/" /\ u = t
    BY <1>1, <1>2, <1>12, FirstChar
  <2>2. \A i \in 1 .. Len(t) + 1 : i \in 1 .. Len(t) \/ i = Len(t) + 1
    BY <1>3
  <2>3. \A i \in 1 .. Len(t) + 1 : c[i] = a[i]
    BY <1>5, <1>10, <1>11, <2>1, <2>2
  <2>4. Len(c) = Len(a) /\ Len(a) = Len(t) + 1
    BY <1>5, <1>9, <2>1
  <2> QED
    BY <1>5, <1>9, <2>1, <2>3, <2>4, SeqEqual
<1>13. ASSUME c = a PROVE T[k] = t /\ k < n
  <2>1. Len(u) = Len(t)
    BY <1>2, <1>3, <1>5, <1>9, <1>13
  <2>2. \A i \in 1 .. Len(u) : u[i] = t[i]
    BY <1>5, <1>10, <1>13, <2>1
  <2>3. u = t
    BY <1>2, <1>3, <2>1, <2>2, SeqEqual
  <2>4. b[A[k]] = "/"
    BY <1>5, <1>11, <1>13, <2>1
  <2>5. k # n
    BY <2>4, FirstChar
  <2> QED
    BY <1>1, <1>2, <2>3, <2>5
<1> QED
  BY <1>4, <1>6, <1>12, <1>13 DEF HasTerm

-----------------------------------------------------------------------------
(* The output *)

\* The names ns, with a slash after each, are in b up to y.
Written(b, y, ns) ==
  /\ y = Len(Slashed(ns)) + 1
  /\ \A i \in 1 .. Len(Slashed(ns)) : b[i] = Slashed(ns)[i]

\* Names are texts, and so are they together.
LEMMA NamesText ==
  ASSUME NEW ns \in Seq(Names)
  PROVE  ns \in Seq(Text) /\ Slashed(ns) \in Text /\ Len(Slashed(ns)) \in Nat
<1>1. \A t \in Names : t \in Text
  BY TermFacts DEF Terms
<1>2. ns \in Seq(Text)
  <2>1. Len(ns) \in Nat /\ ns \in [1 .. Len(ns) -> Names] /\ Names \subseteq Text
    BY <1>1
  <2>2. ns \in [1 .. Len(ns) -> Text]
    BY <2>1
  <2> QED
    BY <2>1, <2>2
<1>3. Slashed(ns) \in Text
  <2>1. <<>> \in Text
    BY EmptySeq DEF Text
  <2> QED
    BY <1>2, <2>1, JoinAppend
<1>4. Len(Slashed(ns)) \in Nat
  BY <1>3 DEF Text
<1> QED
  BY <1>2, <1>3, <1>4

\* One more name takes its own characters and a slash.
LEMMA OneMore ==
  ASSUME NEW ns \in Seq(Names), NEW t \in Names
  PROVE  /\ Append(ns, t) \in Seq(Names) /\ Append(ns, t) # <<>>
         /\ Join(Append(ns, t)) = Slashed(ns) \o t
         /\ Slashed(ns) \in Seq(Chars) /\ Len(Slashed(ns)) \in Nat
         /\ t \in Seq(Chars) /\ Len(t) \in Nat /\ Len(t) >= 1
         /\ Len(Slashed(Append(ns, t))) = Len(Slashed(ns)) + Len(t) + 1
         /\ Slashed(Append(ns, t))[Len(Slashed(ns)) + Len(t) + 1] = "/"
         /\ \A i \in 1 .. Len(Slashed(ns)) : Slashed(Append(ns, t))[i] = Slashed(ns)[i]
         /\ \A i \in 1 .. Len(t) : Slashed(Append(ns, t))[Len(Slashed(ns)) + i] = t[i] /\ t[i] # "/"
<1>0. PICK s, c : s = Slashed(ns) /\ c = Slashed(Append(ns, t))
  OBVIOUS
<1>1. ns \in Seq(Text) /\ s \in Text /\ Len(s) \in Nat
  BY <1>0, NamesText
<1>2. t \in Text /\ Len(t) \in Nat /\ 1 \in 1 .. Len(t) /\ \A i \in 1 .. Len(t) : t[i] # "/"
  <2>1. t \in Terms
    BY DEF Terms
  <2> QED
    BY <2>1, TermFacts
<1>3. Join(Append(ns, t)) = s \o t /\ c = (s \o t) \o <<"/">>
  BY <1>0, <1>1, <1>2, JoinAppend
<1>4. /\ Len(c) = Len(s) + Len(t) + 1 /\ c[Len(s) + Len(t) + 1] = "/"
      /\ \A i \in 1 .. Len(s) : c[i] = s[i]
      /\ \A i \in 1 .. Len(t) : c[Len(s) + i] = t[i]
  BY <1>1, <1>2, <1>3, Concat3
<1>5. Append(ns, t) \in Seq(Names) /\ Append(ns, t) # <<>>
  BY AppendProperties
<1>6. s \in Seq(Chars) /\ t \in Seq(Chars) /\ Len(t) >= 1
  BY <1>1, <1>2 DEF Text
<1>7. \A i \in 1 .. Len(t) : c[Len(s) + i] = t[i] /\ t[i] # "/"
  BY <1>2, <1>4
<1> QED
  BY <1>0, <1>1, <1>2, <1>3, <1>4, <1>5, <1>6, <1>7

\* A sequence is its front and its last element.
LEMMA FrontLast ==
  ASSUME NEW C, NEW ns \in Seq(C), ns # <<>>
  PROVE  Front(ns) \in Seq(C) /\ Last(ns) \in C /\ ns = Append(Front(ns), Last(ns))
<1>1. Len(ns) \in Nat /\ Len(ns) # 0
  BY EmptySeq
<1>2. PICK k \in 1 .. Len(ns) : k = Len(ns)
  BY <1>1
<1>3. k - 1 \in 0 .. Len(ns)
  BY <1>1
<1>4. SubSeq(ns, 1, k - 1) \in Seq(C) /\ ns[k] \in C
      /\ SubSeq(ns, 1, k) = Append(SubSeq(ns, 1, k - 1), ns[k])
  BY <1>3, PrefixFacts
<1>5. SubSeq(ns, 1, k) = ns
  BY <1>2, PrefixFacts
<1> QED
  BY <1>2, <1>4, <1>5 DEF Front, Last

\* What is written ends in a slash, if it is anything.
LEMMA SlashedEnd ==
  /\ Len(Slashed(<<>>)) = 0
  /\ \A ns \in Seq(Names) : ns # <<>> => Slashed(ns)[Len(Slashed(ns))] = "/" /\ Len(Slashed(ns)) >= 1
<1>1. Len(Slashed(<<>>)) = 0
  BY EmptySeq DEF Slashed
<1>2. ASSUME NEW ns \in Seq(Names), ns # <<>>
      PROVE  Slashed(ns)[Len(Slashed(ns))] = "/" /\ Len(Slashed(ns)) >= 1
  <2>1. PICK f \in Seq(Names), t \in Names : ns = Append(f, t)
    BY <1>2, FrontLast
  <2>2. PICK c, s : c = Slashed(Append(f, t)) /\ s = Slashed(f)
    OBVIOUS
  <2>3. Len(c) = Len(s) + Len(t) + 1 /\ c[Len(s) + Len(t) + 1] = "/" /\ Len(s) \in Nat /\ Len(t) \in Nat
    BY <2>1, <2>2, OneMore
  <2>4. c[Len(c)] = "/" /\ Len(c) >= 1
    BY <2>3
  <2> QED
    BY <2>1, <2>2, <2>4
<1> QED
  BY <1>1, <1>2

\* Nothing is written if and only if there are no names.
LEMMA WrittenNothing ==
  ASSUME NEW b, NEW y, NEW ns \in Seq(Names), Written(b, y, ns)
  PROVE  /\ y \in Nat /\ y >= 1 /\ (y = 1 <=> ns = <<>>)
         /\ (y > 1 => b[y - 1] = "/")
<1>1. PICK l \in Nat : l = Len(Slashed(ns))
  BY NamesText
<1>2. y = l + 1 /\ \A i \in 1 .. l : b[i] = Slashed(ns)[i]
  BY <1>1 DEF Written
<1>3. ns = <<>> => l = 0
  BY <1>1, SlashedEnd
<1>4. ns # <<>> => l >= 1 /\ Slashed(ns)[l] = "/"
  BY <1>1, SlashedEnd
<1>5. ns # <<>> => b[l] = "/"
  BY <1>2, <1>4
<1>6. y - 1 = l
  BY <1>2
<1> QED
  BY <1>2, <1>3, <1>4, <1>5, <1>6

\* Going back over the output takes its last name away.
LEMMA BackOne ==
  ASSUME NEW b, NEW y, NEW ns \in Seq(Names), Written(b, y, ns), ns # <<>>,
         NEW z, z = CHOOSE k \in 1 .. y - 1 :
                      /\ k = 1 \/ b[k - 1] = "/"
                      /\ \A i \in k + 1 .. y - 1 : b[i - 1] # "/"
  PROVE  Front(ns) \in Seq(Names) /\ Written(b, z, Front(ns)) /\ z \in Nat /\ z <= y
<1> DEFINE Starts(k) == (k = 1 \/ b[k - 1] = "/") /\ \A i \in k + 1 .. y - 1 : b[i - 1] # "/"
<1>1. PICK f \in Seq(Names), t \in Names : ns = Append(f, t) /\ f = Front(ns)
  BY FrontLast
<1>2. PICK c, s : c = Slashed(Append(f, t)) /\ s = Slashed(f)
  OBVIOUS
<1>3. PICK l \in Nat, d \in Nat : l = Len(s) /\ d = Len(t) /\ d >= 1
  BY <1>2, OneMore
<1>4. /\ y = l + d + 2
      /\ \A i \in 1 .. l + d + 1 : b[i] = c[i]
      /\ \A i \in 1 .. l : c[i] = s[i]
      /\ \A i \in 1 .. d : c[l + i] = t[i] /\ t[i] # "/"
  <2>1. /\ Len(c) = l + d + 1
        /\ \A i \in 1 .. l : c[i] = s[i]
        /\ \A i \in 1 .. d : c[l + i] = t[i] /\ t[i] # "/"
    <3>1. Len(c) = Len(s) + Len(t) + 1
      BY <1>2, OneMore
    <3>2. \A i \in 1 .. Len(s) : c[i] = s[i]
      BY <1>2, OneMore
    <3>3. \A i \in 1 .. Len(t) : c[Len(s) + i] = t[i] /\ t[i] # "/"
      BY <1>2, OneMore
    <3> QED
      BY <1>3, <3>1, <3>2, <3>3
  <2>2. y = Len(c) + 1 /\ \A i \in 1 .. Len(c) : b[i] = c[i]
    BY <1>1, <1>2 DEF Written
  <2> QED
    BY <2>1, <2>2
<1>5. \A i \in 1 .. l : b[i] = s[i]
  BY <1>4
<1>6. ASSUME NEW i \in l + 2 .. y - 1 PROVE b[i - 1] # "/"
  <2>1. PICK j \in Int : j = i - 1
    OBVIOUS
  <2>2. l + 1 <= j /\ j <= l + d
    BY <1>4, <2>1
  <2>3. PICK e \in 1 .. d : j = l + e
    BY <1>3, <2>1, <2>2, Between
  <2>4. j \in 1 .. l + d + 1
    BY <2>1, <2>2
  <2>5. b[j] = t[e] /\ t[e] # "/"
    BY <1>4, <2>3, <2>4
  <2> QED
    BY <2>1, <2>5
<1>7. l # 0 => b[l] = "/"
  <2>1. f = <<>> => l = 0
    BY <1>2, <1>3, SlashedEnd
  <2>2. f # <<>> => s[l] = "/"
    BY <1>2, <1>3, SlashedEnd
  <2> QED
    BY <1>5, <2>1, <2>2
<1>8. Starts(l + 1) /\ l + 1 \in 1 .. y - 1
  <2>1. l + 1 = 1 \/ b[(l + 1) - 1] = "/"
    BY <1>7
  <2>2. \A i \in (l + 1) + 1 .. y - 1 : b[i - 1] # "/"
    <3>1. \A i \in (l + 1) + 1 .. y - 1 : i \in l + 2 .. y - 1
      OBVIOUS
    <3> QED
      BY <1>6, <3>1
  <2>3. l + 1 \in 1 .. y - 1
    BY <1>4
  <2> QED
    BY <2>1, <2>2, <2>3
<1>9. ASSUME NEW k \in 1 .. y - 1, Starts(k) PROVE k = l + 1
  <2>1. k \in Nat /\ y \in Nat
    BY <1>4
  <2>2. k < l + 1 => l + 1 \in k + 1 .. y - 1 /\ l # 0 /\ (l + 1) - 1 = l
    BY <1>4, <2>1
  <2>3. ~(k < l + 1)
    BY <1>7, <1>9, <2>2
  <2>4. l + 1 < k => k \in l + 2 .. y - 1 /\ k # 1
    BY <1>4, <2>1
  <2>5. ~(l + 1 < k)
    BY <1>6, <1>9, <2>4
  <2> QED
    BY <2>1, <2>3, <2>5
<1>10. z = l + 1
  <2>1. \E k \in 1 .. y - 1 : Starts(k)
    BY <1>8
  <2>2. z = CHOOSE k \in 1 .. y - 1 : Starts(k)
    OBVIOUS
  <2> QED
    BY <1>9, <2>1, <2>2
<1>11. Written(b, z, f)
  BY <1>2, <1>3, <1>5, <1>10 DEF Written
<1>12. l + 1 <= y /\ l + 1 \in Nat
  BY <1>3, <1>4
<1>13. z \in Nat /\ z <= y
  BY <1>10, <1>12
<1> QED
  BY <1>1, <1>11, <1>13

\* b with the m characters after z copied down to after l.
CopiedDown(b, r, l, z, m) == [i \in 1 .. r |-> IF i \in l + 1 .. l + m THEN b[i - l + z] ELSE b[i]]

\* What that makes of b.
DownTo(c, b, r, l, z, m) ==
  /\ c \in Seq(Chars) /\ Len(c) = r
  /\ \A i \in 1 .. l : c[i] = b[i]
  /\ \A i \in 1 .. m : c[l + i] = b[z + i]
  /\ \A i \in 1 .. r : z + m < i => c[i] = b[i]

\* Copying down over what has been read keeps the text copied, and what lies behind it.
LEMMA CopyDown ==
  ASSUME NEW l \in Nat, NEW z \in Nat, NEW m \in Nat, NEW r \in Nat, l <= z, z + m <= r,
         NEW b \in Seq(Chars), Len(b) = r
  PROVE  DownTo(CopiedDown(b, r, l, z, m), b, r, l, z, m)
<1> DEFINE c == CopiedDown(b, r, l, z, m)
<1> USE DEF CopiedDown
<1>1. \A i \in 1 .. r : b[i] \in Chars
  BY ElementOfSeq
<1>2. ASSUME NEW i \in 1 .. r PROVE c[i] \in Chars
  <2>1. CASE i \in l + 1 .. l + m
    <3>1. i - l + z \in 1 .. r
      BY <2>1
    <3> QED
      BY <1>1, <2>1, <3>1
  <2>2. CASE i \notin l + 1 .. l + m
    BY <1>1, <2>2
  <2> QED
    BY <2>1, <2>2
<1>3. c \in Seq(Chars) /\ Len(c) = r
  <2>1. c = [i \in 1 .. r |-> c[i]]
    OBVIOUS
  <2>2. c \in [1 .. r -> Chars]
    BY <1>2, <2>1
  <2> QED
    BY <2>2
<1>4. ASSUME NEW i \in 1 .. l PROVE c[i] = b[i]
  <2>1. i \in 1 .. r /\ i \notin l + 1 .. l + m
    OBVIOUS
  <2> QED
    BY <2>1
<1>5. ASSUME NEW i \in 1 .. m PROVE c[l + i] = b[z + i]
  <2>1. PICK g \in Int : g = l + i
    OBVIOUS
  <2>2. g \in 1 .. r /\ g \in l + 1 .. l + m /\ g - l + z = z + i
    BY <2>1
  <2>3. c[g] = b[g - l + z]
    BY <2>2
  <2> QED
    BY <2>1, <2>2, <2>3
<1>6. ASSUME NEW i \in 1 .. r, z + m < i PROVE c[i] = b[i]
  <2>1. i \notin l + 1 .. l + m
    BY <1>6
  <2> QED
    BY <2>1
<1> QED
  BY <1>3, <1>4, <1>5, <1>6 DEF DownTo

\* The arithmetic of copying: a name of d characters, from z to l, of a buffer of r.
LEMMA CopySizes ==
  ASSUME NEW l \in Nat, NEW d \in Nat, NEW z \in Nat, NEW e \in Nat, NEW r \in Nat,
         NEW m \in Nat, m = d \/ m = d + 1, l <= z, d >= 1, e = z + d + 1, e <= r, m = d + 1 => e < r
  PROVE  /\ m \in Nat /\ m >= 1 /\ d <= m /\ z + m <= e /\ z + m < r /\ l + m + 1 <= e + 1
         /\ l + m + 1 \in Nat /\ l + 1 < l + m + 1 /\ (l + 1) + m - 1 = l + m /\ (l + 1) + m = l + m + 1
         /\ m = d + 1 => m \in 1 .. m /\ z + m = e /\ l + m = l + d + 1
<1>2. CASE m = d
  BY <1>2
<1>3. CASE m = d + 1
  BY <1>3
<1> QED
  BY <1>2, <1>3

\* c is b as CopyName writes it.
CopiedTo(c, b, x, y, m) ==
  c = [i \in 1 .. Len(b) |-> IF i \in y .. y + m - 1 THEN b[i - y + x] ELSE b[i]]

\* What is copied of the name k, which begins at x: its slash too, if it has one.
Copies(A, n, k, x, m) == m = IF k = n THEN A[k] - x ELSE A[k] - x + 1

\* The name k is in c from y on; the terms after it are as they were.
NameIn(c, A, T, n, k, ns, y, m) ==
  /\ Ahead(c, A, T, n, k + 1)
  /\ y \in Nat /\ m \in Nat /\ y + m <= A[k] + 1 /\ y < y + m
  /\ k # n => Written(c, y + m, Append(ns, T[k]))
  /\ k = n => /\ SubSeq(c, 1, y + m - 1) = Slashed(ns) \o T[k]
              /\ SubSeq(c, y, y + m - 1) = T[k]

\* Copying the name k down to y writes it, and does not touch the rest.
LEMMA Copied ==
  ASSUME NEW T, NEW A, NEW n, Offsets(A, T, n), NEW k \in 1 .. n,
         NEW b, Ahead(b, A, T, n, k), NEW x, x = A[k - 1] + 1,
         NEW ns \in Seq(Names), NEW y, Written(b, y, ns), y <= x, T[k] \in Names,
         NEW m, Copies(A, n, k, x, m),
         NEW c, CopiedTo(c, b, x, y, m)
  PROVE  NameIn(c, A, T, n, k, ns, y, m)
<1>0. PICK t \in Names : t = T[k]
  OBVIOUS
<1>1. PICK s, u : s = Slashed(ns) /\ u = Slashed(Append(ns, t))
  OBVIOUS
<1>2. PICK l \in Nat, d \in Nat, z \in Nat, e \in Nat, r \in Nat :
        l = Len(s) /\ d = Len(t) /\ z = A[k - 1] /\ e = A[k] /\ r = A[n]
  <2>1. Len(s) \in Nat /\ Len(t) \in Nat
    BY <1>1, OneMore
  <2>2. A[k - 1] \in Nat /\ A[k] \in Nat /\ A[n] \in Nat
    BY TermAt
  <2> QED
    BY <2>1, <2>2
<1>21. l \in Nat /\ d \in Nat /\ z \in Nat /\ e \in Nat /\ r \in Nat
  BY <1>2
<1>3. d >= 1 /\ s \in Seq(Chars) /\ t \in Seq(Chars)
  BY <1>1, <1>2, OneMore
<1>4. /\ x = z + 1 /\ e = z + d + 1 /\ y = l + 1 /\ e <= r /\ (k # n => e < r) /\ (k = n => e = r)
      /\ b \in Seq(Chars) /\ Len(b) = r
  <2>1. A[k] = A[k - 1] + Len(T[k]) + 1 /\ A[k] <= A[n] /\ (k < n => A[k] < A[n])
        /\ k <= n /\ n \in Nat /\ k \in Nat
    BY TermAt
  <2>2. e = z + d + 1 /\ e <= r /\ (k < n => e < r)
    BY <1>0, <1>2, <2>1
  <2>3. y = l + 1
    BY <1>1, <1>2 DEF Written
  <2>4. b \in Seq(Chars) /\ Len(b) = r
    BY <1>2 DEF Ahead
  <2>5. x = z + 1
    BY <1>2
  <2>6. k # n => k < n
    BY <2>1
  <2> QED
    BY <1>2, <2>2, <2>3, <2>4, <2>5, <2>6
<1>41. x = z + 1 /\ e = z + d + 1 /\ y = l + 1 /\ e <= r /\ (k # n => e < r) /\ (k = n => e = r)
  BY <1>4
<1>42. d >= 1
  BY <1>3
<1>5. l <= z
  <2>1. l + 1 <= z + 1
    BY <1>4
  <2> QED
    BY <1>2, <2>1
<1>6. m = (IF k = n THEN d ELSE d + 1)
  <2>1. m = IF k = n THEN e - (z + 1) ELSE e - (z + 1) + 1
    BY <1>2, <1>4 DEF Copies
  <2>2. e - (z + 1) = d /\ e - (z + 1) + 1 = d + 1
    BY <1>21, <1>41
  <2> QED
    BY <2>1, <2>2
<1>70. l \in Nat /\ l + 1 = y
  BY <1>21, <1>41
<1>7. /\ m \in Nat /\ m >= 1 /\ d <= m /\ z + m <= e /\ z + m < r /\ l + m + 1 <= e + 1
      /\ l + m + 1 \in Nat /\ y < l + m + 1 /\ y + m - 1 = l + m /\ y + m = l + m + 1
      /\ m = d + 1 => m \in 1 .. m /\ z + m = e /\ l + m = l + d + 1
  <2>1. (m = d \/ m = d + 1) /\ (m = d + 1 => e < r)
    <3>1. m = d \/ (m = d + 1 /\ k # n)
      BY <1>6
    <3>2. m = d => m # d + 1
      BY <1>21
    <3> QED
      BY <1>41, <3>1, <3>2
  <2>2. /\ m \in Nat /\ m >= 1 /\ d <= m /\ z + m <= e /\ z + m < r /\ l + m + 1 <= e + 1
        /\ l + m + 1 \in Nat /\ l + 1 < l + m + 1 /\ (l + 1) + m - 1 = l + m /\ (l + 1) + m = l + m + 1
        /\ m = d + 1 => m \in 1 .. m /\ z + m = e /\ l + m = l + d + 1
    <3>1. PICK m1 \in Nat : m1 = m
      BY <1>21, <2>1
    <3>2. m1 = d \/ m1 = d + 1
      BY <2>1, <3>1
    <3>3. e = z + d + 1 /\ e <= r /\ (m1 = d + 1 => e < r)
      BY <1>41, <2>1, <3>1
    <3>4. /\ m1 >= 1 /\ d <= m1 /\ z + m1 <= e /\ z + m1 < r /\ l + m1 + 1 <= e + 1
          /\ l + m1 + 1 \in Nat /\ l + 1 < l + m1 + 1 /\ (l + 1) + m1 - 1 = l + m1
          /\ (l + 1) + m1 = l + m1 + 1
          /\ m1 = d + 1 => m1 \in 1 .. m1 /\ z + m1 = e /\ l + m1 = l + d + 1
      BY <1>21, <1>42, <1>5, <3>2, <3>3, CopySizes
    <3> QED
      BY <3>1, <3>4
  <2> QED
    BY <1>70, <2>2
<1>71. m \in Nat /\ d <= m /\ z + m <= e /\ z + m < r
  BY <1>7
<1>72. c = CopiedDown(b, r, l, z, m)
  <2>1. \A i \in 1 .. r : i - y + x = i - l + z
    <3>1. \A i \in 1 .. r : i - (l + 1) + (z + 1) = i - l + z
      BY <1>2
    <3> QED
      BY <1>4, <3>1
  <2>2. y .. y + m - 1 = l + 1 .. l + m
    BY <1>4, <1>7
  <2>3. 1 .. Len(b) = 1 .. r
    BY <1>4
  <2> QED
    BY <2>1, <2>2, <2>3 DEF CopiedDown, CopiedTo
<1>73. /\ c \in Seq(Chars) /\ Len(c) = r
       /\ \A i \in 1 .. l : c[i] = b[i]
       /\ \A i \in 1 .. m : c[l + i] = b[z + i]
       /\ \A i \in 1 .. r : z + m < i => c[i] = b[i]
  <2>1. z + m <= r
    BY <1>21, <1>71
  <2>2. b \in Seq(Chars) /\ Len(b) = r
    BY <1>4
  <2>3. m \in Nat
    BY <1>7
  <2> QED
    <3>0. PICK m1 \in Nat, b1 \in Seq(Chars) : m1 = m /\ b1 = b
      BY <2>2, <2>3
    <3>1. PICK c1 : c1 = CopiedDown(b1, r, l, z, m1) /\ m1 = m /\ b1 = b
      BY <3>0
    <3>2. l <= z /\ z + m1 <= r /\ Len(b1) = r
      BY <1>5, <2>1, <2>2, <3>1
    <3>3. /\ c1 \in Seq(Chars) /\ Len(c1) = r
          /\ \A i \in 1 .. l : c1[i] = b1[i]
          /\ \A i \in 1 .. m1 : c1[l + i] = b1[z + i]
          /\ \A i \in 1 .. r : z + m1 < i => c1[i] = b1[i]
      <4>1. l \in Nat /\ z \in Nat /\ r \in Nat /\ m1 \in Nat /\ b1 \in Seq(Chars)
        BY <1>21, <3>0
      <4>2. DownTo(CopiedDown(b1, r, l, z, m1), b1, r, l, z, m1)
        BY <3>2, <4>1, CopyDown
      <4>3. DownTo(c1, b1, r, l, z, m1)
        BY <3>1, <4>2
      <4> QED
        BY <4>3 DEF DownTo
    <3>4. c = c1
      BY <1>72, <3>1
    <3> QED
      BY <3>1, <3>3, <3>4
<1>8. \A i \in 1 .. l : c[i] = s[i]
  BY <1>1, <1>2, <1>73 DEF Written
<1>9. ASSUME NEW i \in 1 .. d PROVE c[l + i] = t[i]
  <2>1. i \in 1 .. m
    BY <1>2, <1>7
  <2>2. k \in k .. n
    BY TermAt
  <2>3. b[A[k - 1] + i] = T[k][i]
    BY <1>0, <1>2, <2>2 DEF Ahead
  <2> QED
    BY <1>0, <1>2, <1>73, <2>1, <2>3
<1>10. ASSUME k # n PROVE c[l + d + 1] = "/"
  <2>1. m = d + 1 /\ m \in 1 .. m /\ z + m = e /\ l + m = l + d + 1
    <3>1. m = d + 1
      BY <1>6, <1>10
    <3> QED
      BY <1>7, <3>1
  <2>2. c[l + m] = b[z + m]
    BY <1>73, <2>1
  <2>3. b[e] = "/"
    <3>1. b[A[k]] = IF k = n THEN NUL ELSE "/"
      BY FirstChar
    <3> QED
      BY <1>2, <1>10, <3>1
  <2> QED
    BY <2>1, <2>2, <2>3
<1>11. ASSUME NEW i \in 1 .. r, e < i \/ i = r PROVE c[i] = b[i]
  <2>1. z + m < i
    BY <1>21, <1>71, <1>11
  <2> QED
    BY <1>73, <2>1
<1>12. b[r] = NUL /\ r \in 1 .. r
  <2>1. r >= 1
    BY <1>21, <1>41
  <2>2. b[A[n]] = NUL
    BY DEF Ahead
  <2> QED
    BY <1>2, <2>1, <2>2
<1>13. c \in Seq(Chars) /\ Len(c) = r
  BY <1>73
<1>14. Ahead(c, A, T, n, k + 1)
  <2>1. Len(c) = A[n] /\ c[A[n]] = NUL
    BY <1>2, <1>11, <1>12, <1>13
  <2>2. ASSUME NEW j \in k + 1 .. n - 1 PROVE c[A[j]] = "/"
    <3>1. j \in 1 .. n /\ j \in k .. n - 1 /\ k < j /\ j \in 0 .. n /\ k \in 0 .. n
      BY TermAt
    <3>2. A[k] < A[j]
      BY <3>1 DEF Offsets
    <3>3. A[j] \in Nat /\ A[j] <= A[n]
      BY <3>1, TermAt
    <3>4. PICK i \in 1 .. r : i = A[j] /\ e < i
      <4>1. PICK a \in Nat : a = A[j] /\ a <= r /\ e < a
        BY <1>2, <3>2, <3>3
      <4>2. a \in 1 .. r
        BY <1>2, <4>1
      <4> QED
        BY <4>1, <4>2
    <3>5. b[A[j]] = "/"
      BY <3>1 DEF Ahead
    <3> QED
      BY <1>11, <3>4, <3>5
  <2>3. ASSUME NEW j \in k + 1 .. n, NEW i \in 1 .. Len(T[j]) PROVE c[A[j - 1] + i] = T[j][i]
    <3>1. PICK h \in Nat : h = j - 1
      BY TermAt
    <3>2. j \in 1 .. n /\ j \in k .. n /\ k <= h /\ h \in 0 .. n /\ k \in 0 .. n /\ k \in Nat
      BY <3>1, TermAt
    <3>3. A[h] \in Nat /\ A[j] \in Nat /\ A[j] <= A[n] /\ A[j] = A[h] + Len(T[j]) + 1 /\ Len(T[j]) \in Nat
      BY <3>1, <3>2, TermAt
    <3>4. PICK a \in Nat, v \in Nat, w \in Nat : a = A[j] /\ v = A[h] /\ w = Len(T[j]) /\ a = v + w + 1 /\ a <= r
      BY <1>2, <3>3
    <3>5. e <= v
      <4>1. k < h => A[k] < A[h]
        BY <3>2 DEF Offsets
      <4>2. k = h \/ k < h
        BY <3>1, <3>2
      <4>3. A[k] <= A[h]
        <5>1. A[k] = e /\ A[h] = v /\ e \in Nat /\ v \in Nat
          BY <1>2, <3>4
        <5> QED
          BY <4>1, <4>2, <5>1
      <4> QED
        BY <1>2, <3>4, <4>3
    <3>6. i \in 1 .. w
      BY <3>4
    <3>7. v + i \in 1 .. r /\ e < v + i
      <4>1. a = v + w + 1 /\ a <= r /\ v \in Nat /\ w \in Nat /\ a \in Nat
        BY <3>4
      <4> QED
        BY <1>21, <3>5, <3>6, <4>1
    <3>8. b[A[j - 1] + i] = T[j][i]
      BY <3>2 DEF Ahead
    <3> QED
      BY <1>11, <3>1, <3>4, <3>7, <3>8
  <2> QED
    BY <1>13, <2>1, <2>2, <2>3 DEF Ahead
<1>15. y + m \in Nat /\ y + m <= e + 1 /\ y < y + m
  BY <1>7
<1>16. ASSUME k # n PROVE Written(c, y + m, Append(ns, t))
  <2>1. /\ Len(u) = l + d + 1 /\ u[l + d + 1] = "/"
        /\ \A i \in 1 .. l : u[i] = s[i]
        /\ \A i \in 1 .. d : u[l + i] = t[i]
    <3>1. /\ Len(u) = Len(s) + Len(t) + 1 /\ u[Len(s) + Len(t) + 1] = "/"
          /\ \A i \in 1 .. Len(s) : u[i] = s[i]
          /\ \A i \in 1 .. Len(t) : u[Len(s) + i] = t[i]
      BY <1>0, <1>1, OneMore
    <3> QED
      BY <1>2, <3>1
  <2>2. ASSUME NEW i \in 1 .. l + d + 1 PROVE c[i] = u[i]
    <3>1. CASE i \in 1 .. l
      BY <1>8, <2>1, <3>1
    <3>2. CASE i = l + d + 1
      BY <1>10, <1>16, <2>1, <3>2
    <3>3. CASE l + 1 <= i /\ i <= l + d
      <4>1. i \in Int
        BY <1>2
      <4>2. l \in Nat /\ d \in Nat
        BY <1>21
      <4>3. PICK h \in 1 .. d : i = l + h
        BY <3>3, <4>1, <4>2, Between
      <4> QED
        BY <1>9, <2>1, <4>3
    <3>4. i \in 1 .. l \/ i = l + d + 1 \/ (l + 1 <= i /\ i <= l + d)
      BY <1>21
    <3> QED
      BY <3>1, <3>2, <3>3, <3>4
  <2>3. y + m = (l + d + 1) + 1
    <3>1. m = d + 1
      BY <1>6, <1>16
    <3> QED
      BY <1>21, <1>7, <3>1
  <2> QED
    BY <1>1, <2>1, <2>2, <2>3 DEF Written
<1>17. ASSUME k = n PROVE SubSeq(c, 1, y + m - 1) = s \o t /\ SubSeq(c, y, y + m - 1) = t
  <2>1. PICK w \in Nat : w = y + m - 1 /\ w = l + d /\ w <= r
    <3>1. m = d /\ l + d \in Nat /\ l + d <= r
      BY <1>21, <1>41, <1>5, <1>6, <1>17
    <3> QED
      BY <1>7, <3>1
  <2>2. \A i \in 1 .. w : i \in 1 .. r /\ c[i] \in Chars
    <3>1. \A i \in 1 .. w : i \in 1 .. r
      BY <1>21, <2>1
    <3>2. \A i \in 1 .. r : c[i] \in Chars
      BY <1>13, ElementOfSeq
    <3> QED
      BY <3>1, <3>2
  <2>3. PICK f : f = SubSeq(c, 1, w)
    OBVIOUS
  <2>4. f \in Seq(Chars) /\ Len(f) = w /\ \A i \in 1 .. w : f[i] = c[i]
    <3>1. 1 \in Int /\ w \in Int /\ (w - 1) + 1 = w /\ \A i \in 1 .. w : (1 + i) - 1 = i
      BY <2>1
    <3>2. SubSeq(c, 1, w) \in Seq(Chars) /\ Len(SubSeq(c, 1, w)) = (IF 1 <= w THEN w - 1 + 1 ELSE 0)
          /\ \A i \in 1 .. w - 1 + 1 : SubSeq(c, 1, w)[i] = c[1 + i - 1]
      BY <2>2, <3>1, SubSeqProperties
    <3>3. 1 <= w
      BY <1>2, <1>3, <2>1
    <3> QED
      BY <2>3, <3>1, <3>2, <3>3
  <2>5. PICK g : g = SubSeq(c, y, w)
    OBVIOUS
  <2>6. g \in Seq(Chars) /\ Len(g) = d /\ \A i \in 1 .. d : g[i] = c[l + i]
    <3>0. y = l + 1 /\ w = l + d /\ d >= 1 /\ l \in Nat /\ d \in Nat
      BY <1>2, <1>3, <1>4, <2>1
    <3>1. y \in Int /\ w \in Int /\ y <= w /\ w - y + 1 = d
      BY <3>0
    <3>2. \A i \in y .. w : c[i] \in Chars
      <4>1. \A i \in y .. w : i \in 1 .. w
        BY <3>0
      <4> QED
        BY <2>2, <4>1
    <3>3. g \in Seq(Chars) /\ Len(g) = (IF y <= w THEN w - y + 1 ELSE 0)
          /\ \A i \in 1 .. w - y + 1 : g[i] = c[y + i - 1]
      <4>1. /\ SubSeq(c, y, w) \in Seq(Chars)
            /\ Len(SubSeq(c, y, w)) = (IF y <= w THEN w - y + 1 ELSE 0)
            /\ \A i \in 1 .. w - y + 1 : SubSeq(c, y, w)[i] = c[y + i - 1]
        <5>1. y \in Int /\ w \in Int
          BY <3>1
        <5> QED
          BY <3>2, <5>1, SubSeqProperties
      <4> QED
        BY <2>5, <4>1
    <3>4. \A i \in 1 .. d : y + i - 1 = l + i
      BY <3>0
    <3> QED
      BY <3>1, <3>3, <3>4
  <2>7. g = t
    <3>1. \A i \in 1 .. d : g[i] = t[i]
      BY <1>9, <2>6
    <3> QED
      BY <1>2, <1>3, <2>6, <3>1, SeqEqual
  <2>8. PICK v : v = s \o t
    OBVIOUS
  <2>9. v \in Seq(Chars) /\ Len(v) = l + d
        /\ \A i \in 1 .. l + d : v[i] = IF i <= l THEN s[i] ELSE t[i - l]
    <3>1. s \o t \in Seq(Chars) /\ Len(s \o t) = Len(s) + Len(t)
      BY <1>3, ConcatProperties
    <3>2. \A i \in 1 .. Len(s) + Len(t) : (s \o t)[i] = IF i <= Len(s) THEN s[i] ELSE t[i - Len(s)]
      BY <1>3, ConcatProperties
    <3> QED
      BY <1>2, <2>8, <3>1, <3>2
  <2>10. ASSUME NEW i \in 1 .. w PROVE f[i] = v[i]
    <3>0. f[i] = c[i]
      BY <2>4
    <3>01. i \in Int /\ i \in 1 .. l + d
      BY <1>21, <2>1
    <3>1. f[i] = c[i] /\ i \in Int /\ i \in 1 .. l + d
      BY <3>0, <3>01
    <3>2. CASE i <= l
      <4>1. i \in 1 .. l
        BY <1>2, <3>1, <3>2
      <4> QED
        BY <1>8, <2>9, <3>1, <3>2, <4>1
    <3>3. CASE ~(i <= l)
      <4>1. l + 1 <= i /\ i <= l + d
        BY <1>21, <3>01, <3>3
      <4>2. PICK h \in 1 .. d : i = l + h
        BY <1>21, <3>01, <4>1, Between
      <4>3. i - l = h
        BY <1>2, <4>2
      <4> QED
        BY <1>9, <2>9, <3>1, <3>3, <4>2, <4>3
    <3> QED
      BY <3>2, <3>3
  <2>11. f = v
    BY <2>1, <2>4, <2>9, <2>10, SeqEqual
  <2> QED
    BY <2>1, <2>3, <2>5, <2>7, <2>8, <2>11
<1>18. y + m <= A[k] + 1
  BY <1>2, <1>15
<1>19. y \in Nat /\ m \in Nat
  BY <1>7, <1>70
<1> QED
  BY <1>0, <1>1, <1>14, <1>15, <1>16, <1>17, <1>18, <1>19 DEF NameIn

-----------------------------------------------------------------------------
(* The meaning of the terms *)

Having(ns) == [ok |-> TRUE, names |-> ns]

\* What each kind of term does to the names ns.
LEMMA StepFacts ==
  ASSUME NEW ns \in Seq(Names)
  PROVE  /\ Step(Having(ns), <<>>) = Having(ns) /\ Step(Having(ns), Dot) = Having(ns)
         /\ ns = <<>> => ~Step(Having(ns), DotDot).ok
         /\ ns # <<>> => Step(Having(ns), DotDot) = Having(Front(ns))
         /\ \A t \in BadTerms : ~Step(Having(ns), t).ok
         /\ \A t \in Names : Step(Having(ns), t) = Having(Append(ns, t))
<1>1. DotDot \notin BadTerms /\ DotDot \notin {<<>>, Dot}
  BY DotFacts, TermFacts
<1>2. Step(Having(ns), <<>>) = Having(ns) /\ Step(Having(ns), Dot) = Having(ns)
  BY DEF Step
<1>3. ns = <<>> => ~Step(Having(ns), DotDot).ok
  BY <1>1 DEF Step, Having
<1>4. ns # <<>> => Step(Having(ns), DotDot) = Having(Front(ns))
  BY <1>1 DEF Step, Having
<1>5. ASSUME NEW t \in BadTerms PROVE ~Step(Having(ns), t).ok
  <2>1. t \notin {<<>>, Dot}
    BY TermFacts DEF Terms
  <2> QED
    BY <2>1 DEF Step, Having
<1>6. ASSUME NEW t \in Names PROVE Step(Having(ns), t) = Having(Append(ns, t))
  <2>1. t \notin BadTerms \cup {<<>>, Dot, DotDot}
    BY TermFacts DEF Terms
  <2> QED
    BY <2>1 DEF Step, Having
<1> QED
  BY <1>2, <1>3, <1>4, <1>5, <1>6

\* The meaning of the terms, one term at a time.
LEMMA FoldAt ==
  ASSUME NEW T \in Seq(Terms), NEW n, n = Len(T)
  PROVE  /\ n \in Nat /\ SubSeq(T, 1, n) = T /\ SubSeq(T, 1, 0) = <<>>
         /\ Folded(SubSeq(T, 1, 0)) = Having(<<>>)
         /\ \A k \in 1 .. n : Folded(SubSeq(T, 1, k)) = Step(Folded(SubSeq(T, 1, k - 1)), T[k])
<1>1. n \in Nat /\ SubSeq(T, 1, n) = T /\ SubSeq(T, 1, 0) = <<>>
  BY PrefixFacts
<1>2. Folded(<<>>) = Having(<<>>)
  <2>1. <<>> \in Seq(Terms) /\ <<>> \in Terms
    BY EmptySeq DEF Terms
  <2> QED
    BY <2>1, FoldAppend DEF Having, Nothing
<1>3. ASSUME NEW k \in 1 .. n
      PROVE  Folded(SubSeq(T, 1, k)) = Step(Folded(SubSeq(T, 1, k - 1)), T[k])
  <2>1. k - 1 \in 0 .. n
    BY <1>1
  <2>2. T[k] \in Terms /\ SubSeq(T, 1, k) = Append(SubSeq(T, 1, k - 1), T[k])
    BY PrefixFacts
  <2>3. SubSeq(T, 1, k - 1) \in Seq(Terms)
    BY <2>1, PrefixFacts
  <2> QED
    BY <2>2, <2>3, FoldAppend
<1> QED
  BY <1>1, <1>2, <1>3

\* A term that does not stand for anything spoils the id.
LEMMA FailsForGood ==
  ASSUME NEW T \in Seq(Terms), NEW n, n = Len(T), NEW k \in 0 .. n,
         ~Folded(SubSeq(T, 1, k)).ok
  PROVE  ~Folded(T).ok
<1> DEFINE G == {j \in 0 .. n : k <= j => ~Folded(SubSeq(T, 1, j)).ok}
<1>1. n \in Nat /\ SubSeq(T, 1, n) = T
  BY FoldAt
<1>2. 0 \in G
  BY <1>1
<1>3. ASSUME NEW j \in 0 .. n, j < n, j \in G PROVE j + 1 \in G
  <2>1. PICK i \in 1 .. n : i = j + 1 /\ i - 1 = j
    <3>1. j + 1 \in 1 .. n /\ (j + 1) - 1 = j
      BY <1>3
    <3> QED
      BY <3>1
  <2>2. Folded(SubSeq(T, 1, i)) = Step(Folded(SubSeq(T, 1, j)), T[i])
    BY <2>1, FoldAt
  <2>3. k <= i => ~Folded(SubSeq(T, 1, i)).ok
    <3>1. CASE k = i
      BY <3>1
    <3>2. CASE k <= j
      <4>1. ~Folded(SubSeq(T, 1, j)).ok
        BY <1>3, <3>2
      <4>2. Step(Folded(SubSeq(T, 1, j)), T[i]) = Folded(SubSeq(T, 1, j))
        BY <4>1 DEF Step
      <4> QED
        BY <2>2, <4>1, <4>2
    <3>3. k <= i => k = i \/ k <= j
      BY <2>1
    <3> QED
      BY <3>1, <3>2, <3>3
  <2> QED
    BY <1>1, <2>1, <2>3
<1>4. 0 .. n \subseteq G
  <2> HIDE DEF G
  <2> QED
    BY <1>1, <1>2, <1>3, UpTo
<1>5. n \in 0 .. n /\ k <= n
  BY <1>1
<1> QED
  BY <1>1, <1>4, <1>5

\* There is nothing between the terms k and h + 1.
EmptyTo(T, k, h) == \A i \in k + 1 .. h : T[i] = <<>>

\* Empty terms stand for nothing.
LEMMA EmptiesSkipped ==
  ASSUME NEW T \in Seq(Terms), NEW n, n = Len(T), NEW k \in 1 .. n - 1, NEW m \in k + 1 .. n,
         NEW ns \in Seq(Names), Folded(SubSeq(T, 1, k)) = Having(ns),
         NEW h, h = m - 1, EmptyTo(T, k, h)
  PROVE  Folded(SubSeq(T, 1, h)) = Having(ns)
<1> DEFINE G == {j \in 0 .. n : j \in k .. m - 1 => Folded(SubSeq(T, 1, j)) = Having(ns)}
<1>1. n \in Nat
  BY FoldAt
<1>2. 0 \in G
  BY <1>1
<1>3. ASSUME NEW j \in 0 .. n, j < n, j \in G PROVE j + 1 \in G
  <2>1. PICK i \in 1 .. n : i = j + 1 /\ i - 1 = j
    <3>1. j + 1 \in 1 .. n /\ (j + 1) - 1 = j
      BY <1>3
    <3> QED
      BY <3>1
  <2>2. Folded(SubSeq(T, 1, i)) = Step(Folded(SubSeq(T, 1, j)), T[i])
    BY <2>1, FoldAt
  <2>3. ASSUME i \in k .. m - 1 PROVE Folded(SubSeq(T, 1, i)) = Having(ns)
    <3>1. CASE i = k
      BY <3>1
    <3>2. CASE i # k
      <4>1. i \in k + 1 .. m - 1 /\ j \in k .. m - 1
        BY <2>1, <2>3, <3>2
      <4>2. T[i] = <<>> /\ Folded(SubSeq(T, 1, j)) = Having(ns)
        BY <1>3, <4>1 DEF EmptyTo
      <4> QED
        BY <2>2, <4>2, StepFacts
    <3> QED
      BY <3>1, <3>2
  <2> QED
    BY <1>1, <2>1, <2>3
<1>4. 0 .. n \subseteq G
  <2> HIDE DEF G
  <2> QED
    BY <1>1, <1>2, <1>3, UpTo
<1>5. h \in 0 .. n /\ h \in k .. m - 1
  BY <1>1
<1> QED
  BY <1>4, <1>5

\* When an id stands for a module, and which.
LEMMA MeaningIs ==
  ASSUME NEW T \in Seq(Terms), T # <<>>, NEW n, n = Len(T)
  PROVE  /\ T[1] = <<>> \/ T[n] \notin Names \/ Len(Join(T)) >= Limit \/ ~Folded(T).ok
           => Meaning(T) = <<>>
         /\ T[1] # <<>> /\ T[n] \in Names /\ ~(Len(Join(T)) >= Limit) /\ Folded(T).ok
           => Meaning(T) = Folded(T).names
  BY DEF Meaning, Folded, Nothing, Last

-----------------------------------------------------------------------------
(* The inductive invariant *)

\* p is where the term k of the input begins; what comes from there on is still
\* there, and the names that the terms before stand for have been written.
Running(T, A, n, k, ns) ==
  /\ T = Input /\ A = At(T) /\ n = Len(T) /\ k \in 1 .. n
  /\ p = A[k - 1] + 1 /\ q <= p
  /\ T[k] = <<>> => k = 1 \/ k = n
  /\ k > 1 => T[1] # <<>>
  /\ Ahead(buf, A, T, n, k)
  /\ ns \in Seq(Names) /\ Folded(SubSeq(T, 1, k - 1)) = Having(ns)
  /\ Written(buf, q, ns)
  /\ ~(Len(Join(T)) >= Limit)

Reading ==
  \E k \in 1 .. Len(Input) :
    Running(Input, At(Input), Len(Input), k, Folded(SubSeq(Input, 1, k - 1)).names)

Types ==
  /\ mod \in Seq(Names) /\ req \in Seq(Terms) /\ req # <<>>
  /\ pc \in {"term", "done", "error"}

IdInv ==
  /\ Types
  /\ pc = "term" => Reading
  /\ InPlace
  /\ Resolves

\* The input is terms, and not none.
LEMMA InputType ==
  ASSUME Types PROVE Input \in Seq(Terms) /\ Input # <<>>
<1>1. mod \in Seq(Terms) /\ req \in Seq(Terms) /\ req # <<>> /\ <<DotDot>> \in Seq(Terms)
  <2>1. Len(mod) \in Nat /\ mod \in [1 .. Len(mod) -> Names] /\ Names \subseteq Terms
    BY DEF Types, Terms
  <2>2. mod \in [1 .. Len(mod) -> Terms]
    BY <2>1
  <2>3. ASSUME NEW C, NEW c \in C PROVE <<c>> \in Seq(C)
    OBVIOUS
  <2> QED
    BY <2>1, <2>2, <2>3, DotFacts DEF Types
<1>2. PICK m : m = mod \o <<DotDot>>
  OBVIOUS
<1>3. m \in Seq(Terms) /\ Len(m) \in Nat
  BY <1>1, <1>2, ConcatProperties
<1>4. m \o req \in Seq(Terms) /\ Len(m \o req) = Len(m) + Len(req)
  BY <1>1, <1>3, ConcatProperties
<1>5. Len(req) \in Nat /\ Len(req) # 0
  BY <1>1, EmptySeq
<1>6. m \o req # <<>>
  <2>1. Len(m \o req) # 0
    BY <1>3, <1>4, <1>5
  <2> QED
    BY <1>4, <2>1, EmptySeq
<1> QED
  BY <1>1, <1>2, <1>4, <1>6 DEF Input

\* Reading does not depend on how its terms are named.
LEMMA Reads ==
  (\E T, A, n, k, ns : Running(T, A, n, k, ns)) => Reading
<1> SUFFICES ASSUME NEW T, NEW A, NEW n, NEW k, NEW ns, Running(T, A, n, k, ns)
             PROVE  Reading
  OBVIOUS
<1>1. T = Input /\ A = At(Input) /\ n = Len(Input) /\ k \in 1 .. Len(Input)
      /\ ns = Folded(SubSeq(Input, 1, k - 1)).names
  BY DEF Running, Having
<1>2. Running(Input, At(Input), Len(Input), k, Folded(SubSeq(Input, 1, k - 1)).names)
  BY <1>1
<1> QED
  BY <1>1, <1>2 DEF Reading

\* What the loop finds at p.
LEMMA Found ==
  ASSUME Types, NEW T, NEW A, NEW n, NEW k, NEW ns, Running(T, A, n, k, ns)
  PROVE  /\ T \in Seq(Terms) /\ T # <<>> /\ Offsets(A, T, n) /\ n \in Nat /\ n >= 1
         /\ A[n] = Len(Join(T)) + 1 /\ TermEnd = A[k]
         /\ p \in Nat /\ q \in Nat /\ A[k] \in Nat /\ (pc = "term" => InPlace)
         /\ \A t \in {Dot, DotDot} : TermIs(t) <=> (T[k] = t /\ k < n)
<1>0. /\ T = Input /\ A = At(T) /\ n = Len(T) /\ k \in 1 .. n /\ p = A[k - 1] + 1
      /\ Ahead(buf, A, T, n, k) /\ ns \in Seq(Names) /\ Written(buf, q, ns) /\ q <= p
  BY DEF Running
<1>1. T \in Seq(Terms) /\ T # <<>>
  BY <1>0, InputType
<1>2. Offsets(A, T, n) /\ A[n] = Len(Join(T)) + 1
  BY <1>0, <1>1, InputLayout
<1>3. n \in Nat /\ n >= 1
  BY <1>2 DEF Offsets
<1>4. TermEnd = A[k]
  <2>1. PICK b, x : b = buf /\ x = p /\ Ahead(b, A, T, n, k) /\ x = A[k - 1] + 1 /\ k \in 1 .. n
    BY <1>0
  <2>2. EndFrom(b, x) = A[k]
    BY <1>2, <2>1, EndOfTerm
  <2> QED
    BY <2>1, <2>2 DEF TermEnd, EndFrom
<1>5. p \in Nat /\ q \in Nat /\ q >= 1 /\ (q > 1 => buf[q - 1] = "/") /\ A[k] \in Nat
  <2>1. q \in Nat /\ q >= 1 /\ (q > 1 => buf[q - 1] = "/")
    BY <1>0, WrittenNothing
  <2>2. A[k - 1] \in Nat /\ A[k] \in Nat
    BY <1>0, <1>2, TermAt
  <2> QED
    BY <1>0, <2>1, <2>2
<1>6. p <= Len(buf) + 1
  <2>1. PICK z \in Nat, l \in Nat, r \in Nat, e \in Nat :
          z = A[k - 1] /\ l = Len(T[k]) /\ r = A[n] /\ e = A[k] /\ e = z + l + 1 /\ e <= r
    <3>1. A[k - 1] \in Nat /\ Len(T[k]) \in Nat /\ A[n] \in Nat /\ A[k] \in Nat
      BY <1>0, <1>2, TermAt
    <3>2. A[k] = A[k - 1] + Len(T[k]) + 1 /\ A[k] <= A[n]
      BY <1>0, <1>2, TermAt
    <3> QED
      BY <3>1, <3>2
  <2>2. p = z + 1 /\ Len(buf) = r
    BY <1>0, <2>1 DEF Ahead
  <2>3. z + 1 <= r + 1
    <3>1. z \in Nat /\ l \in Nat /\ r \in Nat /\ z + l + 1 <= r
      BY <2>1
    <3> QED
      BY <3>1
  <2> QED
    BY <2>2, <2>3
<1>7. \A t \in {Dot, DotDot} : TermIs(t) <=> (T[k] = t /\ k < n)
  <2>1. PICK b, x : b = buf /\ x = p /\ Ahead(b, A, T, n, k) /\ x = A[k - 1] + 1 /\ k \in 1 .. n
    BY <1>0
  <2>2. \A t \in {Dot, DotDot} : HasTerm(b, x, A[k], t) <=> (T[k] = t /\ k < n)
    BY <1>2, <2>1, TermIsDots
  <2> QED
    BY <1>4, <2>1, <2>2 DEF TermIs, HasTerm
<1>8. ASSUME pc = "term" PROVE InPlace
  BY <1>0, <1>5, <1>6, <1>8 DEF InPlace
<1> QED
  BY <1>1, <1>2, <1>3, <1>4, <1>5, <1>6, <1>7, <1>8

SomeRunning == \E T, A, n, k, ns : Running(T, A, n, k, ns)

\* While the loop runs, being at a term is all there is to show.
LEMMA ReadsOn ==
  Types /\ pc = "term" /\ SomeRunning => IdInv
<1> SUFFICES ASSUME Types, pc = "term", SomeRunning PROVE IdInv
  OBVIOUS
<1>1. Reading
  BY Reads DEF SomeRunning
<1>2. InPlace
  BY Found DEF SomeRunning
<1>3. Resolves
  BY DEF Resolves
<1> QED
  BY <1>1, <1>2, <1>3 DEF IdInv

\* What is ahead of a term is ahead of each later one.
LEMMA AheadMore ==
  ASSUME NEW b, NEW A, NEW T, NEW n \in Nat, NEW k \in 1 .. n, Ahead(b, A, T, n, k),
         NEW m \in k .. n + 1
  PROVE  Ahead(b, A, T, n, m)
<1>1. \A j \in m .. n - 1 : j \in k .. n - 1
  OBVIOUS
<1>2. \A j \in m .. n : j \in k .. n
  OBVIOUS
<1> QED
  BY <1>1, <1>2 DEF Ahead

\* The input does not change.
LEMMA InputStays ==
  ASSUME Types, mod' = mod, req' = req, pc' \in {"term", "done", "error"}
  PROVE  Types' /\ Input' = Input
  BY DEF Types, Input, IsRelative

\* The loop goes on after the term k, which was not empty and not the last.
LEMMA GoesOn ==
  ASSUME Types, NEW T, NEW A, NEW n, NEW k, NEW o, Running(T, A, n, k, o), k < n, T[k] # <<>>,
         NEW b, Ahead(b, A, T, n, k + 1), NEW ns \in Seq(Names), NEW y, Written(b, y, ns),
         y <= A[k] + 1, Folded(SubSeq(T, 1, k)) = Having(ns),
         mod' = mod, req' = req, buf' = b, q' = y, p' = EatSlashes(b, A[k] + 1), pc' = "term"
  PROVE  IdInv'
<1>1. /\ T \in Seq(Terms) /\ T # <<>> /\ Offsets(A, T, n) /\ n \in Nat /\ k \in 1 .. n
      /\ T = Input /\ A = At(T) /\ n = Len(T) /\ ~(Len(Join(T)) >= Limit) /\ (k > 1 => T[1] # <<>>)
  BY Found DEF Running
<1>2. k \in 1 .. n - 1
  BY <1>1
<1>3. PICK m \in k + 1 .. n : /\ T[m] = <<>> => m = n
                              /\ \A i \in k + 1 .. m - 1 : T[i] = <<>>
                              /\ p' = A[m - 1] + 1
  <2>1. \E m \in k + 1 .. n : /\ T[m] = <<>> => m = n
                              /\ \A i \in k + 1 .. m - 1 : T[i] = <<>>
                              /\ EatSlashes(b, A[k] + 1) = A[m - 1] + 1
    <3>1. PICK j : j = k + 1 /\ Ahead(b, A, T, n, j)
      OBVIOUS
    <3> QED
      <4>1. EatenFrom(b, A, T, n, k)
        BY <1>1, <3>1, EatsTo
      <4> QED
        BY <4>1 DEF EatenFrom
  <2> QED
    BY <2>1
<1>4. m \in 1 .. n /\ m \in k + 1 .. n + 1 /\ m > 1 /\ k + 1 \in 1 .. n /\ m - 1 \in 0 .. n
      /\ k \in 0 .. n /\ k <= m - 1
  BY <1>1, <1>2
<1>5. Ahead(b, A, T, n, m)
  BY <1>1, <1>4, AheadMore
<1>6. T[1] # <<>>
  BY <1>1
<1>7. Folded(SubSeq(T, 1, m - 1)) = Having(ns)
  <2>1. \A i \in k + 1 .. m - 1 : T[i] = <<>>
    BY <1>3
  <2>2. T \in Seq(Terms) /\ n = Len(T) /\ k \in 1 .. n - 1 /\ m \in k + 1 .. n
    BY <1>1, <1>2
  <2> QED
    <3>1. PICK h : h = m - 1 /\ EmptyTo(T, k, h)
      BY <2>1 DEF EmptyTo
    <3>2. Folded(SubSeq(T, 1, h)) = Having(ns)
      BY <2>2, <3>1, EmptiesSkipped
    <3> QED
      BY <3>1, <3>2
<1>8. y <= p'
  <2>1. A[k] <= A[m - 1] /\ A[k] \in Nat /\ A[m - 1] \in Nat
    <3>1. PICK h : h = m - 1 /\ h \in 0 .. n /\ k <= h /\ k \in 0 .. n
      BY <1>4
    <3>2. A[k] \in Nat /\ A[h] \in Nat /\ (k < h => A[k] < A[h])
      BY <1>1, <3>1 DEF Offsets
    <3>3. k = h \/ k < h
      BY <1>1, <3>1
    <3> QED
      BY <3>1, <3>2, <3>3
  <2>2. y \in Nat
    BY WrittenNothing
  <2> QED
    BY <1>3, <2>1, <2>2
<1>9. Types' /\ Input' = T
  BY <1>1, InputStays
<1>10. Running(T, A, n, m, ns)'
  BY <1>1, <1>3, <1>4, <1>5, <1>6, <1>7, <1>8, <1>9 DEF Running
<1>11. SomeRunning'
  BY <1>10 DEF SomeRunning
<1>12. (Types /\ pc = "term" /\ SomeRunning)'
  BY <1>9, <1>11
<1> QED
  BY <1>12, ReadsOn, PTL

\* The loop throws for an id that does not stand for a module.
LEMMA Throws ==
  ASSUME Types, pc = "term", NEW T, NEW A, NEW n, NEW k, NEW ns, Running(T, A, n, k, ns),
         Fail, Meaning(T) = <<>>
  PROVE  IdInv'
<1>1. mod' = mod /\ req' = req /\ buf' = buf /\ p' = p /\ q' = q /\ pc' = "error"
  BY DEF Fail
<1>2. Types' /\ Input' = T
  BY <1>1, InputStays DEF Running
<1>3. InPlace'
  <2>1. InPlace
    BY Found
  <2> QED
    BY <1>1, <2>1 DEF InPlace
<1>4. Resolves'
  BY <1>1, <1>2 DEF Resolves, Expected
<1> QED
  BY <1>1, <1>2, <1>3, <1>4 DEF IdInv

\* The loop is at the term k.
AtTerm(T, A, n, k, ns) ==
  /\ Running(T, A, n, k, ns)
  /\ T \in Seq(Terms) /\ T # <<>> /\ n = Len(T) /\ n \in Nat /\ Offsets(A, T, n) /\ TermEnd = A[k]
  /\ k \in 1 .. n /\ k \in Nat /\ ns \in Seq(Names) /\ T[k] \in Terms
  /\ p = A[k - 1] + 1 /\ p \in Nat /\ q \in Nat /\ q <= p /\ Written(buf, q, ns)
  /\ A[k] \in Nat /\ A[k] = p + Len(T[k]) /\ Ahead(buf, A, T, n, k)
  /\ Folded(SubSeq(T, 1, k)) = Step(Having(ns), T[k])
  /\ \A t \in {Dot, DotDot} : TermIs(t) <=> (T[k] = t /\ k < n)

\* What the invariant gives a round.
LEMMA InRound ==
  ASSUME IdInv, pc = "term"
  PROVE  Types /\ \E T, A, n, k, ns : AtTerm(T, A, n, k, ns)
<1>1. Types /\ SomeRunning
  BY DEF IdInv, Reading, SomeRunning
<1>2. PICK T, A, n, k, ns : Running(T, A, n, k, ns)
  BY <1>1 DEF SomeRunning
<1>3. /\ T \in Seq(Terms) /\ T # <<>> /\ n \in Nat /\ Offsets(A, T, n) /\ TermEnd = A[k]
      /\ p \in Nat /\ q \in Nat /\ A[k] \in Nat
  BY <1>1, <1>2, Found
<1>31. \A t \in {Dot, DotDot} : TermIs(t) <=> (T[k] = t /\ k < n)
  BY <1>1, <1>2, Found
<1>4. /\ n = Len(T) /\ k \in 1 .. n /\ ns \in Seq(Names) /\ p = A[k - 1] + 1 /\ q <= p
      /\ Written(buf, q, ns) /\ Ahead(buf, A, T, n, k) /\ Folded(SubSeq(T, 1, k - 1)) = Having(ns)
  BY <1>2 DEF Running
<1>5. T[k] \in Terms /\ k \in Nat
  BY <1>3, <1>4, TermAt
<1>6. A[k] = p + Len(T[k])
  <2>1. A[k - 1] \in Nat /\ Len(T[k]) \in Nat /\ A[k] = A[k - 1] + Len(T[k]) + 1
    BY <1>3, <1>4, TermAt
  <2>2. PICK z \in Nat, l \in Nat : z = A[k - 1] /\ l = Len(T[k]) /\ A[k] = z + l + 1
    BY <2>1
  <2> QED
    BY <1>4, <2>2
<1>7. Folded(SubSeq(T, 1, k)) = Step(Having(ns), T[k])
  BY <1>3, <1>4, FoldAt
<1>8. Types
  BY <1>1
<1> QED
  BY <1>2, <1>3, <1>31, <1>4, <1>5, <1>6, <1>7, <1>8 DEF AtTerm

\* The loop begins at the first term, unless the input is too long, and then throws.
LEMMA InitInv == IdInit => IdInv
<1> SUFFICES ASSUME IdInit PROVE IdInv
  OBVIOUS
<1>1. mod \in Seq(Names) /\ req \in Seq(Terms) /\ req # <<>>
  <2>1. PICK n \in 0 .. MaxModId : mod \in [1 .. n -> Names]
    BY DEF IdInit
  <2>2. PICK l \in 1 .. MaxTerms : req \in [1 .. l -> Terms]
    BY DEF IdInit
  <2>3. n \in Nat /\ l \in Nat /\ l # 0
    BY BoundsAssumption
  <2>4. mod \in Seq(Names)
    BY <2>1, <2>3
  <2>5. req \in Seq(Terms) /\ Len(req) = l
    BY <2>2, <2>3
  <2>6. req # <<>>
    BY <2>3, <2>5, EmptySeq
  <2> QED
    BY <2>4, <2>5, <2>6
<1>2. /\ buf = Append(Join(Input), NUL) /\ p = 1 /\ q = 1 /\ q_last = 1
      /\ pc = IF Len(Join(Input)) >= Limit THEN "error" ELSE "term"
  BY DEF IdInit
<1>3. Types
  BY <1>1, <1>2 DEF Types
<1>4. PICK T, A, n : T = Input /\ A = At(T) /\ n = Len(T)
  OBVIOUS
<1>5. T \in Seq(Terms) /\ T # <<>>
  BY <1>3, <1>4, InputType
<1>6. Offsets(A, T, n) /\ Ahead(buf, A, T, n, 1)
  BY <1>2, <1>4, <1>5, InputLayout
<1>7. n \in Nat /\ 1 \in 1 .. n /\ n \in 1 .. n /\ A[0] = 0
  BY <1>6 DEF Offsets
<1>8. CASE pc = "error"
  <2>1. Len(Join(T)) >= Limit
    BY <1>2, <1>4, <1>8
  <2>2. Meaning(T) = <<>>
    BY <1>4, <1>5, <2>1, MeaningIs
  <2>3. Resolves
    BY <1>4, <1>8, <2>2 DEF Resolves, Expected
  <2>4. Len(buf) \in Nat
    BY <1>6 DEF Ahead
  <2>5. InPlace
    BY <1>2, <1>8, <2>4 DEF InPlace
  <2> QED
    BY <1>3, <1>8, <2>3, <2>5 DEF IdInv
<1>9. CASE pc = "term"
  <2>1. ~(Len(Join(T)) >= Limit)
    BY <1>2, <1>4, <1>9
  <2>2. <<>> \in Seq(Names) /\ Folded(SubSeq(T, 1, 0)) = Having(<<>>)
    BY <1>4, <1>5, FoldAt
  <2>3. Written(buf, q, <<>>)
    BY <1>2, SlashedEnd DEF Written
  <2>4. p = A[1 - 1] + 1 /\ q <= p
    BY <1>2, <1>7
  <2>5. Running(T, A, n, 1, <<>>)
    BY <1>4, <1>6, <1>7, <2>1, <2>2, <2>3, <2>4 DEF Running
  <2>6. SomeRunning
    BY <2>5 DEF SomeRunning
  <2> QED
    BY <1>3, <1>9, <2>6, ReadsOn
<1> QED
  BY <1>2, <1>8, <1>9

\* A '.' stands for nothing.
LEMMA EatDotInv ==
  ASSUME IdInv, pc = "term", EatDot
  PROVE  IdInv'
<1>1. PICK T, A, n, k, ns : AtTerm(T, A, n, k, ns)
  BY InRound
<1>2. Types
  BY InRound
<1>3. TermIs(Dot) /\ p' = EatSlashes(buf, p + 2) /\ mod' = mod /\ req' = req /\ buf' = buf
      /\ q' = q /\ pc' = "term"
  BY DEF EatDot
<1>4. T[k] = Dot /\ k < n
  BY <1>1, <1>3 DEF AtTerm
<1>5. T[k] # <<>> /\ Len(T[k]) = 1
  BY <1>4, DotFacts
<1>6. p + 2 = A[k] + 1 /\ q <= A[k] + 1
  BY <1>1, <1>5 DEF AtTerm
<1>7. Folded(SubSeq(T, 1, k)) = Having(ns)
  BY <1>1, <1>4, StepFacts DEF AtTerm
<1>8. Ahead(buf, A, T, n, k + 1)
  <2>1. k + 1 \in k .. n + 1
    BY <1>1 DEF AtTerm
  <2> QED
    BY <1>1, <2>1, AheadMore DEF AtTerm
<1>9. p' = EatSlashes(buf, A[k] + 1)
  BY <1>3, <1>6
<1> QED
  BY <1>1, <1>2, <1>3, <1>4, <1>5, <1>6, <1>7, <1>8, <1>9, GoesOn DEF AtTerm

\* A '..' takes back the last name, of the output as of the meaning, and throws if there is none.
LEMMA EatDotDotInv ==
  ASSUME IdInv, pc = "term", EatDotDot
  PROVE  IdInv'
<1>1. PICK T, A, n, k, ns : AtTerm(T, A, n, k, ns)
  BY InRound
<1>2. Types
  BY InRound
<1>3. TermIs(DotDot)
  BY DEF EatDotDot
<1>4. T[k] = DotDot /\ k < n
  BY <1>1, <1>3 DEF AtTerm
<1>5. T[k] # <<>> /\ Len(T[k]) = 2
  BY <1>4, DotFacts
<1>6. q = 1 <=> ns = <<>>
  BY <1>1, WrittenNothing DEF AtTerm
<1>7. CASE q = 1
  <2>1. Fail
    BY <1>7 DEF EatDotDot
  <2>2. ~Folded(SubSeq(T, 1, k)).ok
    BY <1>1, <1>4, <1>6, <1>7, StepFacts DEF AtTerm
  <2>3. ~Folded(T).ok
    <3>1. k \in 0 .. n
      BY <1>1 DEF AtTerm
    <3> QED
      BY <1>1, <2>2, <3>1, FailsForGood DEF AtTerm
  <2>4. Meaning(T) = <<>>
    BY <1>1, <2>3, MeaningIs DEF AtTerm
  <2> QED
    BY <1>1, <1>2, <2>1, <2>4, Throws DEF AtTerm
<1>8. CASE q # 1
  <2>1. /\ p' = EatSlashes(buf, p + 3) /\ q' = Backtrack /\ mod' = mod /\ req' = req
        /\ buf' = buf /\ pc' = "term"
    BY <1>8 DEF EatDotDot
  <2>2. PICK z : z = Backtrack
    OBVIOUS
  <2>3. z = CHOOSE j \in 1 .. q - 1 :
              /\ j = 1 \/ buf[j - 1] = "/"
              /\ \A i \in j + 1 .. q - 1 : buf[i - 1] # "/"
    BY <2>2 DEF Backtrack
  <2>4. ns # <<>>
    BY <1>6, <1>8
  <2>5. Front(ns) \in Seq(Names) /\ Written(buf, z, Front(ns)) /\ z \in Nat /\ z <= q
    BY <1>1, <2>3, <2>4, BackOne DEF AtTerm
  <2>6. p + 3 = A[k] + 1 /\ z <= A[k] + 1
    <3>1. p \in Nat /\ q \in Nat /\ q <= p /\ A[k] = p + 2
      BY <1>1, <1>5 DEF AtTerm
    <3> QED
      BY <2>5, <3>1
  <2>7. Folded(SubSeq(T, 1, k)) = Having(Front(ns))
    BY <1>1, <1>4, <2>4, StepFacts DEF AtTerm
  <2>8. Ahead(buf, A, T, n, k + 1)
    <3>1. k + 1 \in k .. n + 1
      BY <1>1 DEF AtTerm
    <3> QED
      BY <1>1, <3>1, AheadMore DEF AtTerm
  <2>9. p' = EatSlashes(buf, A[k] + 1) /\ q' = z
    BY <2>1, <2>2, <2>6
  <2> QED
    BY <1>1, <1>2, <1>4, <1>5, <2>1, <2>5, <2>6, <2>7, <2>8, <2>9, GoesOn DEF AtTerm
<1> QED
  BY <1>7, <1>8

\* An id with any other term that is not a name has no meaning.
LEMMA BadTermInv ==
  ASSUME IdInv, pc = "term", BadTerm
  PROVE  IdInv'
<1>1. PICK T, A, n, k, ns : AtTerm(T, A, n, k, ns)
  BY InRound
<1>2. Types
  BY InRound
<1>3. /\ T[k] # <<>> => buf[p] = T[k][1] /\ buf[p] \notin {NUL, "/"}
  BY <1>1, FirstChar DEF AtTerm
<1>4. \A t \in Names : t \notin BadTerms \cup {<<>>, Dot, DotDot} /\ t[1] # "."
  BY TermFacts DEF Terms
<1>5. Meaning(T) = <<>>
  <2>1. CASE buf[p] \in {NUL, "/"}
    <3>1. T[k] = <<>>
      BY <1>3, <2>1
    <3>2. k = 1 \/ k = n
      BY <1>1, <3>1 DEF Running, AtTerm
    <3>3. T[1] = <<>> \/ T[n] \notin Names
      BY <1>4, <3>1, <3>2
    <3> QED
      BY <1>1, <3>3, MeaningIs DEF AtTerm
  <2>2. CASE buf[p] = "." /\ ~TermIs(Dot) /\ ~TermIs(DotDot)
    <3>1. T[k] # <<>> => T[k][1] = "."
      BY <1>3, <2>2
    <3>2. T[k] \notin Names
      BY <1>4, <3>1
    <3>3. CASE T[k] \in BadTerms
      <4>1. ~Folded(SubSeq(T, 1, k)).ok
        BY <1>1, <3>3, StepFacts DEF AtTerm
      <4>2. ~Folded(T).ok
        <5>1. k \in 0 .. n
          BY <1>1 DEF AtTerm
        <5> QED
          BY <1>1, <4>1, <5>1, FailsForGood DEF AtTerm
      <4> QED
        BY <1>1, <4>2, MeaningIs DEF AtTerm
    <3>4. CASE T[k] \in {Dot, DotDot}
      <4>1. ~(k < n)
        BY <1>1, <2>2, <3>4 DEF AtTerm
      <4>2. k = n
        BY <1>1, <4>1 DEF AtTerm
      <4> QED
        BY <1>1, <3>2, <4>2, MeaningIs DEF AtTerm
    <3>5. CASE T[k] = <<>>
      <4>1. k = 1 \/ k = n
        BY <1>1, <3>5 DEF Running, AtTerm
      <4>2. T[1] = <<>> \/ T[n] \notin Names
        BY <1>4, <3>5, <4>1
      <4> QED
        BY <1>1, <4>2, MeaningIs DEF AtTerm
    <3> QED
      BY <1>1, <3>2, <3>3, <3>4, <3>5 DEF Terms, AtTerm
  <2> QED
    BY <2>1, <2>2 DEF BadTerm
<1>6. Fail
  BY DEF BadTerm
<1> QED
  BY <1>1, <1>2, <1>5, <1>6, Throws DEF AtTerm

\* The last element of a longer sequence.
LEMMA LastOfAppend ==
  ASSUME NEW C, NEW ns \in Seq(C), NEW t \in C
  PROVE  Last(Append(ns, t)) = t
<1>1. Len(Append(ns, t)) = Len(ns) + 1 /\ Append(ns, t)[Len(ns) + 1] = t
  BY AppendProperties
<1> QED
  BY <1>1 DEF Last

\* A name is copied; after the last one the output is the meaning.
LEMMA CopyNameInv ==
  ASSUME IdInv, pc = "term", CopyName, q_last' = q
  PROVE  IdInv'
<1>1. PICK T, A, n, k, ns : AtTerm(T, A, n, k, ns)
  BY InRound
<1>2. Types
  BY InRound
<1>3. /\ T[k] = <<>> => buf[p] \in {NUL, "/"}
      /\ T[k] # <<>> => buf[p] = T[k][1]
      /\ buf[A[k]] = (IF k = n THEN NUL ELSE "/") /\ NUL # "/"
  <2>1. PICK b, x : b = buf /\ x = p /\ Ahead(b, A, T, n, k) /\ x = A[k - 1] + 1 /\ k \in 1 .. n
                    /\ Offsets(A, T, n)
    BY <1>1 DEF AtTerm
  <2>2. /\ T[k] = <<>> => b[x] \in {NUL, "/"}
        /\ T[k] # <<>> => b[x] = T[k][1]
        /\ b[A[k]] = (IF k = n THEN NUL ELSE "/") /\ NUL # "/"
    BY <2>1, FirstChar
  <2> QED
    BY <2>1, <2>2
<1>4. T[k] \in Names
  <2>1. buf[p] \notin {NUL, "/", "."}
    BY DEF CopyName
  <2>2. T[k] # <<>> /\ T[k][1] # "."
    BY <1>3, <2>1
  <2>3. T[k] \notin BadTerms
    BY <1>1, <2>2, TermFacts DEF AtTerm
  <2> QED
    BY <1>1, <2>2, <2>3, DotFacts DEF Terms, AtTerm
<1>5. buf[TermEnd] = NUL <=> k = n
  BY <1>1, <1>3 DEF AtTerm
<1>6. PICK m : m = IF k = n THEN A[k] - p ELSE A[k] - p + 1
  OBVIOUS
<1>7. PICK c : c = buf'
  OBVIOUS
<1>8. /\ c = [i \in 1 .. Len(buf) |-> IF i \in q .. q + m - 1 THEN buf[i - q + p] ELSE buf[i]]
      /\ q' = q + m /\ mod' = mod /\ req' = req
      /\ p' = IF k = n THEN A[k] + 1 ELSE EatSlashes(c, A[k] + 1)
      /\ pc' = IF k = n THEN "done" ELSE pc
  BY <1>1, <1>5, <1>6, <1>7 DEF CopyName, AtTerm
<1>9. CopiedTo(c, buf, p, q, m) /\ Copies(A, n, k, p, m)
  BY <1>6, <1>8 DEF CopiedTo, Copies
<1>10. NameIn(c, A, T, n, k, ns, q, m)
  <2>1. PICK b, x, y : b = buf /\ x = p /\ y = q
    OBVIOUS
  <2>2. /\ Offsets(A, T, n) /\ k \in 1 .. n /\ Ahead(b, A, T, n, k) /\ x = A[k - 1] + 1
        /\ ns \in Seq(Names) /\ Written(b, y, ns) /\ y <= x /\ T[k] \in Names
        /\ Copies(A, n, k, x, m) /\ CopiedTo(c, b, x, y, m)
    BY <1>1, <1>4, <1>9, <2>1 DEF AtTerm
  <2>3. NameIn(c, A, T, n, k, ns, y, m)
    BY <2>2, Copied
  <2> QED
    BY <2>1, <2>3
<1>101. Ahead(c, A, T, n, k + 1) /\ q \in Nat /\ m \in Nat /\ q + m <= A[k] + 1 /\ q < q + m
  BY <1>10 DEF NameIn
<1>11. Folded(SubSeq(T, 1, k)) = Having(Append(ns, T[k]))
  BY <1>1, <1>4, StepFacts DEF AtTerm
<1>12. T[k] # <<>>
  BY <1>4, TermFacts DEF Terms
<1>13. Append(ns, T[k]) \in Seq(Names) /\ Append(ns, T[k]) # <<>>
       /\ Join(Append(ns, T[k])) = Slashed(ns) \o T[k]
  <2>1. PICK t \in Names : t = T[k]
    BY <1>4
  <2>2. ns \in Seq(Names)
    BY <1>1 DEF AtTerm
  <2>3. Append(ns, t) \in Seq(Names) /\ Append(ns, t) # <<>> /\ Join(Append(ns, t)) = Slashed(ns) \o t
    BY <2>2, OneMore
  <2> QED
    BY <2>1, <2>3
<1>14. CASE k < n
  <2>1. k # n
    BY <1>1, <1>14 DEF AtTerm
  <2>2. buf' = c /\ q' = q + m /\ p' = EatSlashes(c, A[k] + 1) /\ pc' = "term"
    BY <1>7, <1>8, <2>1
  <2>3. PICK r, y : r = Append(ns, T[k]) /\ y = q + m
    OBVIOUS
  <2>4. Written(c, y, r) /\ r \in Seq(Names) /\ y <= A[k] + 1 /\ Folded(SubSeq(T, 1, k)) = Having(r)
    BY <1>10, <1>101, <1>11, <1>13, <2>1, <2>3 DEF NameIn
  <2>5. buf' = c /\ q' = y /\ mod' = mod /\ req' = req
    BY <1>8, <2>2, <2>3
  <2> QED
    BY <1>1, <1>2, <1>101, <1>12, <1>14, <2>2, <2>4, <2>5, GoesOn DEF AtTerm
<1>15. CASE k = n
  <2>1. buf' = c /\ q' = q + m /\ p' = A[n] + 1 /\ pc' = "done"
    BY <1>7, <1>8, <1>15
  <2>2. Types' /\ Input' = T
    <3>1. Types' /\ Input' = Input
      BY <1>2, <1>8, <2>1, InputStays
    <3> QED
      BY <1>1, <3>1 DEF Running, AtTerm
  <2>3. InPlace'
    <3>1. Len(c) = A[n]
      BY <1>101 DEF Ahead
    <3>2. q \in Nat /\ q >= 1
      BY <1>1, WrittenNothing DEF AtTerm
    <3>3. PICK e \in Nat, y \in Nat : e = A[n] /\ y = q + m /\ y <= e + 1 /\ q < y
      BY <1>1, <1>101, <1>15 DEF AtTerm
    <3>4. 1 <= q' /\ q' <= p' /\ p' <= Len(buf') + 1 /\ q_last' < q'
      BY <2>1, <3>1, <3>2, <3>3
    <3> QED
      BY <2>1, <3>4 DEF InPlace
  <2>4. Meaning(T) = Append(ns, T[k])
    <3>1. T[1] # <<>>
      BY <1>1, <1>12 DEF Running, AtTerm
    <3>2. ~(Len(Join(T)) >= Limit)
      BY <1>1 DEF Running, AtTerm
    <3>3. Folded(T) = Having(Append(ns, T[k]))
      BY <1>1, <1>11, <1>15, FoldAt DEF AtTerm
    <3>4. Folded(T).ok /\ Folded(T).names = Append(ns, T[k])
      BY <3>3 DEF Having
    <3> QED
      BY <1>1, <1>4, <1>15, <3>1, <3>2, <3>4, MeaningIs DEF AtTerm
  <2>5. Expected' = Append(ns, T[k])
    BY <2>2, <2>4 DEF Expected
  <2>6. Last(Append(ns, T[k])) = T[k]
    BY <1>1, <1>4, LastOfAppend DEF AtTerm
  <2>7. SubSeq(buf', 1, q' - 1) = Join(Append(ns, T[k])) /\ SubSeq(buf', q_last', q' - 1) = T[k]
    <3>1. PICK y \in Nat : y = q + m
      BY <1>101
    <3>2. y - 1 = q + m - 1
      BY <1>101, <3>1
    <3>3. SubSeq(c, 1, y - 1) = Slashed(ns) \o T[k] /\ SubSeq(c, q, y - 1) = T[k]
      BY <1>10, <1>15, <1>101, <3>2 DEF NameIn
    <3>4. buf' = c /\ q' = y /\ q_last' = q
      BY <2>1, <3>1
    <3> QED
      BY <1>13, <3>3, <3>4
  <2>8. Resolves'
    BY <1>13, <2>1, <2>5, <2>6, <2>7 DEF Resolves
  <2> QED
    BY <2>1, <2>2, <2>3, <2>8 DEF IdInv
<1> QED
  BY <1>1, <1>14, <1>15 DEF AtTerm

-----------------------------------------------------------------------------
(* Theorems about ResolveId *)

\* In every reachable state of the resolution, the rest of the input is intact,
\* what has been read of it stands for names, and these are what has been
\* written (duk_module_duktape.c:83).
THEOREM IdInvariant == IdSpec => []IdInv
<1>1. IdInit => IdInv
  BY InitInv
<1>2. IdInv /\ [IdNext]_idVars => IdInv'
  <2> SUFFICES ASSUME IdInv, [IdNext]_idVars PROVE IdInv'
    OBVIOUS
  <2>1. CASE Round
    <3>1. pc = "term" /\ q_last' = q
      BY <2>1 DEF Round
    <3>2. CASE EatDot
      BY <3>1, <3>2, EatDotInv
    <3>3. CASE EatDotDot
      BY <3>1, <3>3, EatDotDotInv
    <3>4. CASE BadTerm
      BY <3>1, <3>4, BadTermInv
    <3>5. CASE CopyName
      BY <3>1, <3>5, CopyNameInv
    <3> QED
      BY <2>1, <3>2, <3>3, <3>4, <3>5 DEF Round
  <2>2. CASE UNCHANGED idVars
    <3>1. mod' = mod /\ req' = req /\ buf' = buf /\ p' = p /\ q' = q /\ q_last' = q_last /\ pc' = pc
      BY <2>2 DEF idVars
    <3>2. Types' /\ Input' = Input
      BY <3>1, InputStays DEF IdInv, Types
    <3>3. Reading => Reading'
      BY <3>1, <3>2 DEF Reading, Running
    <3>4. InPlace'
      BY <3>1 DEF IdInv, InPlace
    <3>5. Resolves'
      BY <3>1, <3>2 DEF IdInv, Resolves, Expected
    <3> QED
      BY <3>1, <3>2, <3>3, <3>4, <3>5 DEF IdInv
  <2> QED
    BY <2>1, <2>2 DEF IdNext, Returned
<1> QED
  BY <1>1, <1>2, PTL DEF IdSpec, AtTerm

\* The terms ts follow s one by one.
Follows(ts, s) ==
  /\ Len(ts) \in Nat /\ s \o ts \in Seq(Terms)
  /\ s \o SubSeq(ts, 1, 0) = s /\ s \o SubSeq(ts, 1, Len(ts)) = s \o ts
  /\ \A k \in 1 .. Len(ts) :
       /\ ts[k] \in Terms /\ s \o SubSeq(ts, 1, k - 1) \in Seq(Terms)
       /\ s \o SubSeq(ts, 1, k) = Append(s \o SubSeq(ts, 1, k - 1), ts[k])

\* A concatenation, one element at a time.
LEMMA ConcatPrefix ==
  ASSUME NEW s \in Seq(Terms), NEW ts \in Seq(Terms)
  PROVE  Follows(ts, s)
<1>1. Len(ts) \in Nat /\ SubSeq(ts, 1, 0) = <<>> /\ SubSeq(ts, 1, Len(ts)) = ts
  BY PrefixFacts
<1>2. s \o <<>> = s
  BY ConcatEmptySeq
<1>3. s \o ts \in Seq(Terms)
  BY ConcatProperties
<1>4. ASSUME NEW k \in 1 .. Len(ts)
      PROVE  /\ ts[k] \in Terms /\ s \o SubSeq(ts, 1, k - 1) \in Seq(Terms)
             /\ s \o SubSeq(ts, 1, k) = Append(s \o SubSeq(ts, 1, k - 1), ts[k])
  <2>1. k - 1 \in 0 .. Len(ts)
    BY <1>1
  <2>2. PICK a : a = SubSeq(ts, 1, k - 1)
    OBVIOUS
  <2>3. a \in Seq(Terms) /\ ts[k] \in Terms /\ SubSeq(ts, 1, k) = Append(a, ts[k])
    BY <2>1, <2>2, PrefixFacts
  <2>4. s \o a \in Seq(Terms)
    BY <2>3, ConcatProperties
  <2>5. s \o Append(a, ts[k]) = Append(s \o a, ts[k])
    <3>1. Append(a, ts[k]) = a \o <<ts[k]>> /\ Append(s \o a, ts[k]) = (s \o a) \o <<ts[k]>>
      BY <2>3, <2>4, AppendIsConcat
    <3>2. <<ts[k]>> \in Seq(Terms)
      BY <2>3
    <3>3. s \o (a \o <<ts[k]>>) = (s \o a) \o <<ts[k]>>
      BY <2>3, <3>2, ConcatAssociative
    <3> QED
      BY <3>1, <3>3
  <2> QED
    BY <2>2, <2>3, <2>4, <2>5
<1> QED
  BY <1>1, <1>2, <1>3, <1>4 DEF Follows

\* How long the terms ts are with a slash after each.
Size(ts) == Len(Slashed(ts))

\* One more term takes its own characters and a slash.
LEMMA SizeAppend ==
  ASSUME NEW s \in Seq(Terms), NEW t \in Terms
  PROVE  Size(<<>>) = 0 /\ Size(s) \in Nat /\ Size(Append(s, t)) = Size(s) + Len(t) + 1
         /\ Len(t) \in Nat
<1>1. Terms \subseteq Text /\ \A u \in Terms : u \in Text /\ Len(u) \in Nat
  BY TermFacts
<1>2. s \in Seq(Text)
  <2>1. Len(s) \in Nat /\ s \in [1 .. Len(s) -> Terms]
    OBVIOUS
  <2>2. s \in [1 .. Len(s) -> Text]
    BY <1>1, <2>1
  <2> QED
    BY <2>1, <2>2
<1>3. PICK a, c : a = Slashed(s) /\ c = Slashed(Append(s, t))
  OBVIOUS
<1>4. a \in Text /\ c = (a \o t) \o <<"/">>
  BY <1>1, <1>2, <1>3, JoinAppend
<1>5. Len(c) = Len(a) + Len(t) + 1
  BY <1>1, <1>4, Concat3
<1>6. Len(a) \in Nat
  BY <1>4 DEF Text
<1> QED
  BY <1>1, <1>3, <1>5, <1>6, SlashedEnd DEF Size

\* An id grows and shrinks by as much as the beginning of it does.
LEMMA SizeConcat ==
  ASSUME NEW a \in Seq(Terms), NEW b \in Seq(Terms), NEW c \in Seq(Terms), Size(a) <= Size(b)
  PROVE  Size(a \o c) <= Size(b \o c)
<1> DEFINE P(k) == SubSeq(c, 1, k)
           G == {k \in 0 .. Len(c) : Size(a \o P(k)) <= Size(b \o P(k))}
<1>0. Follows(c, a) /\ Follows(c, b)
  BY ConcatPrefix
<1>1. Len(c) \in Nat
  BY <1>0 DEF Follows
<1>2. 0 \in G
  <2>1. a \o P(0) = a /\ b \o P(0) = b /\ 0 \in 0 .. Len(c)
    BY <1>0, <1>1 DEF Follows
  <2> HIDE DEF P
  <2> QED
    BY <2>1
<1>3. ASSUME NEW j \in 0 .. Len(c), j < Len(c), j \in G PROVE j + 1 \in G
  <2>1. PICK i \in 1 .. Len(c) : i = j + 1 /\ i - 1 = j
    <3>1. j + 1 \in 1 .. Len(c) /\ (j + 1) - 1 = j
      BY <1>1, <1>3
    <3> QED
      BY <3>1
  <2>2. PICK x \in Seq(Terms), y \in Seq(Terms) : x = a \o P(j) /\ y = b \o P(j)
    <3>1. a \o SubSeq(c, 1, i - 1) \in Seq(Terms) /\ b \o SubSeq(c, 1, i - 1) \in Seq(Terms)
      BY <1>0 DEF Follows
    <3> QED
      BY <2>1, <3>1
  <2>3. c[i] \in Terms /\ a \o P(i) = Append(x, c[i]) /\ b \o P(i) = Append(y, c[i])
    BY <1>0, <2>1, <2>2 DEF Follows
  <2>4. Size(x) <= Size(y)
    BY <1>3, <2>2
  <2>5. PICK u \in Nat, v \in Nat, l \in Nat :
          u = Size(x) /\ v = Size(y) /\ l = Len(c[i])
          /\ Size(Append(x, c[i])) = u + l + 1 /\ Size(Append(y, c[i])) = v + l + 1
    <3>1. Size(x) \in Nat /\ Size(Append(x, c[i])) = Size(x) + Len(c[i]) + 1 /\ Len(c[i]) \in Nat
      BY <2>2, <2>3, SizeAppend
    <3>2. Size(y) \in Nat /\ Size(Append(y, c[i])) = Size(y) + Len(c[i]) + 1
      BY <2>2, <2>3, SizeAppend
    <3> QED
      BY <3>1, <3>2
  <2>6. u + l + 1 <= v + l + 1
    <3>1. u <= v
      BY <2>4, <2>5
    <3> QED
      BY <2>5, <3>1
  <2>7. Size(a \o P(i)) <= Size(b \o P(i))
    BY <2>3, <2>5, <2>6
  <2> QED
    BY <1>1, <2>1, <2>7
<1>4. 0 .. Len(c) \subseteq G
  <2> HIDE DEF G
  <2> QED
    BY <1>1, <1>2, <1>3, UpTo
<1>5. Len(c) \in 0 .. Len(c)
  BY <1>1
<1>6. Size(a \o P(Len(c))) <= Size(b \o P(Len(c)))
  BY <1>4, <1>5
<1> QED
  BY <1>0, <1>6 DEF Follows

\* What follows is applied to what the beginning stands for, and only to that.
LEMMA FoldConcat ==
  ASSUME NEW a \in Seq(Terms), NEW b \in Seq(Terms), NEW c \in Seq(Terms), Folded(a) = Folded(b)
  PROVE  Folded(a \o c) = Folded(b \o c)
<1> DEFINE P(k) == SubSeq(c, 1, k)
           G == {k \in 0 .. Len(c) : Folded(a \o P(k)) = Folded(b \o P(k))}
<1>0. Follows(c, a) /\ Follows(c, b)
  BY ConcatPrefix
<1>1. Len(c) \in Nat
  BY <1>0 DEF Follows
<1>2. 0 \in G
  <2>1. a \o P(0) = a /\ b \o P(0) = b /\ 0 \in 0 .. Len(c)
    BY <1>0, <1>1 DEF Follows
  <2> HIDE DEF P
  <2> QED
    BY <2>1
<1>3. ASSUME NEW j \in 0 .. Len(c), j < Len(c), j \in G PROVE j + 1 \in G
  <2>1. PICK i \in 1 .. Len(c) : i = j + 1 /\ i - 1 = j
    <3>1. j + 1 \in 1 .. Len(c) /\ (j + 1) - 1 = j
      BY <1>1, <1>3
    <3> QED
      BY <3>1
  <2>2. PICK x \in Seq(Terms), y \in Seq(Terms) : x = a \o P(j) /\ y = b \o P(j)
    <3>1. a \o SubSeq(c, 1, i - 1) \in Seq(Terms) /\ b \o SubSeq(c, 1, i - 1) \in Seq(Terms)
      BY <1>0 DEF Follows
    <3> QED
      BY <2>1, <3>1
  <2>3. c[i] \in Terms /\ a \o P(i) = Append(x, c[i]) /\ b \o P(i) = Append(y, c[i])
    BY <1>0, <2>1, <2>2 DEF Follows
  <2>4. Folded(x) = Folded(y)
    BY <1>3, <2>2
  <2>5. Folded(Append(x, c[i])) = Step(Folded(x), c[i]) /\ Folded(Append(y, c[i])) = Step(Folded(y), c[i])
    BY <2>2, <2>3, FoldAppend
  <2>6. Folded(a \o P(i)) = Folded(b \o P(i))
    BY <2>3, <2>4, <2>5
  <2> QED
    BY <1>1, <2>1, <2>6
<1>4. 0 .. Len(c) \subseteq G
  <2> HIDE DEF G
  <2> QED
    BY <1>1, <1>2, <1>3, UpTo
<1>5. Len(c) \in 0 .. Len(c)
  BY <1>1
<1>6. Folded(a \o P(Len(c))) = Folded(b \o P(Len(c)))
  BY <1>4, <1>5
<1> QED
  BY <1>0, <1>6 DEF Follows

\* Names stand for themselves.
LEMMA NamesAreTerms ==
  ASSUME NEW ns \in Seq(Names)
  PROVE  ns \in Seq(Terms)
<1>1. Len(ns) \in Nat /\ ns \in [1 .. Len(ns) -> Names] /\ Names \subseteq Terms
  BY DEF Terms
<1>2. ns \in [1 .. Len(ns) -> Terms]
  BY <1>1
<1> QED
  BY <1>1, <1>2

\* A module's own id stands for itself.
LEMMA NamesStand ==
  ASSUME NEW ns \in Seq(Names)
  PROVE  Folded(ns) = Having(ns)
<1> DEFINE G == {k \in 0 .. Len(ns) : Folded(SubSeq(ns, 1, k)) = Having(SubSeq(ns, 1, k))}
<1>0. ns \in Seq(Terms)
  BY NamesAreTerms
<1>1. Len(ns) \in Nat /\ SubSeq(ns, 1, Len(ns)) = ns
  BY PrefixFacts
<1>2. 0 \in G
  <2>1. SubSeq(ns, 1, 0) = <<>>
    BY PrefixFacts
  <2>2. Folded(SubSeq(ns, 1, 0)) = Having(SubSeq(ns, 1, 0))
    BY <1>0, <2>1, FoldAt
  <2>3. 0 \in 0 .. Len(ns)
    BY <1>1
  <2> QED
    BY <2>2, <2>3
<1>3. ASSUME NEW j \in 0 .. Len(ns), j < Len(ns), j \in G PROVE j + 1 \in G
  <2>1. PICK i \in 1 .. Len(ns) : i = j + 1 /\ i - 1 = j
    <3>1. j + 1 \in 1 .. Len(ns) /\ (j + 1) - 1 = j
      BY <1>1, <1>3
    <3> QED
      BY <3>1
  <2>2. PICK f : f = SubSeq(ns, 1, j)
    OBVIOUS
  <2>3. f \in Seq(Names) /\ ns[i] \in Names /\ SubSeq(ns, 1, i) = Append(f, ns[i])
    BY <2>1, <2>2, PrefixFacts
  <2>4. Folded(SubSeq(ns, 1, i)) = Step(Folded(f), ns[i])
    BY <1>0, <2>1, <2>2, FoldAt
  <2>5. Folded(f) = Having(f)
    BY <1>3, <2>2
  <2>6. Folded(SubSeq(ns, 1, i)) = Having(SubSeq(ns, 1, i))
    BY <2>3, <2>4, <2>5, StepFacts
  <2> QED
    BY <1>1, <2>1, <2>6
<1>4. 0 .. Len(ns) \subseteq G
  <2> HIDE DEF G
  <2> QED
    BY <1>1, <1>2, <1>3, UpTo
<1>5. Len(ns) \in 0 .. Len(ns)
  BY <1>1
<1>6. Folded(SubSeq(ns, 1, Len(ns))) = Having(SubSeq(ns, 1, Len(ns)))
  BY <1>4, <1>5
<1> QED
  BY <1>1, <1>6

\* A text is one slash shorter than its terms with a slash after each.
LEMMA JoinSize ==
  ASSUME NEW ts \in Seq(Terms), ts # <<>>
  PROVE  Len(Join(ts)) \in Nat /\ Size(ts) = Len(Join(ts)) + 1
<1>1. PICK f \in Seq(Terms), t \in Terms : ts = Append(f, t)
  BY FrontLast
<1>2. \A u \in Terms : u \in Text
  BY TermFacts
<1>3. f \in Seq(Text)
  <2>1. Len(f) \in Nat /\ f \in [1 .. Len(f) -> Terms]
    OBVIOUS
  <2>2. f \in [1 .. Len(f) -> Text]
    BY <1>2, <2>1
  <2> QED
    BY <2>1, <2>2
<1>4. PICK s, j : s = Slashed(f) /\ j = Join(ts)
  OBVIOUS
<1>5. s \in Text /\ j = s \o t
  BY <1>1, <1>2, <1>3, <1>4, JoinAppend
<1>6. Len(j) = Len(s) + Len(t) /\ Len(s) \in Nat /\ Len(t) \in Nat
  <2>1. s \in Seq(Chars) /\ t \in Seq(Chars)
    BY <1>2, <1>5 DEF Text
  <2> QED
    BY <1>5, <2>1, ConcatProperties
<1>7. Size(ts) = Len(s) + Len(t) + 1
  BY <1>1, <1>4, SizeAppend DEF Size
<1> QED
  BY <1>4, <1>6, <1>7

\* The two ways to write a relative id stand for the same.
LEMMA SameMeaning ==
  ASSUME Types, IsRelative, Expected # <<>>
  PROVE  Meaning(Front(mod) \o req) = Expected
<1>1. PICK f \in Seq(Names), l \in Names : mod = Append(f, l) /\ f = Front(mod)
  BY FrontLast DEF Types, IsRelative
<1>2. PICK r \in Seq(Terms) : r = req /\ r # <<>> /\ r[1] # <<>>
  BY DEF Types, IsRelative
<1>3. mod \in Seq(Terms) /\ f \in Seq(Terms) /\ mod \in Seq(Names) /\ l \in Terms /\ DotDot \in Terms
  BY <1>1, NamesAreTerms, DotFacts DEF Types, Terms
<1>4. PICK m : m = Append(mod, DotDot)
  OBVIOUS
<1>5. m \in Seq(Terms) /\ m = mod \o <<DotDot>>
  BY <1>3, <1>4, AppendProperties, AppendIsConcat
<1>6. Input = m \o r
  BY <1>2, <1>5 DEF Input
<1>7. PICK a, b, n, k : a = m \o r /\ b = f \o r /\ n = Len(a) /\ k = Len(b)
  OBVIOUS
<1>8. /\ a \in Seq(Terms) /\ Len(a) = Len(m) + Len(r)
      /\ b \in Seq(Terms) /\ Len(b) = Len(f) + Len(r)
  BY <1>2, <1>3, <1>5, <1>7, ConcatProperties
<1>9. Len(m) \in Nat /\ Len(r) \in Nat /\ Len(f) \in Nat /\ Len(r) # 0 /\ Len(r) >= 1
  <2>1. Len(r) # 0
    BY <1>2, EmptySeq
  <2>2. Len(m) \in Nat /\ Len(r) \in Nat /\ Len(f) \in Nat
    BY <1>3, <1>5
  <2> QED
    BY <2>1, <2>2
<1>10. a # <<>> /\ b # <<>>
  <2>1. Len(a) # 0 /\ Len(b) # 0
    BY <1>8, <1>9
  <2> QED
    BY <2>1, EmptySeq
<1>11. Folded(a) = Folded(b)
  <2>1. Folded(mod) = Having(mod) /\ Folded(f) = Having(f)
    BY <1>1, <1>3, NamesStand
  <2>2. Folded(m) = Step(Having(mod), DotDot)
    BY <1>3, <1>4, <2>1, FoldAppend
  <2>3. mod # <<>>
    BY DEF IsRelative
  <2>4. Folded(m) = Folded(f)
    BY <1>1, <1>3, <2>1, <2>2, <2>3, StepFacts
  <2> QED
    BY <1>3, <1>5, <1>7, <2>4, FoldConcat
<1>12. Size(b) <= Size(a)
  <2>1. Size(f) \in Nat /\ Size(Append(f, l)) = Size(f) + Len(l) + 1 /\ Len(l) \in Nat
    BY <1>3, SizeAppend
  <2>2. Size(m) = Size(mod) + Len(DotDot) + 1 /\ Len(DotDot) \in Nat
    BY <1>3, <1>4, SizeAppend
  <2>3. PICK x \in Nat, y \in Nat, z \in Nat :
          x = Size(f) /\ y = Len(l) /\ z = Len(DotDot) /\ Size(mod) = x + y + 1
          /\ Size(m) = (x + y + 1) + z + 1
    BY <1>1, <2>1, <2>2
  <2>4. x <= (x + y + 1) + z + 1
    BY <2>3
  <2>5. Size(f) <= Size(m)
    BY <2>3, <2>4
  <2> QED
    BY <1>3, <1>5, <1>7, <2>5, SizeConcat
<1>13. Len(Join(a)) >= Len(Join(b)) /\ Len(Join(a)) \in Nat /\ Len(Join(b)) \in Nat
  <2>1. PICK x \in Nat, y \in Nat :
          x = Len(Join(a)) /\ y = Len(Join(b)) /\ Size(a) = x + 1 /\ Size(b) = y + 1
    BY <1>8, <1>10, JoinSize
  <2>2. y <= x
    BY <1>12, <2>1
  <2> QED
    BY <2>1, <2>2
<1>14. /\ a[n] \in Names /\ ~(Len(Join(a)) >= Limit) /\ Folded(a).ok
       /\ Expected = Folded(a).names
  BY <1>6, <1>7, <1>8, <1>10, MeaningIs DEF Expected
<1>15. a[n] = r[Len(r)] /\ b[k] = r[Len(r)]
  <2>1. PICK x \in Nat, y \in Nat, z \in Nat : x = Len(m) /\ y = Len(r) /\ z = Len(f) /\ y >= 1
    BY <1>9
  <2>2. n = x + y /\ k = z + y
    BY <1>7, <1>8, <2>1
  <2>3. \A i \in 1 .. x + y : a[i] = IF i <= x THEN m[i] ELSE r[i - x]
    BY <1>2, <1>5, <1>7, <2>1, ConcatProperties
  <2>4. \A i \in 1 .. z + y : b[i] = IF i <= z THEN f[i] ELSE r[i - z]
    BY <1>2, <1>3, <1>7, <2>1, ConcatProperties
  <2>5. x + y \in 1 .. x + y /\ ~(x + y <= x) /\ (x + y) - x = y
    BY <2>1
  <2>6. z + y \in 1 .. z + y /\ ~(z + y <= z) /\ (z + y) - z = y
    BY <2>1
  <2>7. a[x + y] = r[y]
    BY <2>3, <2>5
  <2>8. b[z + y] = r[y]
    BY <2>4, <2>6
  <2> QED
    BY <2>1, <2>2, <2>7, <2>8
<1>16. b[1] # <<>>
  <2>1. PICK y \in Nat, z \in Nat : y = Len(r) /\ z = Len(f) /\ y >= 1
    BY <1>9
  <2>2. \A i \in 1 .. z + y : b[i] = IF i <= z THEN f[i] ELSE r[i - z]
    BY <1>2, <1>3, <1>7, <2>1, ConcatProperties
  <2>3. 1 \in 1 .. z + y
    BY <2>1
  <2>4. CASE 1 <= z
    <3>1. f[1] \in Names
      BY <2>1, <2>4, ElementOfSeq
    <3>2. f[1] # <<>>
      BY <3>1, TermFacts DEF Terms
    <3> QED
      BY <2>2, <2>3, <2>4, <3>2
  <2>5. CASE ~(1 <= z)
    <3>1. 1 - z = 1
      BY <2>1, <2>5
    <3> QED
      BY <1>2, <2>2, <2>3, <2>5, <3>1
  <2> QED
    BY <2>4, <2>5
<1>17. ~(Len(Join(b)) >= Limit)
  BY <1>13, <1>14, BoundsAssumption
<1>18. Meaning(b) = Folded(b).names
  BY <1>7, <1>8, <1>10, <1>11, <1>14, <1>15, <1>16, <1>17, MeaningIs
<1> QED
  BY <1>1, <1>2, <1>7, <1>11, <1>14, <1>18

\* However dots, slashes and names follow each other, the output is never
\* written over input that is still to be read, and a '..' always finds the
\* slash before q that it looks back from (duk_module_duktape.c:120, 145).
THEOREM OutputInPlace == IdSpec => []InPlace
<1>1. IdInv => InPlace
  BY DEF IdInv
<1> QED
  BY <1>1, IdInvariant, PTL

\* The one pass over the buffer computes what the id stands for, and where its
\* last component begins, and throws exactly for ids that stand for nothing
\* (duk_module_duktape.c:83).
THEOREM IdsResolved == IdSpec => []Resolves
<1>1. IdInv => Resolves
  BY DEF IdInv
<1> QED
  BY <1>1, IdInvariant, PTL

\* mod_id/../req_id is the same as req_id in the directory of mod_id: the
\* inserted '..' takes back the module's own name and nothing else, whatever the
\* requested id begins with (duk_module_duktape.c:61).
THEOREM RelativeIds == IdSpec => []RelativeToModule
<1>1. IdInv => RelativeToModule
  <2> SUFFICES ASSUME IdInv, pc = "done", IsRelative
               PROVE  SubSeq(buf, 1, q - 1) = Join(Meaning(Front(mod) \o req))
    BY DEF RelativeToModule
  <2>1. Types /\ Expected # <<>> /\ SubSeq(buf, 1, q - 1) = Join(Expected)
    BY DEF IdInv, Resolves
  <2>2. Meaning(Front(mod) \o req) = Expected
    BY <2>1, SameMeaning
  <2> QED
    BY <2>1, <2>2
<1> QED
  BY <1>1, IdInvariant, PTL
=============================================================================
