--------------------------- MODULE PtrStoreProofs ---------------------------
(***************************************************************************)
(* PtrStore for every set of targets and pointers and every id width: the  *)
(* inductive invariant, the safety properties, and that every step of the  *)
(* store is a step of HandleService.                                       *)
(***************************************************************************)
EXTENDS PtrStore, FiniteSetTheorems, TLAPS

\* A search is only under way for a pointer that has no id.
SearchIsForNew == \A t \in Targets : pc[t] = "probe" => ptr2id[obj[t]] = NULL

\* Cleared maps are empty.
ClearedIsEmpty ==
  cleared => /\ \A i \in Ids : id2ptr[i] = NULL
             /\ \A o \in Objects : ptr2id[o] = NULL

IInv ==
  /\ TypeOK
  /\ MapsInverse
  /\ HandleResolves
  /\ CountExact
  /\ SearchIsForNew
  /\ ClearedIsEmpty

-----------------------------------------------------------------------------
(* The id arithmetic stays within uint32. *)
LEMMA IdArithmetic ==
  ASSUME NEW i \in Ids
  PROVE  /\ Succ(i) \in Ids
         /\ Pred(i) \in Ids
  BY MaxIdAssumption DEF Ids, Succ, Pred

LEMMA InitIInv == Init => IInv
  <1> SUFFICES ASSUME Init PROVE IInv
    OBVIOUS
  <1> USE MaxIdAssumption, NullAssumption DEF Init
  <1>1. TypeOK
    <2>1. 0 \in Ids /\ NULL \notin Targets
      BY DEF Ids
    <2>2. /\ id2ptr \in [Ids -> Objects \cup {NULL}]
          /\ count \in [Ids -> Nat]
          /\ ptr2id \in [Objects -> Ids \cup {NULL}]
      OBVIOUS
    <2>3. /\ pc \in [Targets -> PC]
          /\ obj \in [Targets -> Objects \cup {NULL}]
          /\ idx \in [Targets -> Ids]
      BY <2>1 DEF PC
    <2>4. \A t \in Targets : pc[t] = "new" /\ lock # t
      BY <2>1
    <2>5. QED
      BY <2>1, <2>2, <2>3, <2>4 DEF TypeOK
  <1>2. MapsInverse /\ HandleResolves /\ CountExact /\ SearchIsForNew /\ ClearedIsEmpty
    BY DEF MapsInverse, HandleResolves, CountExact, SearchIsForNew, ClearedIsEmpty, Holding
  <1>3. QED
    BY <1>1, <1>2 DEF IInv

(* Types are preserved by every step. *)
LEMMA TypeStep ==
  ASSUME TypeOK, [Next]_vars
  PROVE  TypeOK'
  <1> USE MaxIdAssumption, NullAssumption
  <1>1. CASE UNCHANGED vars
    BY <1>1 DEF TypeOK, vars
  <1>2. ASSUME NEW t \in Targets, NEW o \in Objects, MakeProxy(t, o)
        PROVE  TypeOK'
    BY <1>2 DEF TypeOK, MakeProxy, store, PC
  <1>3. ASSUME NEW t \in Targets, RegisterKnown(t)
        PROVE  TypeOK'
    <2>1. obj[t] \in Objects /\ KnownId(obj[t]) \in Ids
      BY <1>3 DEF TypeOK, RegisterKnown, KnownId
    <2>2. QED
      BY <1>3, <2>1 DEF TypeOK, RegisterKnown, PC
  <1>4. ASSUME NEW t \in Targets, RegisterNew(t)
        PROVE  TypeOK'
    BY <1>4 DEF TypeOK, RegisterNew, PC
  <1>5. ASSUME NEW t \in Targets, Search(t)
        PROVE  TypeOK'
    <2>1. Succ(index) \in Ids /\ obj[t] \in Objects
      BY <1>5, IdArithmetic DEF TypeOK, Search, Probe, Insert, InsertIntoNil
    <2>2. QED
      BY <1>5, <2>1 DEF TypeOK, Search, Probe, Insert, InsertIntoNil, Unlock, PC
  <1>6. ASSUME NEW t \in Targets, Finalize(t)
        PROVE  TypeOK'
    BY <1>6 DEF TypeOK, Finalize, store, PC
  <1>7. ASSUME NEW t \in Targets, RemoveKeeps(t)
        PROVE  TypeOK'
    BY <1>7 DEF TypeOK, RemoveKeeps, OtherRefs, Lookup, PC
  <1>8. ASSUME NEW t \in Targets, RemoveLast(t)
        PROVE  TypeOK'
    <2>1. idx[t] \in Ids /\ id2ptr[idx[t]] \in Objects
      BY <1>8 DEF TypeOK, RemoveLast, Lookup
    <2>2. Rewind(idx[t]) \in Ids
      BY <2>1, IdArithmetic DEF Rewind, TypeOK
    <2>3. QED
      BY <1>8, <2>1, <2>2 DEF TypeOK, RemoveLast, ForgetPtr, PC
  <1>9. CASE Clear
    BY <1>9 DEF TypeOK, Clear
  <1>10. CASE Crashed
    BY <1>10 DEF TypeOK, Crashed, vars
  <1>11. QED
    BY <1>1, <1>2, <1>3, <1>4, <1>5, <1>6, <1>7, <1>8, <1>9, <1>10
       DEF Next, Register, Remove

(* Every variable of the store keeps its type, and s.lock is held exactly  *)
(* by the register that searches.                                          *)
THEOREM TypeCorrect == Spec => []TypeOK
  <1>1. Init => TypeOK
    BY InitIInv DEF IInv
  <1>2. TypeOK /\ [Next]_vars => TypeOK'
    BY TypeStep
  <1>3. QED
    BY <1>1, <1>2, PTL DEF Spec
-----------------------------------------------------------------------------
(* The holders of an id are finitely many targets. *)
LEMMA HoldersFinite ==
  ASSUME NEW i \in Ids
  PROVE  IsFiniteSet(Holders(i)) /\ Cardinality(Holders(i)) \in Nat
  BY TargetsAssumption, FS_Subset, FS_CardinalityType DEF Holders

(* A step that leaves the tables alone, and every target's hold with them. *)
LEMMA TablesKept ==
  ASSUME IInv, TypeOK',
         UNCHANGED <<id2ptr, count, ptr2id, cleared>>,
         \A t \in Targets : Holding(t)' <=> Holding(t),
         \A t \in Targets : Holding(t) => idx'[t] = idx[t] /\ obj'[t] = obj[t],
         SearchIsForNew'
  PROVE  IInv'
  <1>1. \A i \in Ids : Holders(i)' = Holders(i)
    BY DEF Holders
  <1>2. MapsInverse' /\ ClearedIsEmpty'
    BY DEF IInv, MapsInverse, ClearedIsEmpty
  <1>3. HandleResolves'
    BY DEF IInv, HandleResolves, Lookup
  <1>4. CountExact'
    BY <1>1 DEF IInv, CountExact
  <1>5. QED
    BY <1>2, <1>3, <1>4 DEF IInv

LEMMA RegisterKnownStep ==
  ASSUME IInv, TypeOK', NEW t \in Targets, RegisterKnown(t)
  PROVE  IInv'
  <1> USE NullAssumption DEF KnownId
  <1>0. PICK i \in Ids : i = ptr2id[obj[t]]
    BY DEF IInv, TypeOK, RegisterKnown
  <1>1. /\ obj[t] \in Objects
        /\ id2ptr[i] = obj[t]
        /\ ~cleared
        /\ ~Holding(t)
        /\ t \notin Holders(i)
    BY <1>0 DEF IInv, TypeOK, RegisterKnown, MapsInverse, ClearedIsEmpty, Holding, Holders
  <1>2. /\ UNCHANGED <<lock, index, id2ptr, ptr2id, cleared, obj>>
        /\ count' = [count EXCEPT ![i] = @ + 1]
        /\ idx' = [idx EXCEPT ![t] = i]
        /\ pc' = [pc EXCEPT ![t] = "live"]
    BY <1>0 DEF RegisterKnown
  <1>3. /\ Holding(t)'
        /\ \A u \in Targets \ {t} : (Holding(u)' <=> Holding(u)) /\ idx'[u] = idx[u]
    BY <1>2 DEF Holding, IInv, TypeOK
  <1>4. idx'[t] = i
    BY <1>2 DEF IInv, TypeOK
  <1>5. /\ Holders(i)' = Holders(i) \cup {t}
        /\ \A j \in Ids \ {i} : Holders(j)' = Holders(j)
    BY <1>1, <1>3, <1>4 DEF Holders
  <1>6. Cardinality(Holders(i)') = Cardinality(Holders(i)) + 1
    BY <1>1, <1>5, HoldersFinite, FS_AddElement
  <1>7. MapsInverse' /\ ClearedIsEmpty' /\ SearchIsForNew'
    BY <1>2 DEF IInv, MapsInverse, ClearedIsEmpty, SearchIsForNew, TypeOK
  <1>8. HandleResolves'
    BY <1>1, <1>2, <1>3, <1>4 DEF IInv, HandleResolves, Lookup
  <1>9. CountExact'
    <2> SUFFICES ASSUME NEW j \in Ids, id2ptr'[j] # NULL
                 PROVE  count'[j] = Cardinality(Holders(j)') /\ Holders(j)' # {}
      BY DEF CountExact
    <2>1. CASE j = i
      BY <2>1, <1>1, <1>2, <1>5, <1>6 DEF IInv, CountExact, TypeOK
    <2>2. CASE j # i
      BY <2>2, <1>2, <1>5 DEF IInv, CountExact, TypeOK
    <2>3. QED
      BY <2>1, <2>2
  <1>10. QED
    BY <1>7, <1>8, <1>9 DEF IInv

LEMMA InsertStep ==
  ASSUME IInv, TypeOK', NEW t \in Targets, Insert(t)
  PROVE  IInv'
  <1> USE NullAssumption
  <1>0. PICK i \in Ids : i = Succ(index)
    BY IdArithmetic DEF IInv, TypeOK
  <1>1. /\ obj[t] \in Objects
        /\ id2ptr[i] = NULL
        /\ ptr2id[obj[t]] = NULL
        /\ ~cleared
        /\ ~Holding(t)
        /\ lock = t
    BY <1>0 DEF IInv, TypeOK, Insert, SearchIsForNew, Holding, Lookup
  <1>2. /\ id2ptr' = [id2ptr EXCEPT ![i] = obj[t]]
        /\ count' = [count EXCEPT ![i] = 1]
        /\ ptr2id' = [ptr2id EXCEPT ![obj[t]] = i]
        /\ idx' = [idx EXCEPT ![t] = i]
        /\ pc' = [pc EXCEPT ![t] = "live"]
        /\ UNCHANGED <<cleared, obj>>
    BY <1>0 DEF Insert
  <1>3. /\ Holding(t)'
        /\ \A u \in Targets \ {t} : (Holding(u)' <=> Holding(u)) /\ idx'[u] = idx[u]
        /\ idx'[t] = i
    BY <1>2 DEF Holding, IInv, TypeOK
  <1>4. Holders(i) = {}
    BY <1>1 DEF Holders, IInv, HandleResolves, Lookup, TypeOK, Holding
  <1>5. /\ Holders(i)' = {t}
        /\ \A j \in Ids \ {i} : Holders(j)' = Holders(j)
    BY <1>1, <1>3, <1>4 DEF Holders
  <1>6. Cardinality(Holders(i)') = 1
    BY <1>5, FS_Singleton
  <1>7. MapsInverse'
    <2>1. \A j \in Ids : id2ptr[j] # obj[t]
      BY <1>1 DEF IInv, MapsInverse
    <2>2. \A o \in Objects : ptr2id[o] # i
      BY <1>1 DEF IInv, MapsInverse
    <2>3. \A j \in Ids : id2ptr'[j] # NULL => ptr2id'[id2ptr'[j]] = j
      BY <1>1, <1>2, <2>1 DEF IInv, MapsInverse, TypeOK
    <2>4. \A o \in Objects : ptr2id'[o] # NULL => id2ptr'[ptr2id'[o]] = o
      BY <1>1, <1>2, <2>2 DEF IInv, MapsInverse, TypeOK
    <2>5. QED
      BY <2>3, <2>4 DEF MapsInverse
  <1>8. HandleResolves'
    <2> SUFFICES ASSUME NEW u \in Targets, Holding(u)'
                 PROVE  id2ptr'[idx'[u]] = obj'[u]
      BY DEF HandleResolves, Lookup
    <2>1. CASE u = t
      BY <2>1, <1>1, <1>2, <1>3 DEF IInv, TypeOK
    <2>2. CASE u # t
      <3>1. Holding(u) /\ idx'[u] = idx[u] /\ idx[u] \in Ids
        BY <2>2, <1>3 DEF IInv, TypeOK
      <3>2. id2ptr[idx[u]] = obj[u] /\ idx[u] # i
        BY <3>1, <1>1, <1>4 DEF IInv, HandleResolves, Lookup, Holders
      <3>3. QED
        BY <3>1, <3>2, <1>2 DEF IInv, TypeOK
    <2>3. QED
      BY <2>1, <2>2
  <1>9. CountExact'
    <2> SUFFICES ASSUME NEW j \in Ids, id2ptr'[j] # NULL
                 PROVE  count'[j] = Cardinality(Holders(j)') /\ Holders(j)' # {}
      BY DEF CountExact
    <2>1. CASE j = i
      BY <2>1, <1>1, <1>2, <1>5, <1>6 DEF IInv, TypeOK
    <2>2. CASE j # i
      BY <2>2, <1>2, <1>5 DEF IInv, CountExact, TypeOK
    <2>3. QED
      BY <2>1, <2>2
  <1>10. ClearedIsEmpty'
    BY <1>1, <1>2 DEF ClearedIsEmpty
  <1>11. SearchIsForNew'
    BY <1>1, <1>2 DEF SearchIsForNew, IInv, TypeOK
  <1>12. QED
    BY <1>7, <1>8, <1>9, <1>10, <1>11 DEF IInv

LEMMA RemoveKeepsStep ==
  ASSUME IInv, TypeOK', NEW t \in Targets, RemoveKeeps(t)
  PROVE  IInv'
  <1> USE NullAssumption
  <1>0. PICK i \in Ids : i = idx[t]
    BY DEF IInv, TypeOK
  <1>1. /\ UNCHANGED <<lock, index, id2ptr, ptr2id, cleared, obj, idx>>
        /\ pc' = [pc EXCEPT ![t] = "dead"]
        /\ count' = IF id2ptr[i] = NULL THEN count ELSE [count EXCEPT ![i] = @ - 1]
        /\ Holding(t) /\ t \in Holders(i)
    BY <1>0 DEF RemoveKeeps, Lookup, Holding, Holders
  <1>2. /\ ~Holding(t)'
        /\ \A u \in Targets \ {t} : Holding(u)' <=> Holding(u)
    BY <1>1 DEF Holding, IInv, TypeOK
  <1>3. MapsInverse' /\ ClearedIsEmpty' /\ SearchIsForNew' /\ HandleResolves'
    <2>1. MapsInverse' /\ ClearedIsEmpty'
      BY <1>1 DEF IInv, MapsInverse, ClearedIsEmpty
    <2>2. SearchIsForNew'
      BY <1>1 DEF IInv, SearchIsForNew, TypeOK
    <2>3. HandleResolves'
      BY <1>1, <1>2 DEF IInv, HandleResolves, Lookup
    <2>4. QED
      BY <2>1, <2>2, <2>3
  <1>4. CASE id2ptr[i] = NULL
    <2>1. cleared
      BY <1>0, <1>1, <1>4 DEF IInv, HandleResolves, Lookup, TypeOK, Holding
    <2>2. CountExact'
      BY <1>1, <2>1 DEF CountExact, IInv, ClearedIsEmpty
    <2>3. QED
      BY <1>3, <2>2 DEF IInv
  <1>5. CASE id2ptr[i] # NULL
    <2>1. count[i] > 1 /\ count[i] = Cardinality(Holders(i))
      BY <1>0, <1>5 DEF IInv, TypeOK, CountExact, RemoveKeeps, OtherRefs, Lookup
    <2>2. /\ Holders(i)' = Holders(i) \ {t}
          /\ \A j \in Ids \ {i} : Holders(j)' = Holders(j)
      BY <1>0, <1>1, <1>2 DEF Holders
    <2>3. Cardinality(Holders(i)') = Cardinality(Holders(i)) - 1
      BY <1>1, <2>2, HoldersFinite, FS_RemoveElement
    <2>4. Holders(i)' # {}
      <3>1. Cardinality(Holders(i)') # 0
        BY <2>1, <2>3, HoldersFinite
      <3>2. QED
        BY <3>1, FS_EmptySet
    <2>5. CountExact'
      <3> SUFFICES ASSUME NEW j \in Ids, id2ptr'[j] # NULL
                   PROVE  count'[j] = Cardinality(Holders(j)') /\ Holders(j)' # {}
        BY DEF CountExact
      <3>1. CASE j = i
        BY <3>1, <1>1, <1>5, <2>1, <2>3, <2>4 DEF IInv, TypeOK
      <3>2. CASE j # i
        BY <3>2, <1>1, <2>2 DEF IInv, CountExact, TypeOK
      <3>3. QED
        BY <3>1, <3>2
    <2>6. QED
      BY <1>3, <2>5 DEF IInv
  <1>6. QED
    BY <1>4, <1>5

LEMMA RemoveLastStep ==
  ASSUME IInv, TypeOK', NEW t \in Targets, RemoveLast(t)
  PROVE  IInv'
  <1> USE NullAssumption
  <1>0. PICK i \in Ids : i = idx[t]
    BY DEF IInv, TypeOK
  <1>1. /\ UNCHANGED <<lock, cleared, obj, idx>>
        /\ pc' = [pc EXCEPT ![t] = "dead"]
        /\ id2ptr' = [id2ptr EXCEPT ![i] = NULL]
        /\ ptr2id' = [ptr2id EXCEPT ![id2ptr[i]] = NULL]
        /\ count' = [count EXCEPT ![i] = 0]
        /\ id2ptr[i] # NULL /\ ~(count[i] - 1 > 0)
        /\ t \in Holders(i)
    BY <1>0 DEF RemoveLast, ForgetPtr, OtherRefs, Lookup, Holding, Holders
  <1>2. /\ ~Holding(t)'
        /\ \A u \in Targets \ {t} : Holding(u)' <=> Holding(u)
    BY <1>1 DEF Holding, IInv, TypeOK
  <1>3. Holders(i) = {t}
    <2>1. Cardinality(Holders(i)) = count[i] /\ count[i] \in Nat
      BY <1>1 DEF IInv, CountExact, TypeOK
    <2>2. Cardinality(Holders(i)) # 0
      BY <1>1, HoldersFinite, FS_EmptySet
    <2>3. Cardinality(Holders(i)) = 1
      BY <1>1, <2>1, <2>2
    <2>4. PICK u : Holders(i) = {u}
      BY <2>3, HoldersFinite, FS_Singleton
    <2>5. QED
      BY <1>1, <2>4
  <1>4. \A j \in Ids \ {i} : Holders(j)' = Holders(j)
    BY <1>0, <1>1, <1>2 DEF Holders
  <1>5. PICK o \in Objects : o = id2ptr[i]
    BY <1>1 DEF IInv, TypeOK
  <1>6. \A j \in Ids \ {i} : id2ptr[j] # o
    BY <1>1, <1>5 DEF IInv, MapsInverse
  <1>7. MapsInverse'
    <2>1. \A j \in Ids : id2ptr'[j] # NULL => ptr2id'[id2ptr'[j]] = j
      BY <1>1, <1>5, <1>6 DEF IInv, MapsInverse, TypeOK
    <2>2. \A p \in Objects : ptr2id'[p] # NULL => id2ptr'[ptr2id'[p]] = p
      BY <1>1, <1>5 DEF IInv, MapsInverse, TypeOK
    <2>3. QED
      BY <2>1, <2>2 DEF MapsInverse
  <1>8. HandleResolves'
    <2> SUFFICES ASSUME ~cleared', NEW u \in Targets, Holding(u)'
                 PROVE  id2ptr'[idx'[u]] = obj'[u]
      BY DEF HandleResolves, Lookup
    <2>1. Holding(u) /\ u # t
      BY <1>2
    <2>2. idx[u] \in Ids \ {i}
      BY <2>1, <1>3 DEF IInv, TypeOK, Holders
    <2>3. QED
      BY <2>1, <2>2, <1>1 DEF IInv, HandleResolves, Lookup, TypeOK
  <1>9. CountExact'
    <2> SUFFICES ASSUME NEW j \in Ids, id2ptr'[j] # NULL
                 PROVE  count'[j] = Cardinality(Holders(j)') /\ Holders(j)' # {}
      BY DEF CountExact
    <2>1. j # i
      BY <1>1 DEF IInv, TypeOK
    <2>2. QED
      BY <2>1, <1>1, <1>4 DEF IInv, CountExact, TypeOK
  <1>10. ClearedIsEmpty'
    BY <1>1 DEF IInv, ClearedIsEmpty
  <1>11. SearchIsForNew'
    BY <1>1, <1>5 DEF SearchIsForNew, IInv, TypeOK
  <1>12. QED
    BY <1>7, <1>8, <1>9, <1>10, <1>11 DEF IInv

LEMMA InductiveStep ==
  ASSUME IInv, [Next]_vars
  PROVE  IInv'
  <1>0. TypeOK'
    BY TypeStep DEF IInv
  <1> USE <1>0, NullAssumption
  <1>1. CASE UNCHANGED vars
    <2>1. SearchIsForNew'
      BY <1>1 DEF vars, IInv, SearchIsForNew
    <2>2. QED
      BY <1>1, <2>1, TablesKept DEF vars, Holding
  <1>2. ASSUME NEW t \in Targets, NEW o \in Objects, MakeProxy(t, o)
        PROVE  IInv'
    <2>1. SearchIsForNew'
      BY <1>2 DEF MakeProxy, store, IInv, SearchIsForNew, TypeOK
    <2>2. /\ \A u \in Targets : Holding(u)' <=> Holding(u)
          /\ \A u \in Targets : Holding(u) => idx'[u] = idx[u] /\ obj'[u] = obj[u]
      BY <1>2 DEF MakeProxy, Holding, IInv, TypeOK
    <2>3. QED
      BY <1>2, <2>1, <2>2, TablesKept DEF MakeProxy, store
  <1>3. ASSUME NEW t \in Targets, RegisterKnown(t)
        PROVE  IInv'
    BY <1>3, RegisterKnownStep
  <1>4. ASSUME NEW t \in Targets, RegisterNew(t)
        PROVE  IInv'
    <2>1. SearchIsForNew'
      BY <1>4 DEF RegisterNew, KnownId, IInv, SearchIsForNew, TypeOK
    <2>2. \A u \in Targets : Holding(u)' <=> Holding(u)
      BY <1>4 DEF RegisterNew, Holding, IInv, TypeOK
    <2>3. QED
      BY <1>4, <2>1, <2>2, TablesKept DEF RegisterNew
  <1>5. ASSUME NEW t \in Targets, Probe(t)
        PROVE  IInv'
    <2>1. SearchIsForNew'
      BY <1>5 DEF Probe, IInv, SearchIsForNew
    <2>2. QED
      BY <1>5, <2>1, TablesKept DEF Probe, Holding
  <1>6. ASSUME NEW t \in Targets, Insert(t)
        PROVE  IInv'
    BY <1>6, InsertStep
  <1>7. ASSUME NEW t \in Targets, InsertIntoNil(t)
        PROVE  IInv'
    <2>1. SearchIsForNew'
      BY <1>7 DEF InsertIntoNil, IInv, SearchIsForNew, TypeOK
    <2>2. \A u \in Targets : Holding(u)' <=> Holding(u)
      BY <1>7 DEF InsertIntoNil, Holding, IInv, TypeOK
    <2>3. QED
      BY <1>7, <2>1, <2>2, TablesKept DEF InsertIntoNil
  <1>8. ASSUME NEW t \in Targets, Finalize(t)
        PROVE  IInv'
    <2>1. SearchIsForNew'
      BY <1>8 DEF Finalize, store, IInv, SearchIsForNew, TypeOK
    <2>2. \A u \in Targets : Holding(u)' <=> Holding(u)
      BY <1>8 DEF Finalize, Holding, IInv, TypeOK
    <2>3. QED
      BY <1>8, <2>1, <2>2, TablesKept DEF Finalize, store
  <1>9. ASSUME NEW t \in Targets, RemoveKeeps(t)
        PROVE  IInv'
    BY <1>9, RemoveKeepsStep
  <1>10. ASSUME NEW t \in Targets, RemoveLast(t)
         PROVE  IInv'
    BY <1>10, RemoveLastStep
  <1>11. CASE Clear
    <2>1. /\ cleared' /\ UNCHANGED <<lock, index, pc, obj, idx>>
          /\ \A i \in Ids : id2ptr'[i] = NULL
          /\ \A o \in Objects : ptr2id'[o] = NULL
      BY <1>11 DEF Clear
    <2>2. MapsInverse' /\ HandleResolves' /\ CountExact' /\ ClearedIsEmpty'
      BY <2>1 DEF MapsInverse, HandleResolves, CountExact, ClearedIsEmpty
    <2>3. SearchIsForNew'
      BY <2>1 DEF SearchIsForNew, IInv, TypeOK
    <2>4. QED
      BY <2>2, <2>3 DEF IInv
  <1>12. CASE Crashed
    <2>1. UNCHANGED vars
      BY <1>12 DEF Crashed
    <2>2. QED
      BY <2>1, <1>1
  <1>13. QED
    BY <1>1, <1>2, <1>3, <1>4, <1>5, <1>6, <1>7, <1>8, <1>9, <1>10, <1>11, <1>12
       DEF Next, Register, Search, Remove

(* The tables agree with each other and with the holds of the targets.     *)
THEOREM Invariant == Spec => []IInv
  <1>1. Init => IInv
    BY InitIInv
  <1>2. IInv /\ [Next]_vars => IInv'
    BY InductiveStep
  <1>3. QED
    BY <1>1, <1>2, PTL DEF Spec

(* register and remove keep ptr2id the inverse of id2ptr.                  *)
THEOREM MapsStayInverse == Spec => []MapsInverse
  BY Invariant, PTL DEF IInv

(* The id stored in a live proxy target looks up to the pointer that       *)
(* makeProxyObject registered for it, until the store is cleared.          *)
THEOREM HandlesResolve == Spec => []HandleResolves
  BY Invariant, PTL DEF IInv

(* A ref's count is the number of targets that still have to remove it, so *)
(* no ref is dropped while it is held and none stays without a holder.     *)
THEOREM CountsAreExact == Spec => []CountExact
  BY Invariant, PTL DEF IInv
-----------------------------------------------------------------------------
(* What the refinement mapping of ImplementsHandles shows of the targets.  *)
HandleOf == [t \in Targets |-> IF Holding(t) THEN idx[t] ELSE NULL]
BoundTo == [t \in Targets |-> IF Holding(t) THEN obj[t] ELSE NULL]

(* The owners of the handle service are the targets that hold an id. *)
LEMMA OwnersHold ==
  ASSUME TypeOK
  PROVE  Service!Owners = {t \in Targets : Holding(t)}
  BY NullAssumption DEF Service!Owners, TypeOK, Ids

(* A step in which target t becomes a holder of id i is a Bind. *)
LEMMA HoldingBinds ==
  ASSUME IInv, NEW t \in Targets, NEW i \in Ids,
         ~cleared, UNCHANGED <<cleared, obj>>,
         obj[t] \in Objects, ~Holding(t),
         pc' = [pc EXCEPT ![t] = "live"],
         idx' = [idx EXCEPT ![t] = i],
         \A u \in Targets : Holding(u) => (idx[u] = i <=> obj[u] = obj[t])
  PROVE  Service!Bind(t, obj[t], i)
  <1>1. /\ Holding(t)' /\ idx'[t] = i
        /\ \A u \in Targets \ {t} : (Holding(u)' <=> Holding(u)) /\ idx'[u] = idx[u]
    BY DEF IInv, TypeOK, Holding
  <1>2. HandleOf' = [HandleOf EXCEPT ![t] = i]
    BY <1>1, Zenon DEF HandleOf
  <1>3. BoundTo' = [BoundTo EXCEPT ![t] = obj[t]]
    BY <1>1, Zenon DEF BoundTo
  <1>4. HandleOf[t] = NULL
    BY DEF HandleOf
  <1>5. \A u \in Service!Owners : HandleOf[u] = i <=> BoundTo[u] = obj[t]
    BY OwnersHold DEF IInv, HandleOf, BoundTo
  <1>6. QED
    BY <1>2, <1>3, <1>4, <1>5 DEF Service!Bind, HandleOf, BoundTo

(* A step in which target t stops holding its id is an Unbind. *)
LEMMA DroppingUnbinds ==
  ASSUME IInv, NEW t \in Targets, Holding(t),
         UNCHANGED <<cleared, obj, idx>>,
         pc' = [pc EXCEPT ![t] = "dead"]
  PROVE  Service!Unbind(t)
  <1>1. /\ ~Holding(t)'
        /\ \A u \in Targets \ {t} : Holding(u)' <=> Holding(u)
    BY DEF IInv, TypeOK, Holding
  <1>2. HandleOf' = [HandleOf EXCEPT ![t] = NULL]
    BY <1>1, Zenon DEF HandleOf
  <1>3. BoundTo' = [BoundTo EXCEPT ![t] = NULL]
    BY <1>1, Zenon DEF BoundTo
  <1>4. HandleOf[t] # NULL
    BY NullAssumption DEF HandleOf, IInv, TypeOK
  <1>5. QED
    BY <1>2, <1>3, <1>4 DEF Service!Unbind, HandleOf, BoundTo

(* A step that keeps every hold and the store's maps alive is invisible. *)
LEMMA HoldsKept ==
  ASSUME UNCHANGED cleared,
         \A t \in Targets : Holding(t)' <=> Holding(t),
         \A t \in Targets : Holding(t) => idx'[t] = idx[t] /\ obj'[t] = obj[t]
  PROVE  UNCHANGED Service!vars
  <1>1. HandleOf' = HandleOf
    BY Zenon DEF HandleOf
  <1>2. BoundTo' = BoundTo
    BY Zenon DEF BoundTo
  <1>3. QED
    BY <1>1, <1>2 DEF Service!vars, HandleOf, BoundTo

LEMMA ServiceStep ==
  ASSUME IInv, [Next]_vars
  PROVE  [Service!Next]_(Service!vars)
  <1> USE NullAssumption
  <1>1. CASE UNCHANGED vars
    BY <1>1, HoldsKept DEF vars, Holding
  <1>2. ASSUME NEW t \in Targets, NEW o \in Objects, MakeProxy(t, o)
        PROVE  UNCHANGED Service!vars
    <2>1. \A u \in Targets : (Holding(u)' <=> Holding(u)) /\ (Holding(u) => u # t)
      BY <1>2 DEF MakeProxy, Holding, IInv, TypeOK
    <2>2. \A u \in Targets : Holding(u) => idx'[u] = idx[u] /\ obj'[u] = obj[u]
      BY <1>2, <2>1 DEF MakeProxy, IInv, TypeOK
    <2>3. QED
      BY <1>2, <2>1, <2>2, HoldsKept DEF MakeProxy, store
  <1>3. ASSUME NEW t \in Targets, RegisterKnown(t)
        PROVE  \E o \in Objects, i \in Ids : Service!Bind(t, o, i)
    <2>0. PICK i \in Ids : i = ptr2id[obj[t]]
      BY <1>3 DEF IInv, TypeOK, RegisterKnown, KnownId
    <2>1. /\ ~cleared /\ obj[t] \in Objects /\ ~Holding(t) /\ id2ptr[i] = obj[t]
      BY <1>3, <2>0 DEF IInv, TypeOK, RegisterKnown, ClearedIsEmpty, Holding, MapsInverse
    <2>2. \A u \in Targets : Holding(u) => (idx[u] = i <=> obj[u] = obj[t])
      BY <2>0, <2>1 DEF IInv, TypeOK, HandleResolves, Lookup, MapsInverse
    <2>3. /\ UNCHANGED <<cleared, obj>>
          /\ pc' = [pc EXCEPT ![t] = "live"]
          /\ idx' = [idx EXCEPT ![t] = i]
      BY <1>3, <2>0 DEF RegisterKnown, KnownId
    <2>4. QED
      BY <2>1, <2>2, <2>3, HoldingBinds
  <1>4. ASSUME NEW t \in Targets, RegisterNew(t)
        PROVE  UNCHANGED Service!vars
    <2>1. \A u \in Targets : Holding(u)' <=> Holding(u)
      BY <1>4 DEF RegisterNew, Holding, IInv, TypeOK
    <2>2. QED
      BY <1>4, <2>1, HoldsKept DEF RegisterNew
  <1>5. ASSUME NEW t \in Targets, Probe(t)
        PROVE  UNCHANGED Service!vars
    BY <1>5, HoldsKept DEF Probe, Holding
  <1>6. ASSUME NEW t \in Targets, Insert(t)
        PROVE  \E o \in Objects, i \in Ids : Service!Bind(t, o, i)
    <2>0. PICK i \in Ids : i = Succ(index)
      BY IdArithmetic DEF IInv, TypeOK
    <2>1. /\ ~cleared /\ obj[t] \in Objects /\ ~Holding(t)
          /\ id2ptr[i] = NULL /\ ptr2id[obj[t]] = NULL
      BY <1>6, <2>0 DEF IInv, TypeOK, Insert, SearchIsForNew, Holding, Lookup
    <2>2. \A u \in Targets : Holding(u) => idx[u] # i /\ obj[u] # obj[t]
      BY <2>1 DEF IInv, TypeOK, HandleResolves, Lookup, MapsInverse, Holding
    <2>3. /\ UNCHANGED <<cleared, obj>>
          /\ pc' = [pc EXCEPT ![t] = "live"]
          /\ idx' = [idx EXCEPT ![t] = i]
      BY <1>6, <2>0 DEF Insert
    <2>4. QED
      BY <2>1, <2>2, <2>3, HoldingBinds
  <1>7. ASSUME NEW t \in Targets, InsertIntoNil(t) \/ Finalize(t)
        PROVE  UNCHANGED Service!vars
    <2>1. \A u \in Targets : Holding(u)' <=> Holding(u)
      BY <1>7 DEF InsertIntoNil, Finalize, Holding, IInv, TypeOK
    <2>2. QED
      BY <1>7, <2>1, HoldsKept DEF InsertIntoNil, Finalize, store
  <1>8. ASSUME NEW t \in Targets, Remove(t)
        PROVE  Service!Unbind(t)
    <2>1. /\ Holding(t) /\ UNCHANGED <<cleared, obj, idx>>
          /\ pc' = [pc EXCEPT ![t] = "dead"]
      BY <1>8 DEF Remove, RemoveKeeps, RemoveLast, Holding
    <2>2. QED
      BY <2>1, DroppingUnbinds
  <1>9. CASE Clear
    <2>1. ~cleared /\ cleared' /\ HandleOf' = HandleOf /\ BoundTo' = BoundTo
      BY <1>9 DEF Clear, HandleOf, BoundTo, Holding
    <2>2. QED
      BY <2>1 DEF Service!Close, Service!Next, HandleOf, BoundTo
  <1>10. CASE Crashed
    <2>1. UNCHANGED vars
      BY <1>10 DEF Crashed
    <2>2. QED
      BY <2>1, <1>1
  <1>11. QED
    BY <1>1, <1>2, <1>3, <1>4, <1>5, <1>6, <1>7, <1>8, <1>9, <1>10
       DEF Next, Register, Search, Service!Next

(* The store implements HandleService: whatever the order of registrations *)
(* and finalizers, a bound target's handle belongs to its object alone and *)
(* is reused only when its last owner is gone.                             *)
THEOREM Refinement == Spec => ImplementsHandles
  <1>1. Init => Service!Init
    BY DEF Init, Service!Init, Holding
  <1>2. IInv /\ [Next]_vars => [Service!Next]_(Service!vars)
    BY ServiceStep
  <1>3. QED
    BY <1>1, <1>2, Invariant, PTL DEF Spec, ImplementsHandles, Service!Spec
-----------------------------------------------------------------------------
(* Taken ids stand for different pointers, so they are no more than the    *)
(* pointers of any set P they all lie in.                                  *)
LEMMA TakenIdsBounded ==
  ASSUME IInv, NEW P \in SUBSET Objects, IsFiniteSet(P),
         \A i \in 1 .. index : id2ptr[i] \in P
  PROVE  index <= Cardinality(P)
  <1>1. index \in Nat /\ index <= MaxId /\ 1 .. index \subseteq Ids
    BY MaxIdAssumption DEF IInv, TypeOK, Ids
  <1>2. IsFiniteSet(1 .. index) /\ Cardinality(1 .. index) = index
    BY <1>1, FS_Interval
  <1>3. Cardinality(P) \in Nat
    BY FS_CardinalityType
  <1> DEFINE f == [i \in 1 .. index |-> id2ptr[i]]
  <1>4. f \in [1 .. index -> P]
    OBVIOUS
  <1>5. \A i, j \in 1 .. index : f[i] = f[j] => i = j
    BY <1>1, NullAssumption DEF IInv, MapsInverse
  <1>6. SUFFICES ASSUME Cardinality(P) < Cardinality(1 .. index) PROVE FALSE
    BY <1>1, <1>2, <1>3
  <1>7. \E i, j \in 1 .. index : i # j /\ f[i] = f[j]
    <2> HIDE DEF f
    <2>1. QED
      BY <1>2, <1>4, <1>6, FS_PigeonHole
  <1>8. QED
    BY <1>5, <1>7

(* With room for every pointer the counter is still below the last id when *)
(* a search for a new pointer o is under way, and stays below it after.    *)
LEMMA NoWrap ==
  ASSUME IInv, IdsDense, Capacity, ~cleared,
         NEW o \in Objects, ptr2id[o] = NULL
  PROVE  /\ Cardinality(Objects) \in Nat
         /\ index + 1 <= Cardinality(Objects)
         /\ Succ(index) = index + 1
  <1>1. IsFiniteSet(Objects \ {o}) /\ Cardinality(Objects \ {o}) = Cardinality(Objects) - 1
    BY FS_RemoveElement DEF Capacity
  <1>2. Cardinality(Objects) \in Nat
    BY FS_CardinalityType DEF Capacity
  <1>3. index \in Nat /\ index <= MaxId /\ 1 .. index \subseteq Ids
    BY MaxIdAssumption DEF IInv, TypeOK, Ids
  <1>4. \A i \in 1 .. index : id2ptr[i] \in Objects \ {o}
    BY <1>3, NullAssumption DEF IInv, TypeOK, IdsDense, MapsInverse
  <1>5. index <= Cardinality(Objects \ {o})
    BY <1>1, <1>4, TakenIdsBounded
  <1>6. QED
    BY <1>1, <1>2, <1>3, <1>5, MaxIdAssumption DEF Succ, Capacity

LEMMA DensityStep ==
  ASSUME IInv, IdsDense, [Next]_vars
  PROVE  IdsDense'
  <1> SUFFICES ASSUME Capacity, ~cleared'
               PROVE  /\ \A i \in 1 .. index' : id2ptr'[i] # NULL
                      /\ \A i \in Ids : id2ptr'[i] # NULL => i \in 1 .. Cardinality(Objects)
    BY DEF IdsDense, Capacity
  <1> USE NullAssumption
  <1>1. /\ index \in Nat /\ index <= MaxId /\ 1 .. index \subseteq Ids
        /\ Cardinality(Objects) \in Nat
    BY MaxIdAssumption, FS_CardinalityType DEF IInv, TypeOK, Ids, Capacity
  <1>2. CASE UNCHANGED <<index, id2ptr, cleared>>
    BY <1>2 DEF IdsDense
  <1>3. ASSUME NEW t \in Targets, Probe(t)
        PROVE  IdsDense'
    <2>1. ~cleared /\ obj[t] \in Objects /\ ptr2id[obj[t]] = NULL
      BY <1>3 DEF Probe, IInv, TypeOK, SearchIsForNew
    <2>2. index' = index + 1 /\ id2ptr' = id2ptr /\ id2ptr[index + 1] # NULL
      BY <1>3, <2>1, NoWrap DEF Probe, Lookup
    <2>3. \A i \in 1 .. index' : i \in 1 .. index \/ i = index + 1
      BY <1>1, <2>2
    <2>4. QED
      BY <2>1, <2>2, <2>3 DEF IdsDense
  <1>4. ASSUME NEW t \in Targets, Insert(t)
        PROVE  IdsDense'
    <2>1. ~cleared /\ obj[t] \in Objects /\ ptr2id[obj[t]] = NULL
      BY <1>4 DEF Insert, IInv, TypeOK, SearchIsForNew
    <2>2. /\ index + 1 <= Cardinality(Objects)
          /\ Succ(index) = index + 1
          /\ index + 1 \in Ids
      <3>1. index + 1 <= Cardinality(Objects) /\ Succ(index) = index + 1
        BY <2>1, NoWrap
      <3>2. index \in Ids
        BY DEF IInv, TypeOK
      <3>3. QED
        BY <3>1, <3>2, IdArithmetic
    <2>3. index' = index + 1 /\ id2ptr' = [id2ptr EXCEPT ![index + 1] = obj[t]]
      BY <1>4, <2>2 DEF Insert
    <2>4. \A i \in 1 .. index' : i \in 1 .. index \/ i = index + 1
      BY <1>1, <2>3
    <2>5. \A i \in 1 .. index' : id2ptr'[i] # NULL
      BY <1>1, <2>1, <2>2, <2>3, <2>4 DEF IdsDense, IInv, TypeOK
    <2>6. \A i \in Ids : id2ptr'[i] # NULL => i \in 1 .. Cardinality(Objects)
      BY <1>1, <2>1, <2>2, <2>3 DEF IdsDense, IInv, TypeOK
    <2>7. QED
      BY <2>5, <2>6 DEF IdsDense
  <1>5. ASSUME NEW t \in Targets, InsertIntoNil(t)
        PROVE  IdsDense'
    BY <1>5 DEF InsertIntoNil
  <1>6. ASSUME NEW t \in Targets, RemoveLast(t)
        PROVE  IdsDense'
    <2>0. PICK i \in Ids : i = idx[t]
      BY DEF IInv, TypeOK
    <2>1. /\ ~cleared /\ id2ptr[i] # NULL
          /\ id2ptr' = [id2ptr EXCEPT ![i] = NULL]
          /\ index' = Rewind(i)
      BY <1>6, <2>0 DEF RemoveLast, Lookup
    <2>2. i \in 1 .. Cardinality(Objects)
      BY <2>1 DEF IdsDense
    <2>3. index' = IF i <= index THEN i - 1 ELSE index
      BY <1>1, <2>1, <2>2 DEF Rewind, Pred
    <2>4. \A j \in 1 .. index' : j \in 1 .. index /\ j # i
      BY <1>1, <2>2, <2>3
    <2>5. QED
      BY <1>1, <2>1, <2>4 DEF IdsDense, IInv, TypeOK
  <1>7. CASE Clear
    BY <1>7 DEF Clear
  <1>8. CASE UNCHANGED vars
    BY <1>8, <1>2 DEF vars
  <1>9. QED
    <2>1. ASSUME NEW t \in Targets, NEW o \in Objects, MakeProxy(t, o)
          PROVE  UNCHANGED <<index, id2ptr, cleared>>
      BY <2>1 DEF MakeProxy, store
    <2>2. ASSUME NEW t \in Targets, Register(t) \/ Finalize(t) \/ RemoveKeeps(t)
          PROVE  UNCHANGED <<index, id2ptr, cleared>>
      BY <2>2 DEF Register, RegisterKnown, RegisterNew, Finalize, RemoveKeeps, store
    <2>3. Crashed => UNCHANGED vars
      BY DEF Crashed
    <2>4. QED
      BY <1>2, <1>3, <1>4, <1>5, <1>6, <1>7, <1>8, <2>1, <2>2, <2>3
         DEF Next, Search, Remove, IdsDense

(* While there is room for every pointer, every id up to s.index is taken  *)
(* and ids never exceed the number of pointers: the uint32 counter does    *)
(* not creep upwards however many proxies come and go.                     *)
THEOREM Density == Spec => []IdsDense
  <1>1. Init => IdsDense
    BY DEF Init, IdsDense
  <1>2. IInv /\ IdsDense /\ [Next]_vars => IdsDense'
    BY DensityStep
  <1>3. QED
    BY <1>1, <1>2, Invariant, PTL DEF Spec

(* register hands out the smallest positive id that is free.               *)
THEOREM LowestFirst == Spec => LowestIdFirst
  <1> DEFINE Lowest ==
        Capacity =>
          \A i \in Ids : id2ptr[i] = NULL /\ id2ptr'[i] # NULL
                           => \A j \in 1 .. i - 1 : id2ptr[j] # NULL
  <1>1. IInv /\ IdsDense /\ [Next]_vars => [Lowest]_vars
    <2> SUFFICES ASSUME IInv, IdsDense, [Next]_vars, Capacity,
                        NEW i \in Ids, id2ptr[i] = NULL, id2ptr'[i] # NULL
                 PROVE  \A j \in 1 .. i - 1 : id2ptr[j] # NULL
      OBVIOUS
    <2>1. PICK t \in Targets : Insert(t)
      BY NullAssumption DEF Next, vars, store, MakeProxy, Register, RegisterKnown, RegisterNew,
         Search, Probe, InsertIntoNil, Finalize, Remove, RemoveKeeps, RemoveLast, Clear,
         Crashed, IInv, TypeOK
    <2>2. ~cleared /\ obj[t] \in Objects /\ ptr2id[obj[t]] = NULL
      BY <2>1 DEF Insert, IInv, TypeOK, SearchIsForNew
    <2>3. i = index + 1
      <3>1. index' = index + 1 /\ id2ptr' = [id2ptr EXCEPT ![index'] = obj[t]]
        BY <2>1, <2>2, NoWrap DEF Insert
      <3>2. QED
        BY <3>1 DEF IInv, TypeOK
    <2>4. index \in Nat
      BY MaxIdAssumption DEF IInv, TypeOK, Ids
    <2>5. QED
      BY <2>2, <2>3, <2>4 DEF IdsDense
  <1>2. QED
    BY <1>1, Invariant, Density, PTL DEF Spec, LowestIdFirst
=============================================================================
