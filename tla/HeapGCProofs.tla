---------------------------- MODULE HeapGCProofs ----------------------------
(***************************************************************************)
(* Reference counts are exact and nothing in use is freed; HeapGC          *)
(* implements Reclamation, and no finalizer runs twice unless a finalizer  *)
(* stores a reference; all for any set of objects.                         *)
(***************************************************************************)
EXTENDS HeapGC, FiniteSetTheorems, TLAPS

-----------------------------------------------------------------------------
(* Counting references *)

\* The counts of the objects in L are those of the references R, with the
\* bump of the objects on list l and that of c.
Exact(L, l, c, R, rc) ==
  \A o \in L : rc[o] = Cardinality(FromTo(R, L \cup {Root}, o))
                       + (IF o \in l THEN 1 ELSE 0) + (IF o = c THEN 1 ELSE 0)

\* The sets of referrers are finite, so that counting them makes sense.
LEMMA Referrers ==
  ASSUME NEW L, L \subseteq Objs, NEW R, NEW o
  PROVE  /\ IsFiniteSet(FromTo(R, L \cup {Root}, o))
         /\ Cardinality(FromTo(R, L \cup {Root}, o)) \in Nat
<1>1. IsFiniteSet(L)
  BY ObjsAssumption, FS_Subset
<1>2. IsFiniteSet(L \cup {Root})
  BY <1>1, FS_Singleton, FS_Union
<1>3. FromTo(R, L \cup {Root}, o) \subseteq L \cup {Root}
  BY DEF FromTo
<1> QED
  BY <1>2, <1>3, FS_Subset, FS_CardinalityType

\* Freeing F takes from each count what F contributed to it.
LEMMA Decrefs ==
  ASSUME NEW all, IsFiniteSet(all), NEW gone, gone \subseteq all
  PROVE  /\ Cardinality(gone) \in Nat /\ Cardinality(all) \in Nat
         /\ Cardinality(all \ gone) = Cardinality(all) - Cardinality(gone)
<1>1. all \cap gone = gone
  OBVIOUS
<1>2. IsFiniteSet(gone) /\ Cardinality(gone) \in Nat /\ Cardinality(all) \in Nat
  BY FS_Subset, FS_CardinalityType
<1> QED
  BY <1>1, <1>2, FS_Difference

\* A reference to b is one of its counted references.
LEMMA OneLess ==
  ASSUME NEW L, L \subseteq Objs, NEW R, NEW a \in L \cup {Root}, NEW b \in Objs,
         NEW o \in Objs
  PROVE  /\ <<a, b>> \in R =>
              Cardinality(FromTo(R \ {<<a, b>>}, L \cup {Root}, o))
                = Cardinality(FromTo(R, L \cup {Root}, o)) - (IF o = b THEN 1 ELSE 0)
         /\ <<a, b>> \notin R =>
              Cardinality(FromTo(R \cup {<<a, b>>}, L \cup {Root}, o))
                = Cardinality(FromTo(R, L \cup {Root}, o)) + (IF o = b THEN 1 ELSE 0)
<1> DEFINE all == FromTo(R, L \cup {Root}, o)
<1>1. IsFiniteSet(all) /\ Cardinality(all) \in Nat
  BY Referrers
<1>2. CASE o # b
  <2>1. FromTo(R \ {<<a, b>>}, L \cup {Root}, o) = all
    BY <1>2 DEF FromTo
  <2>2. FromTo(R \cup {<<a, b>>}, L \cup {Root}, o) = all
    BY <1>2 DEF FromTo
  <2> QED
    BY <1>1, <1>2, <2>1, <2>2
<1>3. CASE o = b
  <2>1. ASSUME <<a, b>> \in R
        PROVE  Cardinality(FromTo(R \ {<<a, b>>}, L \cup {Root}, o)) = Cardinality(all) - 1
    <3>1. FromTo(R \ {<<a, b>>}, L \cup {Root}, o) = all \ {a} /\ a \in all
      BY <1>3, <2>1 DEF FromTo
    <3> HIDE DEF all
    <3>2. Cardinality(all \ {a}) = Cardinality(all) - 1
      BY <1>1, <3>1, FS_RemoveElement
    <3> QED
      BY <3>1, <3>2
  <2>2. ASSUME <<a, b>> \notin R
        PROVE  Cardinality(FromTo(R \cup {<<a, b>>}, L \cup {Root}, o)) = Cardinality(all) + 1
    <3>1. FromTo(R \cup {<<a, b>>}, L \cup {Root}, o) = all \cup {a} /\ a \notin all
      BY <1>3, <2>2 DEF FromTo
    <3> HIDE DEF all
    <3>2. Cardinality(all \cup {a}) = Cardinality(all) + 1
      BY <1>1, <3>1, FS_AddElement
    <3> QED
      BY <3>1, <3>2
  <2> QED
    BY <1>3, <2>1, <2>2
<1> QED
  BY <1>2, <1>3

-----------------------------------------------------------------------------
(* Freeing *)

LEMMA LiveObjs == TypeOK => Live \subseteq Objs
BY ObjsAssumption DEF TypeOK, Live

\* The set that Cascade computes has dropped, and nothing else is in it: each
\* of its objects has a positive count, all of it from what is freed.
LEMMA CascadeDrops ==
  ASSUME TypeOK, NEW F, F \subseteq Live, NEW R, NEW rc \in [Objs -> Nat],
         NEW o \in Cascade(F, R, rc)
  PROVE  rc[o] \in 1 .. Cardinality(
           FromTo(R, F \cup {x \in Cascade(F, R, rc) : ~NeedsFinalizer(x)}, o))
<1> DEFINE H == heap_allocated \ F
           C == Cascade(F, R, rc)
           freed(S) == F \cup {x \in S : ~NeedsFinalizer(x)}
           Count(S, x) == Cardinality(FromTo(R, freed(S), x))
<1>0. H \subseteq Objs
  BY DEF TypeOK
<1>1. ASSUME NEW S \in SUBSET H, NEW T \in SUBSET S, NEW x
      PROVE  Count(T, x) \in Nat /\ Count(S, x) \in Nat /\ Count(T, x) <= Count(S, x)
  <2>1. FromTo(R, freed(T), x) \subseteq FromTo(R, freed(S), x)
    BY DEF FromTo
  <2>2. FromTo(R, freed(S), x) \subseteq Objs
    BY LiveObjs, <1>0 DEF FromTo
  <2>3. IsFiniteSet(FromTo(R, freed(S), x))
    BY <2>2, ObjsAssumption, FS_Subset
  <2> QED
    BY <2>1, <2>3, FS_Subset, FS_CardinalityType
<1>2. C \in SUBSET H
  BY DEF Cascade
<1>3. \A x \in H : rc[x] \in 1 .. Count(C, x) => x \in C
  <2> SUFFICES ASSUME NEW x \in H, rc[x] \in 1 .. Count(C, x),
                      NEW S \in SUBSET H, HasDropped(S, F, R, rc)
               PROVE  x \in S
    BY DEF Cascade
  <2>1. C \in SUBSET S
    BY DEF Cascade
  <2>2. Count(C, x) \in Nat /\ Count(S, x) \in Nat /\ Count(C, x) <= Count(S, x)
    BY <1>1, <2>1
  <2>3. rc[x] \in 1 .. Count(S, x)
    BY <2>2
  <2> QED
    BY <2>3 DEF HasDropped
<1>4. SUFFICES ASSUME rc[o] \notin 1 .. Count(C, o)
               PROVE  FALSE
  OBVIOUS
<1> DEFINE D == C \ {o}
<1>5. D \in SUBSET C /\ D \in SUBSET H
  BY <1>2
<1>6. ASSUME NEW x \in H, rc[x] \in 1 .. Count(D, x)
      PROVE  x \in D
  <2>1. Count(D, x) \in Nat /\ Count(C, x) \in Nat /\ Count(D, x) <= Count(C, x)
    BY <1>1, <1>2, <1>5
  <2>2. rc[x] \in 1 .. Count(C, x)
    BY <1>6, <2>1
  <2> QED
    BY <1>3, <1>4, <2>2
<1>7. HasDropped(D, F, R, rc)
  BY <1>6 DEF HasDropped
<1> QED
  BY <1>5, <1>7 DEF Cascade

\* What a step frees and queues, given exact counts, so that nothing that
\* stays refers to what goes.
Releasable(F, Q, R, rc) ==
  /\ F \subseteq Live
  /\ Q \subseteq heap_allocated \ F
  /\ R \subseteq refs
  /\ rc \in [Objs -> Nat]
  /\ Exact(Live, finalize_list, curr, R, rc)
  /\ \A e \in R : e[2] \in F => e[1] \in F

\* What ReleaseAll queues and frees.
Queued(F, R, rc) == {o \in Cascade(F, R, rc) : NeedsFinalizer(o)}
Freed(F, R, rc) == F \cup (Cascade(F, R, rc) \ Queued(F, R, rc))

\* What counting frees needs no finalizer any more but for what it starts from,
\* what it queues does, and nothing refers to that but what is freed.
Dropped(from, F, Q, R) ==
  /\ \A o \in F \ from : ~NeedsFinalizer(o)
  /\ \A o \in Q : NeedsFinalizer(o)
  /\ \A e \in R : e[2] \in Q => e[1] \in F

\* The cascade frees only what nothing else refers to.
LEMMA CascadeIsClosed ==
  ASSUME TypeOK, NoDangling, NEW F, NEW R, NEW rc, Releasable(F, {}, R, rc)
  PROVE  /\ Releasable(Freed(F, R, rc), Queued(F, R, rc), R, rc)
         /\ Dropped(F, Freed(F, R, rc), Queued(F, R, rc), R)
         /\ F \subseteq Freed(F, R, rc)
         /\ curr \notin F => curr \notin Freed(F, R, rc) \cup Queued(F, R, rc)
         /\ curr \notin Queued(F, R, rc)
<1> DEFINE C == Cascade(F, R, rc)
           Q == Queued(F, R, rc)
           freed == Freed(F, R, rc)
<1>0. Q = {o \in C : NeedsFinalizer(o)} /\ freed = F \cup (C \ Q)
  BY DEF Queued, Freed
<1> HIDE DEF Q, freed
<1>1. C \subseteq heap_allocated \ F /\ Q \subseteq C
  BY <1>0 DEF Cascade
<1>2. freed \subseteq Live /\ Q \subseteq heap_allocated \ freed /\ Live \subseteq Objs
  <2>1. F \subseteq Live
    BY DEF Releasable
  <2> QED
    BY <1>0, <1>1, <2>1, LiveObjs DEF Live
<1>3. ASSUME NEW o \in C
      PROVE  /\ o # curr
             /\ FromTo(R, Live \cup {Root}, o) = FromTo(R, freed, o)
  <2> DEFINE all == FromTo(R, Live \cup {Root}, o)
             gone == FromTo(R, freed, o)
  <2>1. freed = F \cup {x \in C : ~NeedsFinalizer(x)}
    BY <1>0
  <2>2. rc[o] \in 1 .. Cardinality(gone)
    BY <2>1, CascadeDrops DEF Releasable
  <2>3. IsFiniteSet(all) /\ Cardinality(all) \in Nat /\ gone \subseteq all
    <3>1. gone \subseteq all
      BY <1>2 DEF FromTo
    <3> QED
      BY <1>2, <3>1, Referrers
  <2>4. Cardinality(gone) \in Nat /\ Cardinality(gone) <= Cardinality(all)
    BY <2>3, FS_Subset, FS_CardinalityType
  <2>5. o \in Live /\ rc[o] \in Nat
    BY <1>1, <1>2 DEF Releasable, Live
  <2>6. rc[o] = Cardinality(all) + (IF o \in finalize_list THEN 1 ELSE 0)
                + (IF o = curr THEN 1 ELSE 0)
    BY <2>5 DEF Releasable, Exact
  <2>7. Cardinality(gone) = Cardinality(all) /\ o # curr
    BY <2>2, <2>3, <2>4, <2>5, <2>6
  <2> QED
    BY <2>3, <2>7, FS_Subset
<1>4. ASSUME NEW e \in R, e[2] \in F \cup C
      PROVE  e[1] \in freed
  <2>1. CASE e[2] \in F
    BY <1>0, <2>1 DEF Releasable
  <2>2. CASE e[2] \in C
    <3>1. e \in refs /\ e = <<e[1], e[2]>> /\ e[1] \in Live \cup {Root}
      BY DEF Releasable, TypeOK, NoDangling
    <3>2. e[1] \in FromTo(R, Live \cup {Root}, e[2])
      BY <1>4, <3>1 DEF FromTo
    <3>3. e[1] \in FromTo(R, freed, e[2])
      BY <1>3, <2>2, <3>2
    <3> QED
      BY <3>3 DEF FromTo
  <2> QED
    BY <1>4, <2>1, <2>2
<1>5. curr \notin C
  BY <1>3
<1>6. Dropped(F, freed, Q, R)
  BY <1>0, <1>1, <1>4 DEF Dropped
<1>7. Releasable(freed, Q, R, rc)
  BY <1>0, <1>2, <1>4 DEF Releasable
<1> QED
  BY <1>0, <1>1, <1>5, <1>6, <1>7 DEF freed, Q

\* Freeing and queueing such sets keeps counts exact and leaves nothing dangling.
LEMMA ReleaseKeeps ==
  ASSUME TypeOK, NoDangling, NEW F, NEW Q, NEW R, NEW rc, Releasable(F, Q, R, rc),
         Release(F, Q, R, rc),
         (curr \in F /\ curr' = None) \/ (curr \notin F /\ curr' = curr)
  PROVE  /\ Live' = Live \ F /\ Live' \subseteq Live
         /\ refs' \subseteq R
         /\ refcount' \in [Objs -> Nat]
         /\ NoDangling'
         /\ CountsExact'
<1>1. Live' = Live \ F /\ Live' \subseteq Live
  <2>1. Q \subseteq heap_allocated /\ Q \cap F = {}
    BY DEF Releasable
  <2> QED
    BY <2>1 DEF Release, Live
<1>2. refs' = {e \in R : e[1] \notin F} /\ R \subseteq refs
  BY DEF Release, Releasable
<1>3. \A e \in R : e[2] \in F => e[1] \in F
  BY DEF Releasable
<1>4. NoDangling'
  BY <1>1, <1>2, <1>3, RootAssumption DEF NoDangling
<1>5. ASSUME NEW o \in Live
      PROVE  /\ Cardinality(FromTo(R, F, o)) \in Nat
             /\ Cardinality(FromTo(R, Live \cup {Root}, o)) \in Nat
             /\ Cardinality(FromTo(refs', Live' \cup {Root}, o))
                  = Cardinality(FromTo(R, Live \cup {Root}, o)) - Cardinality(FromTo(R, F, o))
             /\ Cardinality(FromTo(refs', Live' \cup {Root}, o)) \in Nat
             /\ rc[o] = Cardinality(FromTo(R, Live \cup {Root}, o))
                        + (IF o \in finalize_list THEN 1 ELSE 0)
                        + (IF o = curr THEN 1 ELSE 0)
  <2>1. F \subseteq Live /\ Live \subseteq Objs /\ Live' \subseteq Objs
    BY <1>1, LiveObjs DEF Releasable
  <2>2. rc[o] = Cardinality(FromTo(R, Live \cup {Root}, o))
                + (IF o \in finalize_list THEN 1 ELSE 0) + (IF o = curr THEN 1 ELSE 0)
    BY DEF Releasable, Exact
  <2>3. /\ Cardinality(FromTo(R, F, o)) \in Nat
        /\ Cardinality(FromTo(refs', Live' \cup {Root}, o))
             = Cardinality(FromTo(R, Live \cup {Root}, o)) - Cardinality(FromTo(R, F, o))
    <3> DEFINE all == FromTo(R, Live \cup {Root}, o)
               gone == FromTo(R, F, o)
    <3>1. FromTo(refs', Live' \cup {Root}, o) = all \ gone
      BY <1>1, <1>2, <2>1, RootAssumption DEF FromTo
    <3>2. gone \subseteq all
      BY <2>1 DEF FromTo
    <3>3. IsFiniteSet(all)
      BY <2>1, Referrers
    <3> HIDE DEF all, gone
    <3>4. Cardinality(gone) \in Nat /\ Cardinality(all \ gone) = Cardinality(all) - Cardinality(gone)
      BY <3>2, <3>3, Decrefs
    <3> QED
      BY <3>1, <3>4 DEF all, gone
  <2>5. /\ Cardinality(FromTo(R, Live \cup {Root}, o)) \in Nat
        /\ Cardinality(FromTo(refs', Live' \cup {Root}, o)) \in Nat
    BY <2>1, Referrers
  <2> QED
    BY <2>2, <2>3, <2>5
<1>6. ASSUME NEW o \in Objs
      PROVE  refcount'[o] = IF o \in F THEN 0
                            ELSE rc[o] - Cardinality(FromTo(R, F, o))
                                 + (IF o \in Q THEN 1 ELSE 0)
  BY DEF Release, Counts
<1>7. refcount' \in [Objs -> Nat]
  <2>1. ASSUME NEW o \in Objs
        PROVE  refcount'[o] \in Nat
    <3>1. CASE o \in Live
      BY <1>5, <1>6, <3>1
    <3>2. CASE o \notin Live
      <4>1. FromTo(R, F, o) = {}
        BY <1>2, <3>2 DEF FromTo, NoDangling
      <4>2. Cardinality(FromTo(R, F, o)) = 0
        BY <4>1, FS_EmptySet
      <4>3. rc[o] \in Nat
        BY DEF Releasable
      <4> QED
        BY <1>6, <4>2, <4>3
    <3> QED
      BY <3>1, <3>2
  <2> QED
    BY <2>1 DEF Release, Counts
<1>8. CountsExact'
  <2> SUFFICES ASSUME NEW o \in Live'
               PROVE  refcount'[o] = Cardinality(FromTo(refs', Live' \cup {Root}, o))
                                     + (IF o \in finalize_list' THEN 1 ELSE 0)
                                     + (IF o = curr' THEN 1 ELSE 0)
    BY DEF CountsExact
  <2>1. o \in Live /\ o \notin F /\ o \in Objs
    BY <1>1, LiveObjs
  <2>2. (o = curr') <=> (o = curr)
    BY <2>1, LiveObjs, RootAssumption
  <2>3. /\ o \in Q => o \notin finalize_list
        /\ o \in finalize_list' <=> o \in finalize_list \/ o \in Q
    BY <2>1 DEF Release, Releasable, TypeOK
  <2>4. refcount'[o] = rc[o] - Cardinality(FromTo(R, F, o)) + (IF o \in Q THEN 1 ELSE 0)
    BY <1>6, <2>1
  <2> DEFINE now == Cardinality(FromTo(refs', Live' \cup {Root}, o))
             all == Cardinality(FromTo(R, Live \cup {Root}, o))
             gone == Cardinality(FromTo(R, F, o))
  <2>5. /\ gone \in Nat /\ all \in Nat /\ now \in Nat /\ now = all - gone
        /\ rc[o] = all + (IF o \in finalize_list THEN 1 ELSE 0)
                   + (IF o = curr THEN 1 ELSE 0)
        /\ refcount'[o] = rc[o] - gone + (IF o \in Q THEN 1 ELSE 0)
    BY <1>5, <2>1, <2>4
  <2> HIDE DEF now, all, gone
  <2>6. refcount'[o] = now + (IF o \in finalize_list' THEN 1 ELSE 0)
                       + (IF o = curr' THEN 1 ELSE 0)
    BY <2>2, <2>3, <2>5
  <2> QED
    BY <2>6 DEF now
<1> QED
  BY <1>1, <1>2, <1>4, <1>7, <1>8

-----------------------------------------------------------------------------
(* The inductive invariant *)

IInv == TypeOK /\ CurrListed /\ ListDone /\ NoDangling /\ CountsExact

\* All counts are exact, in the form that the lemmas take.
LEMMA CountsAreExact ==
  IInv => /\ Exact(Live, finalize_list, curr, refs, refcount)
          /\ Releasable({}, {}, refs, refcount)
BY DEF IInv, TypeOK, CountsExact, Exact, Releasable

LEMMA InitInv == Init => IInv
<1> SUFFICES ASSUME Init PROVE IInv
  OBVIOUS
<1>1. Live = {} /\ refs = {} /\ curr = None /\ phase = "run" /\ pf = 0
  BY DEF Init, Live
<1>2. TypeOK
  BY <1>1 DEF Init, TypeOK, Phases
<1>3. CurrListed /\ ListDone /\ NoDangling /\ CountsExact
  BY <1>1 DEF CurrListed, ListDone, NoDangling, CountsExact
<1> QED
  BY <1>2, <1>3 DEF IInv

\* A step that changes neither objects nor references.
LEMMA ControlKeeps ==
  ASSUME IInv,
         UNCHANGED <<lists, graph, finalized, curr, had_zero, phase, history>>,
         pf' \in {0, 1}, curr # None \/ phase \in {"forced", "freed"} => pf' = 1,
         phase # "run" /\ pf' = 0 => finalize_list = {}
  PROVE  IInv'
<1> USE DEF IInv, lists, graph, history
<1>1. Live' = Live
  BY DEF Live
<1>2. TypeOK'
  BY <1>1 DEF TypeOK
<1>3. CurrListed' /\ ListDone' /\ NoDangling'
  BY <1>1 DEF CurrListed, ListDone, NoDangling
<1>4. CountsExact'
  BY <1>1 DEF CountsExact, FromTo
<1> QED
  BY <1>2, <1>3, <1>4

LEMMA NewObjectInv ==
  ASSUME IInv, NEW x \in Objs, NewObject(x)
  PROVE  IInv'
<1> USE DEF IInv
<1>1. x \in fresh /\ x \notin Live /\ Live' = Live \cup {x}
  BY DEF NewObject, TypeOK, Live
<1>2. TypeOK' /\ CurrListed' /\ ListDone'
  BY <1>1 DEF NewObject, TypeOK, CurrListed, ListDone, Live, control, history
<1>3. NoDangling'
  BY <1>1 DEF NewObject, NoDangling
<1>4. CountsExact'
  <2> SUFFICES ASSUME NEW o \in Live'
               PROVE  refcount'[o] = Cardinality(FromTo(refs', Live' \cup {Root}, o))
                                     + (IF o \in finalize_list THEN 1 ELSE 0)
                                     + (IF o = curr THEN 1 ELSE 0)
    BY DEF CountsExact, NewObject, control
  <2>1. CASE o = x
    <3>1. FromTo(refs', Live' \cup {Root}, o) = {Root}
      BY <1>1, <2>1, RootAssumption DEF NewObject, NoDangling, FromTo
    <3>2. o \notin finalize_list /\ o # curr
      BY <1>1, <2>1, RootAssumption DEF CurrListed, Live
    <3>3. refcount'[o] = 1
      BY <2>1 DEF NewObject, TypeOK
    <3> QED
      BY <3>1, <3>2, <3>3, FS_Singleton
  <2>2. CASE o # x
    <3>1. FromTo(refs', Live' \cup {Root}, o) = FromTo(refs, Live \cup {Root}, o)
      BY <1>1, <2>2, RootAssumption DEF NewObject, NoDangling, FromTo
    <3>2. refcount'[o] = refcount[o] /\ o \in Live
      BY <1>1, <2>2 DEF NewObject, TypeOK
    <3> QED
      BY <3>1, <3>2 DEF CountsExact
  <2> QED
    BY <2>1, <2>2
<1> QED
  BY <1>2, <1>3, <1>4

\* What is accessible is there.
LEMMA AccessibleLive ==
  IInv => Accessible \subseteq Live /\ Holders \subseteq Live \cup {Root}
<1> SUFFICES ASSUME IInv PROVE Accessible \subseteq Live
  BY DEF Holders
<1>1. Live \in SUBSET Objs
  BY LiveObjs DEF IInv
<1>2. Closed(Live)
  BY DEF Closed, IInv, NoDangling
<1>3. Roots \subseteq Live
  <2>1. curr \in Live \cup {None} /\ None \notin Objs
    BY RootAssumption DEF IInv, TypeOK
  <2>2. ASSUME NEW o \in Objs, <<Root, o>> \in refs
        PROVE  o \in Live
    BY <2>2 DEF IInv, NoDangling
  <2> QED
    BY <2>1, <2>2 DEF Roots
<1> QED
  BY <1>1, <1>2, <1>3 DEF Accessible, Marked

LEMMA StoreInv ==
  ASSUME IInv, NEW a, NEW b, Store(a, b)
  PROVE  IInv'
<1> USE DEF IInv
<1>1. a \in Live \cup {Root} /\ b \in Live /\ b \in Objs /\ Live \subseteq Objs
  BY AccessibleLive, LiveObjs DEF Store
<1>2. Live' = Live /\ finalize_list' = finalize_list /\ curr' = curr
  BY DEF Store, lists, control, Live
<1>3. TypeOK' /\ CurrListed' /\ ListDone'
  BY <1>1 DEF Store, TypeOK, CurrListed, ListDone, Live, lists, control
<1>4. NoDangling'
  BY <1>1, <1>2 DEF Store, NoDangling
<1>5. CountsExact'
  <2> SUFFICES ASSUME NEW o \in Live
               PROVE  refcount'[o] = Cardinality(FromTo(refs', Live \cup {Root}, o))
                                     + (IF o \in finalize_list THEN 1 ELSE 0)
                                     + (IF o = curr THEN 1 ELSE 0)
    BY <1>2 DEF CountsExact
  <2>1. /\ refs' = refs \cup {<<a, b>>} /\ <<a, b>> \notin refs
        /\ refcount' = [refcount EXCEPT ![b] = @ + 1]
    BY DEF Store
  <2>2. Cardinality(FromTo(refs \cup {<<a, b>>}, Live \cup {Root}, o))
          = Cardinality(FromTo(refs, Live \cup {Root}, o)) + (IF o = b THEN 1 ELSE 0)
    <3>1. PICK L, Q : L = Live /\ Q = refs
      OBVIOUS
    <3>2. L \subseteq Objs /\ a \in L \cup {Root} /\ b \in Objs /\ o \in Objs /\ <<a, b>> \notin Q
      BY <1>1, <2>1, <3>1
    <3>3. Cardinality(FromTo(Q \cup {<<a, b>>}, L \cup {Root}, o))
            = Cardinality(FromTo(Q, L \cup {Root}, o)) + (IF o = b THEN 1 ELSE 0)
      BY <3>2, OneLess
    <3> QED
      BY <3>1, <3>3
  <2>3. refcount'[o] = refcount[o] + (IF o = b THEN 1 ELSE 0)
    BY <1>1, <2>1 DEF TypeOK
  <2>4. Cardinality(FromTo(refs, Live \cup {Root}, o)) \in Nat
    BY <1>1, Referrers
  <2>5. refcount[o] = Cardinality(FromTo(refs, Live \cup {Root}, o))
                      + (IF o \in finalize_list THEN 1 ELSE 0)
                      + (IF o = curr THEN 1 ELSE 0)
    BY DEF CountsExact
  <2> DEFINE was == Cardinality(FromTo(refs, Live \cup {Root}, o))
             is == Cardinality(FromTo(refs', Live \cup {Root}, o))
  <2>6. is = was + (IF o = b THEN 1 ELSE 0) /\ was \in Nat
    BY <2>1, <2>2, <2>4
  <2> HIDE DEF was, is
  <2>7. refcount'[o] = is + (IF o \in finalize_list THEN 1 ELSE 0)
                       + (IF o = curr THEN 1 ELSE 0)
    BY <2>3, <2>5, <2>6 DEF was
  <2> QED
    BY <2>7 DEF is
<1> QED
  BY <1>3, <1>4, <1>5

\* An object that nothing counts is neither listed nor being finalized, and
\* nothing refers to it.
LEMMA Uncounted ==
  ASSUME IInv, NEW R, R \subseteq refs, NEW b \in Live,
         0 = Cardinality(FromTo(R, Live \cup {Root}, b))
             + (IF b \in finalize_list THEN 1 ELSE 0) + (IF b = curr THEN 1 ELSE 0)
  PROVE  /\ b \in heap_allocated /\ b # curr
         /\ \A e \in R : e[2] # b
<1>1. IsFiniteSet(FromTo(R, Live \cup {Root}, b)) /\ Cardinality(FromTo(R, Live \cup {Root}, b)) \in Nat
  BY Referrers, LiveObjs DEF IInv
<1>2. b \notin finalize_list /\ b # curr /\ Cardinality(FromTo(R, Live \cup {Root}, b)) = 0
  BY <1>1
<1>3. FromTo(R, Live \cup {Root}, b) = {}
  BY <1>1, <1>2, FS_EmptySet
<1>4. ASSUME NEW e \in R, e[2] = b
      PROVE  FALSE
  <2>1. e = <<e[1], b>> /\ e[1] \in Live \cup {Root}
    BY <1>4 DEF IInv, TypeOK, NoDangling
  <2> QED
    BY <1>3, <2>1 DEF FromTo
<1> QED
  BY <1>2, <1>4 DEF Live

\* What releasing leaves of the invariant, for steps that set finalized to a
\* part of what it was, for objects still there.
LEMMA ReleaseInv ==
  ASSUME IInv, NEW F, NEW Q, NEW R, NEW rc, Releasable(F, Q, R, rc), Release(F, Q, R, rc),
         Q \subseteq HasFinalizer,
         (curr \in F /\ curr' = None) \/ (curr \notin F /\ curr \notin Q /\ curr' = curr),
         finalized' \subseteq finalized \cap Live',
         pf' \in {0, 1}, curr' # None => pf' = 1,
         had_zero' \in BOOLEAN, phase' \in Phases \ {"freed"},
         curr' # None => phase' = phase,
         phase # "freed",
         ListDone',
         UNCHANGED <<fresh, history>>
  PROVE  IInv'
<1> USE DEF IInv
<1>1. /\ Live' = Live \ F /\ Live' \subseteq Live
      /\ refs' \subseteq R
      /\ refcount' \in [Objs -> Nat]
      /\ NoDangling' /\ CountsExact'
  BY ReleaseKeeps
<1>2. curr' \in Live' \cup {None}
  BY <1>1 DEF TypeOK
<1>3. TypeOK'
  <2>1. refs' \subseteq (Objs \cup {Root}) \X Objs
    BY <1>1 DEF TypeOK, Releasable
  <2>2. /\ heap_allocated' \subseteq Objs /\ finalize_list' \subseteq HasFinalizer
        /\ heap_allocated' \cap finalize_list' = {}
    BY DEF TypeOK, Release, Releasable
  <2>3. fresh' \subseteq Objs /\ fresh' \cap Live' = {}
    BY <1>1 DEF TypeOK
  <2>4. finalized' \subseteq Live' \cap HasFinalizer
    BY DEF TypeOK
  <2>5. ran' \subseteq HasFinalizer /\ stored' \in BOOLEAN /\ twice' \in BOOLEAN
    BY DEF TypeOK, history
  <2> QED
    BY <1>1, <1>2, <2>1, <2>2, <2>3, <2>4, <2>5 DEF TypeOK
<1>4. CurrListed'
  <2> SUFFICES ASSUME curr' # None
               PROVE  curr' \in (IF phase' = "forced" THEN heap_allocated' ELSE finalize_list')
    BY DEF CurrListed
  <2>1. curr' = curr /\ curr \notin F /\ curr \notin Q /\ phase' = phase
    OBVIOUS
  <2>2. curr \in (IF phase = "forced" THEN heap_allocated ELSE finalize_list)
    BY <2>1 DEF CurrListed
  <2> QED
    BY <2>1, <2>2 DEF Release
<1> QED
  BY <1>1, <1>3, <1>4

\* The counts that a decref of b leaves are exact for what is left.
Decref(b) == [refcount EXCEPT ![b] = @ - 1]

LEMMA DecrefExact ==
  ASSUME IInv, NEW a, NEW b, <<a, b>> \in refs
  PROVE  /\ a \in Live \cup {Root} /\ b \in Live /\ b \in Objs
         /\ Exact(Live, finalize_list, curr, refs \ {<<a, b>>}, Decref(b))
         /\ Decref(b) \in [Objs -> Nat]
<1> USE DEF IInv
<1> DEFINE R == refs \ {<<a, b>>}
           rc == Decref(b)
<1>1. a \in Live \cup {Root} /\ b \in Live /\ b \in Objs /\ Live \subseteq Objs
  BY LiveObjs DEF NoDangling
<1>2. ASSUME NEW o \in Live
      PROVE  /\ rc[o] = Cardinality(FromTo(R, Live \cup {Root}, o))
                        + (IF o \in finalize_list THEN 1 ELSE 0)
                        + (IF o = curr THEN 1 ELSE 0)
             /\ rc[o] \in Nat
  <2> DEFINE was == Cardinality(FromTo(refs, Live \cup {Root}, o))
             is == Cardinality(FromTo(R, Live \cup {Root}, o))
  <2>1. is = was - (IF o = b THEN 1 ELSE 0)
    <3>1. PICK L, Q : L = Live /\ Q = refs
      OBVIOUS
    <3>2. L \subseteq Objs /\ a \in L \cup {Root} /\ b \in Objs /\ o \in Objs /\ <<a, b>> \in Q
      BY <1>1, <3>1
    <3>3. Cardinality(FromTo(Q \ {<<a, b>>}, L \cup {Root}, o))
            = Cardinality(FromTo(Q, L \cup {Root}, o)) - (IF o = b THEN 1 ELSE 0)
      BY <3>2, OneLess
    <3> QED
      BY <3>1, <3>3
  <2>2. was \in Nat /\ is \in Nat
    BY <1>1, Referrers
  <2>3. refcount[o] = was + (IF o \in finalize_list THEN 1 ELSE 0)
                      + (IF o = curr THEN 1 ELSE 0)
    BY DEF CountsExact
  <2>4. rc[o] = refcount[o] - (IF o = b THEN 1 ELSE 0)
    BY <1>1 DEF TypeOK, Decref
  <2> HIDE DEF was, is, rc
  <2>5. /\ rc[o] = is + (IF o \in finalize_list THEN 1 ELSE 0)
                   + (IF o = curr THEN 1 ELSE 0)
        /\ rc[o] \in Nat
    BY <2>1, <2>2, <2>3, <2>4
  <2> QED
    BY <2>5 DEF is
<1>3. rc \in [Objs -> Nat]
  BY <1>1, <1>2 DEF TypeOK, Decref
<1> QED
  BY <1>1, <1>2, <1>3 DEF Exact

LEMMA DeleteReleases ==
  ASSUME IInv, NEW a, NEW b, NEW norz \in BOOLEAN, Delete(a, b, norz)
  PROVE  \/ refs' = refs \ {<<a, b>>} /\ refcount' = Decref(b) /\ UNCHANGED <<lists, pf>>
         \/ /\ phase # "forced"
            /\ UNCHANGED fresh /\ ProcessIf(~norz)
            /\ \E F, Q : /\ Releasable(F, Q, refs \ {<<a, b>>}, Decref(b))
                         /\ Release(F, Q, refs \ {<<a, b>>}, Decref(b))
                         /\ Dropped({b}, F, Q, refs \ {<<a, b>>})
                         /\ b \in F => ~NeedsFinalizer(b)
                         /\ curr \notin F \cup Q
<1> USE DEF IInv
<1> DEFINE R == refs \ {<<a, b>>}
           rc == Decref(b)
<1>1. /\ a \in Live \cup {Root} /\ b \in Live /\ b \in Objs
      /\ Exact(Live, finalize_list, curr, R, rc) /\ rc \in [Objs -> Nat]
  BY DecrefExact DEF Delete
<1>2. CASE rc[b] # 0 \/ phase = "forced"
  BY <1>2 DEF Delete, Decref
<1>3. CASE rc[b] = 0 /\ phase # "forced"
  <2>1. /\ IF NeedsFinalizer(b) THEN Release({}, {b}, R, rc) ELSE ReleaseAll({b}, R, rc)
        /\ ProcessIf(~norz) /\ UNCHANGED fresh
    BY <1>3 DEF Delete, Decref
  <2>2. /\ b \in heap_allocated /\ b # curr
        /\ \A e \in R : e[2] # b
    <3>1. 0 = Cardinality(FromTo(R, Live \cup {Root}, b))
              + (IF b \in finalize_list THEN 1 ELSE 0) + (IF b = curr THEN 1 ELSE 0)
      BY <1>1, <1>3 DEF Exact
    <3> QED
      BY <1>1, <3>1, Uncounted
  <2>3. Releasable({}, {b}, R, rc) /\ Releasable({b}, {}, R, rc)
    BY <1>1, <2>2 DEF Releasable
  <2>4. CASE NeedsFinalizer(b)
    <3>1. Release({}, {b}, R, rc) /\ Dropped({b}, {}, {b}, R) /\ curr \notin {} \cup {b}
      BY <2>1, <2>2, <2>4 DEF Dropped
    <3> HIDE DEF R, rc
    <3> QED
      BY <1>3, <2>1, <2>3, <3>1 DEF R, rc
  <2>5. CASE ~NeedsFinalizer(b)
    <3> DEFINE F == Freed({b}, R, rc)
               Q == Queued({b}, R, rc)
    <3>1. Release(F, Q, R, rc)
      BY <2>1, <2>5 DEF ReleaseAll, Freed, Queued
    <3>2. Releasable(F, Q, R, rc) /\ curr \notin F \cup Q /\ Dropped({b}, F, Q, R)
      BY <2>2, <2>3, CascadeIsClosed
    <3> HIDE DEF F, Q, R, rc
    <3> QED
      BY <1>3, <2>1, <2>5, <3>1, <3>2 DEF R, rc
  <2> QED
    BY <2>4, <2>5
<1> QED
  BY <1>2, <1>3

LEMMA DeleteInv ==
  ASSUME IInv, NEW a, NEW b, NEW norz \in BOOLEAN, Delete(a, b, norz)
  PROVE  IInv'
<1> USE DEF IInv
<1> DEFINE R == refs \ {<<a, b>>}
           rc == Decref(b)
<1>1. /\ Exact(Live, finalize_list, curr, R, rc) /\ rc \in [Objs -> Nat]
      /\ UNCHANGED <<curr, had_zero, phase, history>> /\ finalized' = finalized \cap Live'
  BY DecrefExact DEF Delete, FlagsGo, Live
<1>2. CASE refs' = R /\ refcount' = rc /\ UNCHANGED <<lists, pf>>
  <2>1. Live' = Live /\ finalized' \subseteq finalized
    BY <1>1, <1>2 DEF lists, Live
  <2>2. TypeOK' /\ CurrListed' /\ ListDone' /\ NoDangling'
    BY <1>1, <1>2, <2>1 DEF TypeOK, CurrListed, ListDone, NoDangling, lists, history
  <2>3. CountsExact'
    BY <1>1, <1>2, <2>1 DEF Exact, CountsExact, lists
  <2> QED
    BY <2>2, <2>3
<1>3. ASSUME phase # "forced", ProcessIf(~norz), UNCHANGED fresh,
             NEW F, NEW Q, Releasable(F, Q, R, rc), Release(F, Q, R, rc),
             Dropped({b}, F, Q, R), curr \notin F \cup Q
      PROVE  IInv'
  <2>1. phase # "freed" /\ phase' \in Phases \ {"freed"}
    BY <1>1 DEF Delete, Running, CurrListed, TypeOK
  <2>2. pf' \in {0, 1} /\ (curr' # None => pf' = 1) /\ had_zero' \in BOOLEAN
    BY <1>1, <1>3 DEF ProcessIf, TypeOK, CurrListed
  <2>3. ListDone'
    BY <1>1, <1>3 DEF Delete, Running, ListDone, ProcessIf, CurrListed
  <2>4. Q \subseteq HasFinalizer
    BY <1>3 DEF Dropped, NeedsFinalizer
  <2> HIDE DEF R, rc
  <2> QED
    BY <1>1, <1>3, <2>1, <2>2, <2>3, <2>4, ReleaseInv
<1> QED
  BY <1>2, <1>3, DeleteReleases

-----------------------------------------------------------------------------
(* Mark-and-sweep *)

\* Whatever marking starts from, what it reaches is closed.
LEMMA MarkedIsClosed ==
  ASSUME TypeOK, NEW S, S \subseteq Objs
  PROVE  S \subseteq Marked(S) /\ Marked(S) \subseteq Objs /\ Closed(Marked(S))
<1>1. S \subseteq Marked(S) /\ Marked(S) \subseteq Objs
  BY DEF Marked
<1>2. ASSUME NEW e \in refs, e[1] \in Marked(S)
      PROVE  e[2] \in Marked(S)
  <2>1. e[2] \in Objs
    BY DEF TypeOK
  <2> QED
    BY <1>2, <2>1 DEF Marked, Closed
<1> QED
  BY <1>1, <1>2 DEF Closed

\* What is swept is referred to only by what is swept.
LEMMA SweepIsClosed ==
  ASSUME IInv
  PROVE  /\ Releasable(heap_allocated \ Reachable, Finalizable, refs, refcount)
         /\ Releasable(heap_allocated \ Reachable, {}, refs, refcount)
         /\ Finalizable \subseteq HasFinalizer
         /\ curr \notin heap_allocated \ Reachable /\ curr \notin Finalizable
<1> USE DEF IInv
<1> DEFINE S == Roots \cup Finalizable \cup finalize_list
           Dead == heap_allocated \ Reachable
<1>1. S \subseteq Objs
  BY LiveObjs, ObjsAssumption DEF Roots, Finalizable, TypeOK
<1>2. S \subseteq Reachable /\ Closed(Reachable)
  BY <1>1, MarkedIsClosed DEF Reachable
<1>3. Dead \subseteq Live /\ Finalizable \subseteq heap_allocated \ Dead
  BY <1>2 DEF Live, Finalizable
<1>4. ASSUME NEW e \in refs, e[2] \in Dead
      PROVE  e[1] \in Dead
  <2>1. e[1] \in Live \cup {Root} /\ e[2] \in Objs /\ e = <<e[1], e[2]>>
    BY DEF NoDangling, TypeOK
  <2>2. e[1] # Root
    BY <1>2, <1>4, <2>1 DEF Roots
  <2>3. e[1] \notin Reachable
    BY <1>2, <1>4 DEF Closed
  <2> QED
    BY <1>2, <2>1, <2>2, <2>3 DEF Live
<1>5. Finalizable \subseteq HasFinalizer
  BY DEF Finalizable, NeedsFinalizer
<1>6. curr \in Objs => curr \in Roots /\ curr \in Accessible
  <2>1. Roots \subseteq Objs
    BY DEF Roots
  <2> QED
    BY <2>1, MarkedIsClosed DEF Roots, Accessible
<1>7. curr \notin Dead /\ curr \notin Finalizable
  BY <1>2, <1>6 DEF Finalizable, TypeOK
<1> QED
  BY <1>3, <1>4, <1>5, <1>7, CountsAreExact DEF Releasable

\* A flag that the sweep keeps belongs to an object that stays.
LEMMA FlagsStay ==
  ASSUME IInv, NEW Q, Release(heap_allocated \ Reachable, Q, refs, refcount),
         Q \subseteq heap_allocated \cap Reachable
  PROVE  StillFinalized \subseteq finalized \cap Live'
<1>1. finalized \subseteq Live /\ heap_allocated \cap finalize_list = {}
  BY DEF IInv, TypeOK
<1>2. Live' = Live \ (heap_allocated \ Reachable)
  BY <1>1, CountsAreExact DEF Release, Live, Releasable
<1>3. StillFinalized \subseteq finalized \cap (Reachable \cup finalize_list)
  BY DEF StillFinalized
<1> QED
  BY <1>1, <1>2, <1>3

LEMMA CollectInv ==
  ASSUME IInv, NEW prevented \in BOOLEAN, Collect(prevented)
  PROVE  IInv'
<1> USE DEF IInv
<1>1. /\ Release(heap_allocated \ Reachable, Finalizable, refs, refcount)
      /\ finalized' = StillFinalized
      /\ UNCHANGED <<fresh, curr, had_zero, phase, history>>
      /\ ProcessIf(~prevented)
  BY DEF Collect, MarkAndSweep
<1>2. finalized' \subseteq finalized \cap Live'
  BY <1>1, SweepIsClosed, FlagsStay DEF Releasable
<1>3. pf' \in {0, 1} /\ (curr' # None => pf' = 1) /\ had_zero' \in BOOLEAN
  BY <1>1 DEF ProcessIf, TypeOK, CurrListed
<1>4. phase # "freed" /\ phase' \in Phases \ {"freed"}
  BY <1>1 DEF Collect, Running, CurrListed, TypeOK
<1>5. ListDone'
  BY <1>1 DEF Collect, Running, ListDone, ProcessIf, CurrListed
<1> QED
  BY <1>1, <1>2, <1>3, <1>4, <1>5, SweepIsClosed, ReleaseInv

LEMMA FreeHeapInv == IInv /\ FreeHeap => IInv'
<1> SUFFICES ASSUME IInv, FreeHeap PROVE IInv'
  OBVIOUS
<1> USE DEF IInv
<1>1. /\ Release(heap_allocated \ Reachable, Finalizable, refs, refcount)
      /\ finalized' = StillFinalized
      /\ curr = None
      /\ UNCHANGED <<fresh, curr, had_zero, history>>
      /\ ProcessIf(TRUE)
      /\ pf = 0 /\ phase \in {"run", "gc1"} /\ phase' \in {"gc1", "gc2"}
  BY DEF FreeHeap, MarkAndSweep
<1>2. finalized' \subseteq finalized \cap Live'
  BY <1>1, SweepIsClosed, FlagsStay DEF Releasable
<1>3. pf' \in {0, 1} /\ curr' = None /\ had_zero' \in BOOLEAN
  BY <1>1 DEF ProcessIf, TypeOK
<1>4. phase # "freed" /\ phase' \in Phases \ {"freed"}
  BY <1>1 DEF Phases
<1>5. ListDone'
  BY <1>1 DEF ListDone, ProcessIf
<1> QED
  BY <1>1, <1>2, <1>3, <1>4, <1>5, SweepIsClosed, ReleaseInv

LEMMA SkipFinalizersInv == IInv /\ SkipFinalizers => IInv'
<1> SUFFICES ASSUME IInv, SkipFinalizers PROVE IInv'
  OBVIOUS
<1> USE DEF IInv
<1>1. /\ Release(heap_allocated \ Reachable, {}, refs, refcount)
      /\ finalized' = StillFinalized
      /\ curr = None
      /\ UNCHANGED <<fresh, curr, had_zero, history>>
      /\ pf = 0 /\ pf' = 1 /\ phase = "gc2" /\ phase' = "forced"
  BY DEF SkipFinalizers
<1>2. finalized' \subseteq finalized \cap Live'
  BY <1>1, FlagsStay
<1>3. curr' = None /\ had_zero' \in BOOLEAN
  BY <1>1 DEF TypeOK
<1>4. phase # "freed" /\ phase' \in Phases \ {"freed"}
  BY <1>1 DEF Phases
<1>5. ListDone'
  BY <1>1 DEF ListDone, Release
<1> QED
  BY <1>1, <1>2, <1>3, <1>4, <1>5, SweepIsClosed, ReleaseInv

-----------------------------------------------------------------------------
(* Finalizers *)

\* The value stack's reference comes and goes with the finalizer of c.
LEMMA PushPop ==
  ASSUME IInv, NEW o \in Live
  PROVE  /\ Cardinality(FromTo(refs, Live \cup {Root}, o)) \in Nat
         /\ refcount[o] \in Nat
         /\ refcount[o] = Cardinality(FromTo(refs, Live \cup {Root}, o))
                          + (IF o \in finalize_list THEN 1 ELSE 0)
                          + (IF o = curr THEN 1 ELSE 0)
BY Referrers, LiveObjs DEF IInv, TypeOK, CountsExact

LEMMA StartInv ==
  ASSUME IInv, NEW o \in Objs, RunFinalizer(o) \/ ForceFinalizer(o)
  PROVE  IInv'
<1> USE DEF IInv
<1>1. /\ o \in Live /\ o \in HasFinalizer /\ curr = None /\ curr' = o
      /\ finalized' = finalized \cup {o} /\ ran' = ran \cup {o}
      /\ refcount' = [refcount EXCEPT ![o] = @ + 1]
      /\ twice' = (twice \/ (o \in ran /\ ~stored))
      /\ UNCHANGED <<lists, refs, pf, phase, stored>>
      /\ had_zero' \in BOOLEAN
  BY DEF RunFinalizer, ForceFinalizer, Flag, RecordRun, NeedsFinalizer, TypeOK, Live
<1>2. Live' = Live /\ finalize_list' = finalize_list
  BY <1>1 DEF lists, Live
<1>3. TypeOK'
  <2>1. refcount' \in [Objs -> Nat]
    BY <1>1 DEF TypeOK
  <2> QED
    BY <1>1, <1>2, <2>1 DEF TypeOK, lists
<1>4. CurrListed' /\ ListDone' /\ NoDangling'
  <2>1. CASE RunFinalizer(o)
    BY <1>1, <1>2, <2>1 DEF RunFinalizer, CurrListed, ListDone, NoDangling, lists
  <2>2. CASE ForceFinalizer(o)
    BY <1>1, <1>2, <2>2 DEF ForceFinalizer, CurrListed, ListDone, NoDangling, lists
  <2> QED
    BY <2>1, <2>2
<1>5. CountsExact'
  <2> SUFFICES ASSUME NEW x \in Live
               PROVE  refcount'[x] = Cardinality(FromTo(refs, Live \cup {Root}, x))
                                     + (IF x \in finalize_list THEN 1 ELSE 0)
                                     + (IF x = o THEN 1 ELSE 0)
    BY <1>1, <1>2 DEF CountsExact
  <2>1. x \in Objs /\ x # curr
    BY <1>1, LiveObjs, RootAssumption
  <2>2. refcount'[x] = refcount[x] + (IF x = o THEN 1 ELSE 0)
    BY <1>1, <2>1 DEF TypeOK
  <2> DEFINE n == Cardinality(FromTo(refs, Live \cup {Root}, x))
  <2>5. n \in Nat /\ refcount[x] = n + (IF x \in finalize_list THEN 1 ELSE 0)
                                   + (IF x = curr THEN 1 ELSE 0)
    BY PushPop
  <2> HIDE DEF n
  <2>3. n \in Nat /\ refcount[x] = n + (IF x \in finalize_list THEN 1 ELSE 0)
    BY <2>1, <2>5
  <2>4. refcount'[x] = n + (IF x \in finalize_list THEN 1 ELSE 0) + (IF x = o THEN 1 ELSE 0)
    BY <2>2, <2>3
  <2> QED
    BY <2>4 DEF n
<1> QED
  BY <1>3, <1>4, <1>5

\* A finalizer's object that only the bump still counts goes like an object
\* whose count has dropped to zero.
LEMMA FreesReleases ==
  ASSUME IInv, FinalizerFrees
  PROVE  \E F, Q : /\ Releasable(F, Q, refs, refcount) /\ Release(F, Q, refs, refcount)
                   /\ curr \in F /\ Dropped({curr}, F, Q, refs)
<1> USE DEF IInv
<1> DEFINE F == Freed({curr}, refs, refcount)
           Q == Queued({curr}, refs, refcount)
<1>1. /\ curr # None /\ curr \in finalize_list /\ curr \in Live /\ refcount[curr] = 2
      /\ Release(F, Q, refs, refcount)
  BY DEF FinalizerFrees, ReleaseAll, CurrListed, Live, TypeOK, Freed, Queued
<1>2. \A e \in refs : e[2] # curr
  <2> DEFINE n == Cardinality(FromTo(refs, Live \cup {Root}, curr))
  <2>0. n \in Nat /\ refcount[curr] = n + (IF curr \in finalize_list THEN 1 ELSE 0)
                                      + (IF curr = curr THEN 1 ELSE 0)
    BY <1>1, PushPop
  <2> HIDE DEF n
  <2>6. n = 0
    BY <1>1, <2>0
  <2>1. Cardinality(FromTo(refs, Live \cup {Root}, curr)) = 0
    BY <2>6 DEF n
  <2>2. FromTo(refs, Live \cup {Root}, curr) = {}
    BY <1>1, <2>1, Referrers, LiveObjs, FS_EmptySet
  <2>3. ASSUME NEW e \in refs, e[2] = curr
        PROVE  FALSE
    <3>1. e = <<e[1], curr>> /\ e[1] \in Live \cup {Root}
      BY <2>3 DEF TypeOK, NoDangling
    <3> QED
      BY <2>2, <3>1 DEF FromTo
  <2> QED
    BY <2>3
<1>3. Releasable({curr}, {}, refs, refcount)
  BY <1>1, <1>2, CountsAreExact DEF Releasable
<1>4. Releasable(F, Q, refs, refcount) /\ curr \in F /\ Dropped({curr}, F, Q, refs)
  BY <1>3, CascadeIsClosed
<1> HIDE DEF F, Q
<1> QED
  BY <1>1, <1>4

LEMMA FinalizerFreesInv == IInv /\ FinalizerFrees => IInv'
<1> SUFFICES ASSUME IInv, FinalizerFrees PROVE IInv'
  OBVIOUS
<1> USE DEF IInv
<1>1. /\ phase \notin {"forced", "freed"} /\ pf = 1
      /\ finalized' = finalized \cap Live'
      /\ curr' = None /\ had_zero' = FALSE /\ UNCHANGED <<fresh, pf, phase, history>>
  BY DEF FinalizerFrees, FlagsGo, CurrListed, Live
<1>2. PICK F, Q : /\ Releasable(F, Q, refs, refcount) /\ Release(F, Q, refs, refcount)
                  /\ curr \in F /\ Dropped({curr}, F, Q, refs)
  BY FreesReleases
<1>3. Q \subseteq HasFinalizer
  BY <1>2 DEF Dropped, NeedsFinalizer
<1>4. ListDone'
  BY <1>1 DEF ListDone
<1>5. phase' \in Phases \ {"freed"} /\ pf' \in {0, 1}
  BY <1>1 DEF TypeOK
<1> QED
  BY <1>1, <1>2, <1>3, <1>4, <1>5, ReleaseInv

LEMMA FinalizerRequeuesInv == IInv /\ FinalizerRequeues => IInv'
<1> SUFFICES ASSUME IInv, FinalizerRequeues PROVE IInv'
  OBVIOUS
<1> USE DEF IInv
<1>1. /\ phase \notin {"forced", "freed"} /\ curr # None /\ pf = 1
      /\ curr \in finalize_list /\ curr \in Live /\ curr \in Objs
      /\ curr' = None /\ had_zero' = FALSE
      /\ refcount' = [refcount EXCEPT ![curr] = @ - 2]
      /\ finalize_list' = finalize_list \ {curr}
      /\ heap_allocated' = heap_allocated \cup {curr}
      /\ finalized' \subseteq finalized
      /\ UNCHANGED <<fresh, refs, pf, phase, history>>
  BY LiveObjs DEF FinalizerRequeues, Requeued, CurrListed, Live
<1>2. Live' = Live
  BY <1>1 DEF Live
<1>3. refcount[curr] - 2 \in Nat
  BY <1>1, PushPop
<1>4. TypeOK'
  <2>1. refcount' \in [Objs -> Nat]
    BY <1>1, <1>3 DEF TypeOK
  <2> QED
    BY <1>1, <1>2, <2>1 DEF TypeOK, history
<1>5. CurrListed' /\ ListDone' /\ NoDangling'
  BY <1>1, <1>2 DEF CurrListed, ListDone, NoDangling
<1>6. CountsExact'
  <2> SUFFICES ASSUME NEW x \in Live
               PROVE  refcount'[x] = Cardinality(FromTo(refs, Live \cup {Root}, x))
                                     + (IF x \in finalize_list' THEN 1 ELSE 0)
                                     + (IF x = curr' THEN 1 ELSE 0)
    BY <1>1, <1>2 DEF CountsExact
  <2>0. x # curr'
    BY <1>1, LiveObjs, RootAssumption
  <2>1. refcount'[x] = refcount[x] - (IF x = curr THEN 2 ELSE 0)
    BY <1>1, PushPop, LiveObjs DEF TypeOK
  <2> DEFINE n == Cardinality(FromTo(refs, Live \cup {Root}, x))
  <2>2. n \in Nat /\ refcount[x] = n + (IF x \in finalize_list THEN 1 ELSE 0)
                                   + (IF x = curr THEN 1 ELSE 0)
    BY PushPop
  <2> HIDE DEF n
  <2>3. refcount'[x] = n + (IF x \in finalize_list' THEN 1 ELSE 0)
                       + (IF x = curr' THEN 1 ELSE 0)
    BY <1>1, <2>0, <2>1, <2>2
  <2> QED
    BY <2>3 DEF n
<1> QED
  BY <1>4, <1>5, <1>6

LEMMA ForcedReturnsInv == IInv /\ ForcedReturns => IInv'
<1> SUFFICES ASSUME IInv, ForcedReturns PROVE IInv'
  OBVIOUS
<1> USE DEF IInv
<1>1. /\ phase = "forced" /\ curr \in Live /\ curr \in Objs /\ curr' = None
      /\ refcount' = [refcount EXCEPT ![curr] = @ - 1]
      /\ UNCHANGED <<lists, refs, finalized, pf, had_zero, phase, history>>
  BY LiveObjs DEF ForcedReturns, TypeOK
<1>2. Live' = Live /\ finalize_list' = finalize_list
  BY <1>1 DEF lists, Live
<1>3. refcount[curr] - 1 \in Nat
  BY <1>1, PushPop
<1>4. TypeOK'
  <2>1. refcount' \in [Objs -> Nat]
    BY <1>1, <1>3 DEF TypeOK
  <2> QED
    BY <1>1, <1>2, <2>1 DEF TypeOK, lists, history
<1>5. CurrListed' /\ ListDone' /\ NoDangling'
  BY <1>1, <1>2 DEF CurrListed, ListDone, NoDangling
<1>6. CountsExact'
  <2> SUFFICES ASSUME NEW x \in Live
               PROVE  refcount'[x] = Cardinality(FromTo(refs, Live \cup {Root}, x))
                                     + (IF x \in finalize_list THEN 1 ELSE 0)
                                     + (IF x = curr' THEN 1 ELSE 0)
    BY <1>1, <1>2 DEF CountsExact
  <2>0. x # curr'
    BY <1>1, LiveObjs, RootAssumption
  <2>1. refcount'[x] = refcount[x] - (IF x = curr THEN 1 ELSE 0)
    BY <1>1, PushPop, LiveObjs DEF TypeOK
  <2> DEFINE n == Cardinality(FromTo(refs, Live \cup {Root}, x))
  <2>2. n \in Nat /\ refcount[x] = n + (IF x \in finalize_list THEN 1 ELSE 0)
                                   + (IF x = curr THEN 1 ELSE 0)
    BY PushPop
  <2> HIDE DEF n
  <2>3. refcount'[x] = n + (IF x \in finalize_list THEN 1 ELSE 0)
                       + (IF x = curr' THEN 1 ELSE 0)
    BY <2>0, <2>1, <2>2
  <2> QED
    BY <2>3 DEF n
<1> QED
  BY <1>4, <1>5, <1>6

LEMMA FreeAllocatedInv == IInv /\ FreeAllocated => IInv'
<1> SUFFICES ASSUME IInv, FreeAllocated PROVE IInv'
  OBVIOUS
<1> USE DEF IInv
<1>1. Live' = {} /\ refs' = {} /\ curr' = None /\ finalize_list' = {} /\ heap_allocated' = {}
  BY DEF FreeAllocated, ListDone, Live
<1>2. TypeOK'
  BY <1>1 DEF FreeAllocated, TypeOK, Phases, history
<1>3. CurrListed' /\ ListDone' /\ NoDangling' /\ CountsExact'
  BY <1>1 DEF FreeAllocated, CurrListed, ListDone, NoDangling, CountsExact
<1> QED
  BY <1>2, <1>3

LEMMA NextInv == IInv /\ [Next]_vars => IInv'
<1> SUFFICES ASSUME IInv, [Next]_vars PROVE IInv'
  OBVIOUS
<1>1. ASSUME NEW o \in Objs, NewObject(o)
      PROVE  IInv'
  BY <1>1, NewObjectInv
<1>2. ASSUME NEW o \in Objs, RunFinalizer(o) \/ ForceFinalizer(o)
      PROVE  IInv'
  BY <1>2, StartInv
<1>3. ASSUME NEW a, NEW b, Store(a, b)
      PROVE  IInv'
  BY <1>3, StoreInv
<1>4. ASSUME NEW a, NEW b, NEW norz \in BOOLEAN, Delete(a, b, norz)
      PROVE  IInv'
  BY <1>4, DeleteInv
<1>5. ASSUME NEW prevented \in BOOLEAN, Collect(prevented)
      PROVE  IInv'
  BY <1>5, CollectInv
<1>6. CASE RefzeroCheck
  BY <1>6, ControlKeeps DEF RefzeroCheck, Running, IInv
<1>7. CASE ListEmpty
  BY <1>7, ControlKeeps DEF ListEmpty, IInv, ListDone
<1>8. CASE UNCHANGED vars
  <2>1. /\ UNCHANGED <<lists, graph, finalized, curr, had_zero, phase, history>>
        /\ pf' = pf
    BY <1>8 DEF vars, lists, graph, history
  <2> QED
    BY <2>1, ControlKeeps DEF IInv, TypeOK, CurrListed, ListDone
<1> QED
  BY <1>1, <1>2, <1>3, <1>4, <1>5, <1>6, <1>7, <1>8, FinalizerFreesInv,
     FinalizerRequeuesInv, FreeHeapInv, SkipFinalizersInv, ForcedReturnsInv,
     FreeAllocatedInv DEF Next

\* IInv is invariant.
THEOREM Invariant == Spec => []IInv
BY InitInv, NextInv, PTL DEF Spec

\* Every reference count is exact at all times: what decrefs free is what
\* nothing refers to, and what keeps a count is kept by something.
THEOREM RefcountsExact == Spec => []CountsExact
<1>1. IInv => CountsExact
  BY DEF IInv
<1> QED
  BY <1>1, Invariant, PTL

\* Neither reference counting, nor mark-and-sweep with its second roots, nor
\* the processing of finalizers frees an object that something still refers to.
THEOREM MemorySafe == Spec => []NoDangling
<1>1. IInv => NoDangling
  BY DEF IInv
<1> QED
  BY <1>1, Invariant, PTL

\* The variables keep their types; in particular an object is on one list.
THEOREM TypeCorrect == Spec => []TypeOK
<1>1. IInv => TypeOK
  BY DEF IInv
<1> QED
  BY <1>1, Invariant, PTL

-----------------------------------------------------------------------------
(* What a finalizer may rely on *)

\* What the program, or an object whose finalizer is still to come, reaches.
Rooted == {o \in Objs : <<Root, o>> \in refs}
Starts == Rooted \cup {o \in heap_allocated : NeedsFinalizer(o)}
Kept == Marked(Starts)

\* The objects that wait for their finalizer or have had it.
Behind == finalize_list \cup (ran \cap heap_allocated)

HistoryOK ==
  /\ ~twice
  /\ finalized \subseteq ran /\ ran \cap fresh = {}
  /\ curr # None => curr \in finalized

\* Until a finalizer stores a reference, what waits for its finalizer or has
\* had it stays out of the program's reach, and keeps its flag.
OnceOK ==
  /\ ran \cap heap_allocated \subseteq finalized
  /\ ran \cap finalize_list \subseteq {curr}
  /\ curr # None /\ phase # "forced" /\ had_zero => \A e \in refs : e[2] # curr
  /\ phase \notin {"forced", "freed"} => Kept \cap Behind = {}

OInv == HistoryOK /\ (~stored => OnceOK)

\* Marking finds the least closed set.
LEMMA KeptLeast ==
  ASSUME NEW S \in SUBSET Objs, Starts' \subseteq S, \A e \in refs' : e[1] \in S => e[2] \in S
  PROVE  Kept' \subseteq S
BY DEF Kept, Marked, Closed

LEMMA KeptIsClosed ==
  ASSUME IInv
  PROVE  /\ Starts \subseteq Kept /\ Kept \in SUBSET Objs
         /\ \A e \in refs : e[1] \in Kept => e[2] \in Kept
<1>1. TypeOK /\ Starts \subseteq Objs
  BY DEF IInv, TypeOK, Starts, Rooted
<1> QED
  BY <1>1, MarkedIsClosed DEF Kept, Closed

\* Fewer references and fewer starting points keep less.
LEMMA KeptShrinks ==
  ASSUME IInv, Starts' \subseteq Starts, refs' \subseteq refs
  PROVE  Kept' \subseteq Kept
BY KeptIsClosed, KeptLeast

\* Outside of finalizers, what is accessible is kept.
LEMMA AccessibleKept ==
  ASSUME IInv, curr = None
  PROVE  Accessible \subseteq Kept /\ Rooted \subseteq Accessible
<1>1. Roots \subseteq Rooted
  BY RootAssumption DEF Roots, Rooted
<1>2. Roots \subseteq Kept /\ Kept \in SUBSET Objs /\ Closed(Kept)
  BY <1>1, KeptIsClosed DEF Starts, Closed
<1>3. Roots \subseteq Objs
  BY DEF Roots
<1>4. Roots \subseteq Accessible
  BY <1>3, MarkedIsClosed DEF IInv, Accessible
<1> QED
  BY <1>2, <1>4 DEF Accessible, Marked, Roots, Rooted

LEMMA InitO == Init => OInv
<1> SUFFICES ASSUME Init PROVE OInv
  OBVIOUS
<1> QED
  BY DEF Init, OInv, HistoryOK, OnceOK, Behind

LEMMA NewObjectO ==
  ASSUME IInv, OInv, NEW x \in Objs, NewObject(x)
  PROVE  OInv'
<1>1. /\ x \in fresh /\ x \notin Live /\ fresh' = fresh \ {x}
      /\ heap_allocated' = heap_allocated \cup {x} /\ refs' = refs \cup {<<Root, x>>}
      /\ UNCHANGED <<finalize_list, finalized, curr, had_zero, phase, ran, stored, twice>>
  BY DEF NewObject, control, history, IInv, TypeOK
<1>2. HistoryOK'
  BY <1>1 DEF OInv, HistoryOK
<1>3. ASSUME ~stored PROVE OnceOK'
  <2>1. OnceOK /\ x \notin ran
    BY <1>1, <1>3 DEF OInv, HistoryOK
  <2>2. ran' \cap heap_allocated' = ran \cap heap_allocated
    BY <1>1, <2>1
  <2>3. \A e \in refs : e[1] # x /\ x # Root
    BY <1>1, RootAssumption DEF IInv, NoDangling
  <2>4. Kept' \subseteq Kept \cup {x}
    <3>1. Starts' \subseteq Kept \cup {x}
      <4>1. Starts' \subseteq Starts \cup {x}
        BY <1>1 DEF Starts, Rooted, NeedsFinalizer
      <4> QED
        BY <4>1, KeptIsClosed
    <3>2. \A e \in refs' : e[1] \in Kept \cup {x} => e[2] \in Kept \cup {x}
      BY <1>1, <2>3, KeptIsClosed
    <3>3. Kept \cup {x} \in SUBSET Objs
      BY KeptIsClosed
    <3> QED
      BY <3>1, <3>2, <3>3, KeptLeast
  <2>5. x \notin Behind /\ Behind' = Behind
    BY <1>1, <2>1, <2>2 DEF Behind, Live
  <2>6. curr # None => x # curr
    BY <1>1 DEF IInv, TypeOK
  <2> QED
    BY <1>1, <2>1, <2>2, <2>4, <2>5, <2>6 DEF OnceOK
<1> QED
  BY <1>1, <1>2, <1>3 DEF OInv

LEMMA StoreO ==
  ASSUME IInv, OInv, NEW a, NEW b, Store(a, b)
  PROVE  OInv'
<1>1. /\ Running /\ a \in Holders /\ b \in Accessible /\ refs' = refs \cup {<<a, b>>}
      /\ stored' = (stored \/ curr # None)
      /\ UNCHANGED <<fresh, heap_allocated, finalize_list, finalized, curr, had_zero, phase>>
      /\ UNCHANGED <<ran, twice>>
  BY DEF Store, lists, control
<1>2. HistoryOK'
  BY <1>1 DEF OInv, HistoryOK
<1>3. ASSUME ~stored' PROVE OnceOK'
  <2>1. OnceOK /\ curr = None
    BY <1>1, <1>3 DEF OInv, IInv, TypeOK
  <2>2. b \in Kept
    BY <1>1, <2>1, AccessibleKept
  <2>3. Starts' \subseteq Kept
    <3>1. Starts' \subseteq Starts \cup {b}
      BY <1>1 DEF Starts, Rooted, NeedsFinalizer
    <3> QED
      BY <3>1, <2>2, KeptIsClosed
  <2>4. Kept' \subseteq Kept
    BY <1>1, <2>2, <2>3, KeptIsClosed, KeptLeast
  <2> QED
    BY <1>1, <2>1, <2>4 DEF OnceOK, Behind
<1> QED
  BY <1>2, <1>3 DEF OInv

\* Steps that only take references away.
LEMMA ShrinkO ==
  ASSUME IInv, OInv, refs' \subseteq refs,
         UNCHANGED <<fresh, heap_allocated, finalize_list, finalized, curr, had_zero, phase>>,
         UNCHANGED history
  PROVE  OInv'
<1>1. ran' = ran /\ stored' = stored /\ twice' = twice
  BY DEF history
<1>2. HistoryOK'
  BY <1>1 DEF OInv, HistoryOK
<1>3. Kept' \subseteq Kept
  BY KeptShrinks DEF Starts, Rooted, NeedsFinalizer
<1> QED
  BY <1>1, <1>2, <1>3 DEF OInv, OnceOK, Behind

\* Freeing and queueing by counts.
LEMMA ReleaseO ==
  ASSUME IInv, OInv, NEW F, NEW Q, NEW R, NEW rc, NEW from,
         Releasable(F, Q, R, rc), Release(F, Q, R, rc), Dropped(from, F, Q, R),
         (curr \in F /\ curr' = None) \/ (curr \notin F /\ curr \notin Q /\ curr' = curr),
         finalized' = finalized \cap Live', phase # "forced",
         phase' = phase, had_zero' \in {had_zero, FALSE},
         UNCHANGED <<fresh, history>>
  PROVE  OInv'
<1>1. /\ heap_allocated' = heap_allocated \ (F \cup Q)
      /\ finalize_list' = (finalize_list \ F) \cup Q
      /\ refs' = {e \in R : e[1] \notin F} /\ R \subseteq refs
      /\ F \subseteq Live /\ Q \subseteq heap_allocated \ F
      /\ ran' = ran /\ stored' = stored /\ twice' = twice
  BY DEF Release, Releasable, history
<1>2. Live' = Live \ F
  BY <1>1 DEF Live
<1>3. HistoryOK'
  BY <1>1, <1>2 DEF OInv, HistoryOK, IInv, TypeOK
<1>4. ASSUME ~stored PROVE OnceOK'
  <2>1. OnceOK
    BY <1>4 DEF OInv
  <2>2. Q \cap ran = {}
    BY <1>1, <2>1 DEF OnceOK, Dropped, NeedsFinalizer
  <2>3. ran' \cap heap_allocated' \subseteq finalized'
    BY <1>1, <1>2, <2>1 DEF OnceOK, Live
  <2>4. ran' \cap finalize_list' \subseteq {curr'}
    BY <1>1, <2>1, <2>2 DEF OnceOK
  <2>5. curr' # None /\ had_zero' => \A e \in refs' : e[2] # curr'
    BY <1>1, <2>1 DEF OnceOK
  <2>6. ASSUME phase \notin {"forced", "freed"} PROVE Kept' \cap Behind' = {}
    <3>1. \A o \in heap_allocated' : NeedsFinalizer(o)' => NeedsFinalizer(o)
      BY <1>1, <1>2 DEF NeedsFinalizer, Live
    <3>2. Starts' \subseteq Starts /\ refs' \subseteq refs
      BY <1>1, <3>1 DEF Starts, Rooted
    <3>3. Kept' \subseteq Kept
      BY <3>2, KeptShrinks
    <3>4. \A e \in refs' : e[2] \notin Q
      BY <1>1 DEF Dropped
    <3>5. Kept' \subseteq Objs \ Q
      <4>1. Root \notin F
        BY <1>1, LiveObjs, RootAssumption DEF IInv
      <4>2. Starts' \subseteq Objs \ Q
        BY <1>1, <3>4 DEF Starts, Rooted, IInv, TypeOK
      <4>3. \A e \in refs' : e[1] \in Objs \ Q => e[2] \in Objs \ Q
        BY <1>1, <3>4 DEF IInv, TypeOK
      <4> QED
        BY <4>2, <4>3, KeptLeast
    <3>6. Behind' \subseteq Behind \cup Q
      BY <1>1 DEF Behind
    <3> QED
      BY <2>1, <2>6, <3>3, <3>5, <3>6 DEF OnceOK
  <2> QED
    BY <2>3, <2>4, <2>5, <2>6 DEF OnceOK
<1> QED
  BY <1>1, <1>3, <1>4 DEF OInv

LEMMA DeleteO ==
  ASSUME IInv, OInv, NEW a, NEW b, NEW norz \in BOOLEAN, Delete(a, b, norz)
  PROVE  OInv'
<1>1. finalized' = finalized \cap Live' /\ UNCHANGED <<curr, had_zero, phase, history>>
  BY DEF Delete, FlagsGo, Live
<1>2. CASE refs' = refs \ {<<a, b>>} /\ UNCHANGED lists
  <2>1. UNCHANGED <<fresh, heap_allocated, finalize_list>> /\ Live' = Live
    BY <1>2 DEF lists, Live
  <2>2. finalized' = finalized
    BY <1>1, <2>1 DEF IInv, TypeOK
  <2> QED
    BY <1>1, <1>2, <2>1, <2>2, ShrinkO
<1>3. ASSUME phase # "forced", UNCHANGED fresh,
             NEW F, NEW Q, Releasable(F, Q, refs \ {<<a, b>>}, Decref(b)),
             Release(F, Q, refs \ {<<a, b>>}, Decref(b)),
             Dropped({b}, F, Q, refs \ {<<a, b>>}), curr \notin F \cup Q
      PROVE  OInv'
  BY <1>1, <1>3, ReleaseO
<1> QED
  BY <1>2, <1>3, DeleteReleases

LEMMA FinalizerFreesO == IInv /\ OInv /\ FinalizerFrees => OInv'
<1> SUFFICES ASSUME IInv, OInv, FinalizerFrees PROVE OInv'
  OBVIOUS
<1>1. /\ phase # "forced" /\ finalized' = finalized \cap Live'
      /\ curr' = None /\ had_zero' = FALSE /\ UNCHANGED <<fresh, phase, history>>
  BY DEF FinalizerFrees, FlagsGo, Live
<1>2. PICK F, Q : /\ Releasable(F, Q, refs, refcount) /\ Release(F, Q, refs, refcount)
                  /\ curr \in F /\ Dropped({curr}, F, Q, refs)
  BY FreesReleases
<1> QED
  BY <1>1, <1>2, ReleaseO

\* A collection queues what its sweep has found out of reach; Q is empty in
\* the one that skips finalizers.
LEMMA SweepO ==
  ASSUME IInv, OInv, NEW Q, Q \in {Finalizable, {}},
         Release(heap_allocated \ Reachable, Q, refs, refcount), finalized' = StillFinalized,
         phase \notin {"forced", "freed"}, phase' \notin {"forced", "freed"} => Q = Finalizable,
         curr # None => phase' = phase,
         UNCHANGED <<fresh, curr, had_zero, history>>
  PROVE  OInv'
<1> DEFINE Dead == heap_allocated \ Reachable
<1>1. /\ heap_allocated' = (heap_allocated \cap Reachable) \ Q
      /\ finalize_list' = (finalize_list \ Dead) \cup Q
      /\ refs' \subseteq refs /\ Q \subseteq Finalizable
      /\ ran' = ran /\ stored' = stored /\ twice' = twice
  BY DEF Release, history
<1>2. curr # None => curr \in finalize_list /\ curr \notin heap_allocated
  BY DEF IInv, CurrListed, TypeOK
<1>3. finalized' \subseteq finalized /\ (curr # None => curr \in finalized')
  BY <1>2 DEF StillFinalized, OInv, HistoryOK
<1>4. HistoryOK'
  BY <1>1, <1>3 DEF OInv, HistoryOK
<1>5. ASSUME ~stored PROVE OnceOK'
  <2>1. OnceOK
    BY <1>5 DEF OInv
  <2>2. ran \cap heap_allocated' \subseteq finalized'
    <3> SUFFICES ASSUME NEW x \in ran, x \in heap_allocated' PROVE x \in finalized'
      OBVIOUS
    <3>1. x \in heap_allocated /\ x \in Reachable /\ x \in finalized /\ x \in Behind
      BY <1>1, <2>1 DEF OnceOK, Behind
    <3>2. CASE finalize_list # {}
      BY <3>1, <3>2 DEF StillFinalized
    <3>3. CASE finalize_list = {}
      <4>1. curr = None
        BY <1>2, <3>3
      <4>2. Accessible \subseteq Kept
        BY <4>1, AccessibleKept
      <4>3. Roots \subseteq Kept
        BY <4>1, KeptIsClosed, RootAssumption DEF Roots, Starts, Rooted
      <4>4. Finalizable \subseteq Kept
        BY KeptIsClosed DEF Finalizable, Starts
      <4>5. Kept \in SUBSET Objs /\ Closed(Kept)
        BY KeptIsClosed DEF Closed
      <4>6. Reachable \subseteq Kept
        BY <3>3, <4>3, <4>4, <4>5 DEF Reachable, Marked
      <4> QED
        BY <3>1, <4>6, <2>1 DEF OnceOK
    <3> QED
      BY <3>2, <3>3
  <2>3. Q \cap ran = {}
    BY <1>1, <2>1 DEF OnceOK, Finalizable, NeedsFinalizer
  <2>4. ran' \cap finalize_list' \subseteq {curr'}
    BY <1>1, <2>1, <2>3 DEF OnceOK
  <2>5. curr' # None /\ phase' # "forced" /\ had_zero' => \A e \in refs' : e[2] # curr'
    BY <1>1, <2>1 DEF OnceOK
  <2>6. ASSUME Q = Finalizable PROVE Kept' \cap Behind' = {}
    <3>1. ASSUME NEW x \in heap_allocated', NeedsFinalizer(x)'
          PROVE  NeedsFinalizer(x) /\ x \in Accessible
      <4>1. x \in HasFinalizer /\ x \notin finalized' /\ x \notin ran
        BY <2>2, <3>1 DEF NeedsFinalizer
      <4>2. NeedsFinalizer(x)
        BY <4>1 DEF NeedsFinalizer, OInv, HistoryOK
      <4> QED
        BY <4>2, <1>1, <2>6 DEF Finalizable
    <3>2. Rooted \subseteq Accessible /\ Accessible \in SUBSET Objs /\ Closed(Accessible)
      <4>1. Roots \subseteq Objs /\ Rooted \subseteq Roots
        BY DEF Roots, Rooted
      <4> QED
        BY <4>1, MarkedIsClosed DEF IInv, Accessible
    <3>3. Starts' \subseteq Starts /\ Starts' \subseteq Accessible
      BY <1>1, <3>1, <3>2 DEF Starts, Rooted
    <3>4. Kept' \subseteq Kept
      BY <1>1, <3>3, KeptShrinks
    <3>5. Kept' \subseteq Accessible
      BY <1>1, <3>2, <3>3, KeptLeast DEF Closed
    <3>6. Behind' \subseteq Behind \cup Q /\ Q \cap Accessible = {}
      BY <1>1 DEF Behind, Finalizable
    <3> QED
      BY <2>1, <3>4, <3>5, <3>6 DEF OnceOK
  <2> QED
    BY <1>1, <2>2, <2>4, <2>5, <2>6 DEF OnceOK
<1> QED
  BY <1>1, <1>4, <1>5 DEF OInv

LEMMA CollectionsO ==
  ASSUME IInv, OInv, (\E prevented \in BOOLEAN : Collect(prevented)) \/ FreeHeap \/ SkipFinalizers
  PROVE  OInv'
<1>1. ASSUME NEW prevented \in BOOLEAN, Collect(prevented) PROVE OInv'
  <2>1. phase \notin {"forced", "freed"}
    BY <1>1 DEF Collect, Running, IInv, CurrListed
  <2>2. Release(heap_allocated \ Reachable, Finalizable, refs, refcount)
        /\ finalized' = StillFinalized /\ UNCHANGED <<fresh, curr, had_zero, phase, history>>
    BY <1>1 DEF Collect, MarkAndSweep
  <2> QED
    BY <2>1, <2>2, SweepO
<1>2. ASSUME FreeHeap PROVE OInv'
  <2>1. Release(heap_allocated \ Reachable, Finalizable, refs, refcount)
        /\ finalized' = StillFinalized /\ UNCHANGED <<fresh, curr, had_zero, history>>
        /\ curr = None /\ phase \in {"run", "gc1"}
    BY <1>2 DEF FreeHeap, MarkAndSweep
  <2> QED
    BY <2>1, SweepO
<1>3. ASSUME SkipFinalizers PROVE OInv'
  <2>1. Release(heap_allocated \ Reachable, {}, refs, refcount)
        /\ finalized' = StillFinalized /\ UNCHANGED <<fresh, curr, had_zero, history>>
        /\ curr = None /\ phase = "gc2" /\ phase' = "forced"
    BY <1>3 DEF SkipFinalizers
  <2> QED
    BY <2>1, SweepO
<1> QED
  BY <1>1, <1>2, <1>3

-----------------------------------------------------------------------------
(* Finalizers *)

LEMMA RunFinalizerO ==
  ASSUME IInv, OInv, NEW o \in Objs, RunFinalizer(o)
  PROVE  OInv'
<1>1. /\ curr = None /\ curr' = o /\ o \in finalize_list /\ o \notin heap_allocated
      /\ had_zero' = (refcount[o] = 1) /\ finalized' = finalized \cup {o}
      /\ ran' = ran \cup {o} /\ twice' = (twice \/ (o \in ran /\ ~stored))
      /\ o \notin fresh /\ o # None
      /\ UNCHANGED <<fresh, heap_allocated, finalize_list, refs, phase, stored>>
  BY RootAssumption DEF RunFinalizer, Flag, RecordRun, lists, IInv, TypeOK, Live
<1>2. ~stored => OnceOK /\ o \notin ran
  BY <1>1 DEF OInv, OnceOK
<1>3. HistoryOK'
  BY <1>1, <1>2 DEF OInv, HistoryOK
<1>4. ASSUME refcount[o] = 1, NEW e \in refs, e[2] = o PROVE FALSE
  <2>1. o \in Live /\ Live \subseteq Objs
    BY <1>1, LiveObjs DEF IInv, Live
  <2> DEFINE n == Cardinality(FromTo(refs, Live \cup {Root}, o))
  <2>2. n \in Nat /\ refcount[o] = n + (IF o \in finalize_list THEN 1 ELSE 0)
                                   + (IF o = curr THEN 1 ELSE 0)
    BY <2>1, PushPop
  <2> HIDE DEF n
  <2>3. n = 0
    BY <1>1, <1>4, <2>2
  <2>4. FromTo(refs, Live \cup {Root}, o) = {}
    BY <2>1, <2>3, Referrers, FS_EmptySet DEF n
  <2>5. e = <<e[1], o>> /\ e[1] \in Live \cup {Root}
    BY <1>4 DEF IInv, TypeOK, NoDangling
  <2> QED
    BY <2>4, <2>5 DEF FromTo
<1>5. ASSUME ~stored PROVE OnceOK'
  <2>1. ran' \cap heap_allocated' = ran \cap heap_allocated
    BY <1>1
  <2>2. Starts' = Starts
    BY <1>1 DEF Starts, Rooted, NeedsFinalizer
  <2>3. Kept' \subseteq Kept
    BY <1>1, <2>2, KeptShrinks
  <2>4. Behind' = Behind
    BY <1>1, <2>1 DEF Behind
  <2>5. ran' \cap finalize_list' \subseteq {curr'} /\ ran' \cap heap_allocated' \subseteq finalized'
    <3>1. None \notin ran
      BY ObjsAssumption, RootAssumption DEF IInv, TypeOK
    <3> QED
      BY <3>1, <1>1, <1>2, <1>5, <2>1 DEF OnceOK
  <2>6. curr' # None /\ had_zero' => \A e \in refs' : e[2] # curr'
    BY <1>1, <1>4
  <2>7. phase' \notin {"forced", "freed"} => Kept' \cap Behind' = {}
    BY <1>1, <1>2, <1>5, <2>3, <2>4 DEF OnceOK
  <2> QED
    BY <2>5, <2>6, <2>7 DEF OnceOK
<1> QED
  BY <1>1, <1>3, <1>5 DEF OInv

\* An object goes back to heap_allocated because something refers to it, which
\* then did so already when its finalizer started: the flag stays.
LEMMA FinalizerRequeuesO == IInv /\ OInv /\ FinalizerRequeues => OInv'
<1> SUFFICES ASSUME IInv, OInv, FinalizerRequeues PROVE OInv'
  OBVIOUS
<1>1. /\ phase # "forced" /\ curr # None /\ curr \in Live /\ refcount[curr] - 1 > 1
      /\ curr \in finalize_list
      /\ finalize_list' = finalize_list \ {curr}
      /\ heap_allocated' = heap_allocated \cup {curr} /\ finalized' = Requeued
      /\ curr' = None /\ had_zero' = FALSE
      /\ UNCHANGED <<fresh, refs, phase, ran, stored, twice>>
  BY DEF FinalizerRequeues, history, IInv, TypeOK, CurrListed
<1>2. HistoryOK'
  BY <1>1 DEF OInv, HistoryOK, Requeued
<1>3. ASSUME ~stored PROVE OnceOK'
  <2>1. OnceOK /\ curr \in finalized /\ curr \in ran
    BY <1>1, <1>3 DEF OInv, HistoryOK
  <2>2. \E e \in refs : e[2] = curr
    <3> SUFFICES ASSUME \A e \in refs : e[2] # curr PROVE FALSE
      OBVIOUS
    <3>1. FromTo(refs, Live \cup {Root}, curr) = {}
      BY DEF FromTo
    <3>2. Cardinality(FromTo(refs, Live \cup {Root}, curr)) = 0
      BY <3>1, FS_EmptySet
    <3>3. refcount[curr] = Cardinality(FromTo(refs, Live \cup {Root}, curr))
                           + (IF curr \in finalize_list THEN 1 ELSE 0)
                           + (IF curr = curr THEN 1 ELSE 0)
      BY <1>1, PushPop
    <3> QED
      BY <1>1, <3>2, <3>3
  <2>3. finalized' = finalized
    BY <1>1, <2>1, <2>2 DEF OnceOK, Requeued
  <2>4. Kept' \subseteq Kept
    <3>1. Starts' \subseteq Starts
      BY <1>1, <2>1, <2>3 DEF Starts, Rooted, NeedsFinalizer
    <3> QED
      BY <1>1, <3>1, KeptShrinks
  <2>5. Behind' \subseteq Behind
    BY <1>1 DEF Behind
  <2> QED
    BY <1>1, <2>1, <2>3, <2>4, <2>5 DEF OnceOK
<1> QED
  BY <1>1, <1>2, <1>3 DEF OInv

\* At the end of a heap: forced finalizers, and the last frees.
LEMMA ForcedO ==
  ASSUME IInv, OInv, (\E o \in Objs : ForceFinalizer(o)) \/ ForcedReturns \/ FreeAllocated
  PROVE  OInv'
<1>1. phase = "forced" /\ finalize_list = {} /\ None \notin ran
  BY ObjsAssumption, RootAssumption
  DEF ForceFinalizer, ForcedReturns, FreeAllocated, IInv, ListDone, TypeOK
<1>2. ASSUME NEW o \in Objs, ForceFinalizer(o) PROVE OInv'
  <2>1. /\ curr' = o /\ o \in heap_allocated /\ o \notin finalized
        /\ finalized' = finalized \cup {o}
        /\ ran' = ran \cup {o} /\ twice' = (twice \/ (o \in ran /\ ~stored))
        /\ o \notin fresh
        /\ UNCHANGED <<fresh, heap_allocated, finalize_list, refs, phase, stored>>
    BY <1>2 DEF ForceFinalizer, Flag, RecordRun, NeedsFinalizer, lists, IInv, TypeOK, Live
  <2>2. ~stored => OnceOK /\ o \notin ran
    BY <2>1 DEF OInv, OnceOK
  <2>3. HistoryOK'
    BY <2>1, <2>2 DEF OInv, HistoryOK
  <2>4. ~stored => OnceOK'
    BY <1>1, <2>1, <2>2 DEF OnceOK
  <2> QED
    BY <2>1, <2>3, <2>4 DEF OInv
<1>3. ASSUME ForcedReturns PROVE OInv'
  <2>1. curr' = None /\ UNCHANGED <<lists, refs, finalized, phase, ran, stored, twice>>
    BY <1>3 DEF ForcedReturns, history
  <2> QED
    BY <1>1, <2>1 DEF OInv, HistoryOK, OnceOK, lists
<1>4. ASSUME FreeAllocated PROVE OInv'
  <2>1. /\ curr = None /\ curr' = None /\ heap_allocated' = {} /\ finalized' = {}
        /\ finalize_list' = {} /\ phase' = "freed"
        /\ UNCHANGED <<fresh, ran, stored, twice>>
    BY <1>1, <1>4 DEF FreeAllocated, history
  <2> QED
    BY <2>1 DEF OInv, HistoryOK, OnceOK
<1> QED
  BY <1>2, <1>3, <1>4

LEMMA NextO == IInv /\ OInv /\ [Next]_vars => OInv'
<1> SUFFICES ASSUME IInv, OInv, [Next]_vars PROVE OInv'
  OBVIOUS
<1>1. ASSUME NEW o \in Objs, NewObject(o) \/ RunFinalizer(o) \/ ForceFinalizer(o)
      PROVE  OInv'
  BY <1>1, NewObjectO, RunFinalizerO, ForcedO
<1>2. ASSUME NEW a, NEW b, Store(a, b) PROVE OInv'
  BY <1>2, StoreO
<1>3. ASSUME NEW a, NEW b, NEW norz \in BOOLEAN, Delete(a, b, norz) PROVE OInv'
  BY <1>3, DeleteO
<1>4. ASSUME RefzeroCheck \/ ListEmpty \/ UNCHANGED vars PROVE OInv'
  <2>1. /\ UNCHANGED <<fresh, heap_allocated, finalize_list, refs, finalized>>
        /\ UNCHANGED <<curr, had_zero, phase>> /\ UNCHANGED history
    BY <1>4 DEF RefzeroCheck, ListEmpty, vars, lists, graph, history
  <2> QED
    BY <2>1, ShrinkO
<1> QED
  BY <1>1, <1>2, <1>3, <1>4, CollectionsO, FinalizerFreesO, FinalizerRequeuesO, ForcedO DEF Next

\* The invariant of HeapGCProofs with that of this module.
THEOREM FinalizersInvariant == Spec => [](IInv /\ OInv)
<1>1. IInv /\ OInv /\ [Next]_vars => (IInv /\ OInv)'
  BY NextInv, NextO
<1> QED
  BY <1>1, InitInv, InitO, PTL DEF Spec

\* freeTarget and freeJsFunc give back what Go holds for an object as often as
\* they are run: they run once per object, whatever the program does and
\* whenever it is collected, as long as no finalizer stores a reference.
THEOREM OnlyOnce == Spec => []FinalizedOnce
<1>1. OInv => FinalizedOnce
  BY DEF OInv, HistoryOK, FinalizedOnce
<1> QED
  BY <1>1, FinalizersInvariant, PTL

-----------------------------------------------------------------------------
(* The refinement *)

\* A step frees F with its references, and takes away at most x besides.
Frees(F, R, x) ==
  /\ F \subseteq Live /\ Live' = Live \ F
  /\ R \subseteq refs /\ refs \ R \subseteq {x} /\ refs' = {e \in R : e[1] \notin F}
  /\ F \cap HasFinalizer \subseteq ran

\* What such a step leaves of the rest.
Keeps ==
  /\ curr' \in {curr, None} /\ ran' = ran /\ stored' = stored
  /\ phase \in {"forced", "freed"} => phase' \in {"forced", "freed"}

LEMMA IsReclaim ==
  ASSUME IInv, IInv', NEW F, NEW R, NEW x, Frees(F, R, x), Keeps
  PROVE  Abstract!Reclaim
<1>1. Live' \subseteq Live /\ refs' \subseteq refs /\ Root \notin Live
  BY LiveObjs, RootAssumption DEF IInv, Frees
<1>2. \A e \in refs' : e[1] \in Live' \cup {Root} /\ e[2] \in Live'
  BY DEF IInv, NoDangling
<1>3. \A d, e \in refs \ refs' : {d[1], e[1]} \subseteq Live' \cup {Root} => d = e
  <2>1. ASSUME NEW e \in refs, e \notin refs', e[1] \in Live' \cup {Root}
        PROVE  e = x
    <3>1. CASE e[1] \in F
      BY <2>1, <3>1, <1>1 DEF Frees
    <3>2. CASE e[1] \notin F
      BY <2>1, <3>2 DEF Frees
    <3> QED
      BY <3>1, <3>2
  <2> QED
    BY <2>1
<1>4. curr' \in {curr, None} \cap (Live' \cup {None})
  BY DEF IInv, TypeOK, Keeps
<1> QED
  BY <1>1, <1>2, <1>3, <1>4 DEF Abstract!Reclaim, Frees, Keeps


\* What waits for its finalizer is out of the abstract program's reach.
LEMMA OutOfReach ==
  ASSUME IInv, OInv, ~stored, phase \notin {"forced", "freed"}, NEW o \in finalize_list
  PROVE  ~ Abstract!InReach(o)
<1>1. o \notin Kept
  BY DEF OInv, OnceOK, Behind
<1>2. Kept \in SUBSET Objs /\ \A e \in refs : e[1] \in Kept \cup {Root} => e[2] \in Kept
  <2>1. Kept \in SUBSET Objs /\ \A e \in refs : e[1] \in Kept => e[2] \in Kept
    BY KeptIsClosed
  <2>2. \A e \in refs : e[1] = Root => e[2] \in Kept
    BY KeptIsClosed DEF Starts, Rooted, IInv, TypeOK
  <2> QED
    BY <2>1, <2>2
<1> QED
  BY <1>1, <1>2 DEF Abstract!InReach

\* What is freed without its finalizer has had it.
LEMMA FreedHadFinalizer ==
  ASSUME OInv, NEW F, \A o \in F : ~NeedsFinalizer(o)
  PROVE  F \cap HasFinalizer \subseteq ran
BY DEF OInv, HistoryOK, NeedsFinalizer

LEMMA ReleaseIsReclaim ==
  ASSUME IInv, IInv', OInv, NEW F, NEW Q, NEW R, NEW rc, NEW x,
         Releasable(F, Q, R, rc), Release(F, Q, R, rc), refs \ R \subseteq {x},
         F \cap HasFinalizer \subseteq ran, Keeps
  PROVE  Abstract!Reclaim
<1>1. Live' = Live \ F
  BY DEF Release, Releasable, Live
<1>2. refs' = {e \in R : e[1] \notin F} /\ R \subseteq refs /\ F \subseteq Live
  BY DEF Release, Releasable
<1>3. Frees(F, R, x)
  BY <1>1, <1>2 DEF Frees
<1> QED
  BY <1>3, IsReclaim

LEMMA SweepIsReclaim ==
  ASSUME IInv, IInv', OInv, NEW Q, Q \in {Finalizable, {}},
         Release(heap_allocated \ Reachable, Q, refs, refcount), Keeps
  PROVE  Abstract!Reclaim
<1>1. ASSUME NEW o \in heap_allocated \ Reachable PROVE ~NeedsFinalizer(o)
  <2> DEFINE S == Roots \cup Finalizable \cup finalize_list
  <2>1. S \subseteq Objs
    BY LiveObjs, ObjsAssumption DEF Roots, Finalizable, IInv, TypeOK
  <2>2. S \subseteq Reachable /\ Reachable \in SUBSET Objs /\ Closed(Reachable)
    BY <2>1, MarkedIsClosed DEF Reachable, IInv
  <2>3. Accessible \subseteq Reachable
    BY <2>2 DEF Accessible, Marked
  <2> QED
    BY <2>2, <2>3 DEF Finalizable
<1>2. (heap_allocated \ Reachable) \cap HasFinalizer \subseteq ran
  BY <1>1, FreedHadFinalizer
<1>3. Releasable(heap_allocated \ Reachable, Q, refs, refcount)
  BY SweepIsClosed
<1>4. refs \ refs \subseteq {None}
  OBVIOUS
<1> QED
  BY <1>2, <1>3, <1>4, ReleaseIsReclaim

LEMMA DeleteIsReclaim ==
  ASSUME IInv, IInv', OInv, NEW a, NEW b, NEW norz \in BOOLEAN, Delete(a, b, norz)
  PROVE  Abstract!Reclaim
<1>1. Keeps
  BY DEF Delete, history, Keeps
<1>2. CASE refs' = refs \ {<<a, b>>} /\ UNCHANGED lists
  <2>1. Live' = Live \ {} /\ refs' = {e \in refs \ {<<a, b>>} : e[1] \notin {}}
    BY <1>2 DEF lists, Live
  <2>2. Frees({}, refs \ {<<a, b>>}, <<a, b>>)
    BY <2>1 DEF Frees
  <2> QED
    BY <1>1, <2>2, IsReclaim
<1>3. ASSUME NEW F, NEW Q, Releasable(F, Q, refs \ {<<a, b>>}, Decref(b)),
             Release(F, Q, refs \ {<<a, b>>}, Decref(b)),
             Dropped({b}, F, Q, refs \ {<<a, b>>}), b \in F => ~NeedsFinalizer(b)
      PROVE  Abstract!Reclaim
  <2>1. F \cap HasFinalizer \subseteq ran
    BY <1>3, FreedHadFinalizer DEF Dropped
  <2>2. refs \ (refs \ {<<a, b>>}) \subseteq {<<a, b>>}
    OBVIOUS
  <2> QED
    BY <1>1, <1>3, <2>1, <2>2, ReleaseIsReclaim
<1> QED
  BY <1>2, <1>3, DeleteReleases

LEMMA FinalizerFreesIsReclaim ==
  ASSUME IInv, IInv', OInv, FinalizerFrees
  PROVE  Abstract!Reclaim
<1>1. curr # None /\ Keeps
  BY DEF FinalizerFrees, history, Keeps
<1>2. PICK F, Q : /\ Releasable(F, Q, refs, refcount) /\ Release(F, Q, refs, refcount)
                  /\ curr \in F /\ Dropped({curr}, F, Q, refs)
  BY FreesReleases
<1>3. \A o \in F : ~NeedsFinalizer(o)
  BY <1>1, <1>2 DEF Dropped, OInv, HistoryOK, NeedsFinalizer
<1>4. F \cap HasFinalizer \subseteq ran /\ refs \ refs \subseteq {None}
  BY <1>3, FreedHadFinalizer
<1> QED
  BY <1>1, <1>2, <1>4, ReleaseIsReclaim

\* Steps that free nothing and take no reference away.
LEMMA ReturnIsReclaim ==
  ASSUME IInv, IInv', OInv, FinalizerRequeues \/ ForcedReturns
  PROVE  Abstract!Reclaim
<1>1. Live' = Live /\ refs' = refs
  BY DEF FinalizerRequeues, ForcedReturns, Live, lists, history, IInv, TypeOK, CurrListed
<1>2. Frees({}, refs, None)
  BY <1>1 DEF Frees
<1>3. Keeps
  BY DEF FinalizerRequeues, ForcedReturns, history, Keeps
<1> QED
  BY <1>2, <1>3, IsReclaim

LEMMA StartIsFinalize ==
  ASSUME IInv, OInv, NEW o \in Objs, RunFinalizer(o) \/ ForceFinalizer(o)
  PROVE  Abstract!Finalize(o)
<1>1. /\ curr = None /\ curr' = o /\ o \in Live \cap HasFinalizer /\ ran' = ran \cup {o}
      /\ Live' = Live /\ UNCHANGED <<refs, phase, stored>>
  BY DEF RunFinalizer, ForceFinalizer, RecordRun, NeedsFinalizer, lists, Live, IInv, TypeOK
<1>2. stored \/ phase \in {"forced", "freed"} \/ ~ Abstract!InReach(o)
  BY OutOfReach DEF RunFinalizer, ForceFinalizer
<1> QED
  BY <1>1, <1>2 DEF Abstract!Finalize

LEMMA RefinementStep ==
  ASSUME IInv, OInv, [Next]_vars
  PROVE  [Abstract!Next]_(Abstract!vars)
<1>0. IInv'
  BY NextInv
<1>1. ASSUME NEW o \in Objs, NewObject(o) PROVE Abstract!Create(o)
  <2>1. o \notin Live /\ Live' = Live \cup {o} /\ refs' = refs \cup {<<Root, o>>}
        /\ UNCHANGED <<curr, phase, ran, stored>>
    BY <1>1 DEF NewObject, control, history, IInv, TypeOK, Live
  <2> QED
    BY <2>1 DEF Abstract!Create
<1>2. ASSUME NEW a, NEW b, Store(a, b) PROVE \E c, d \in Objs \cup {Root} : Abstract!Link(c, d)
  <2>1. a \in Live \cup {Root} /\ b \in Live /\ Live \subseteq Objs
    BY <1>2, AccessibleLive, LiveObjs DEF Store, IInv
  <2>2. /\ refs' = refs \cup {<<a, b>>} /\ stored' = (stored \/ curr # None)
        /\ Live' = Live /\ UNCHANGED <<curr, phase, ran>>
    BY <1>2 DEF Store, lists, control, Live
  <2>3. Abstract!Link(a, b)
    BY <2>1, <2>2 DEF Abstract!Link
  <2> QED
    BY <2>1, <2>3
<1>3. ASSUME NEW a, NEW b, NEW norz \in BOOLEAN, Delete(a, b, norz) PROVE Abstract!Reclaim
  BY <1>0, <1>3, DeleteIsReclaim
<1>4. ASSUME NEW prevented \in BOOLEAN, Collect(prevented) PROVE Abstract!Reclaim
  <2>1. /\ Release(heap_allocated \ Reachable, Finalizable, refs, refcount)
        /\ Keeps
    BY <1>4 DEF Collect, MarkAndSweep, Running, history, IInv, CurrListed, Keeps
  <2> QED
    BY <1>0, <2>1, SweepIsReclaim
<1>5. ASSUME FreeHeap PROVE Abstract!Reclaim
  <2>1. /\ Release(heap_allocated \ Reachable, Finalizable, refs, refcount)
        /\ Keeps
    BY <1>5 DEF FreeHeap, MarkAndSweep, history, Keeps
  <2> QED
    BY <1>0, <2>1, SweepIsReclaim
<1>6. ASSUME SkipFinalizers PROVE Abstract!Reclaim
  <2>1. /\ Release(heap_allocated \ Reachable, {}, refs, refcount)
        /\ Keeps
    BY <1>6 DEF SkipFinalizers, history, Keeps
  <2> QED
    BY <1>0, <2>1, SweepIsReclaim
<1>7. ASSUME FreeAllocated PROVE Abstract!Free
  <2>1. /\ phase = "forced" /\ phase' = "freed" /\ curr = None /\ finalize_list = {}
        /\ \A o \in heap_allocated : ~NeedsFinalizer(o)
        /\ Live' = {} /\ refs' = {} /\ UNCHANGED <<curr, ran, stored>>
    BY <1>7 DEF FreeAllocated, history, Live, IInv, ListDone
  <2>2. Live \cap HasFinalizer \subseteq ran
    BY <2>1, FreedHadFinalizer DEF Live
  <2> QED
    BY <2>1, <2>2 DEF Abstract!Free
<1>8. ASSUME RefzeroCheck \/ ListEmpty \/ UNCHANGED vars PROVE UNCHANGED Abstract!vars
  BY <1>8 DEF RefzeroCheck, ListEmpty, vars, lists, graph, history, Abstract!vars, Live
<1> QED
  BY <1>0, <1>1, <1>2, <1>3, <1>4, <1>5, <1>6, <1>7, <1>8, FinalizerFreesIsReclaim,
     ReturnIsReclaim, StartIsFinalize DEF Next, Abstract!Next

\* The engine's memory, with its counts, collections and lists, keeps what
\* Reclamation promises: objects go only when nothing refers to them and their
\* finalizers have run, and finalizers run only for what is out of reach.
THEOREM Refinement == Spec => ImplementsReclamation
<1>1. Init => Abstract!Init
  BY DEF Init, Abstract!Init, Live
<1>2. IInv /\ OInv /\ [Next]_vars => [Abstract!Next]_(Abstract!vars)
  BY RefinementStep
<1> QED
  BY <1>1, <1>2, FinalizersInvariant, PTL DEF Spec, ImplementsReclamation, Abstract!Spec
=============================================================================
