------------------------------- MODULE HeapGC -------------------------------
(***************************************************************************)
(* The memory of the engine (duktape.c), as far as finalizers can tell:    *)
(* reference counts with their cascades of frees, mark-and-sweep, the list *)
(* of objects that wait for their finalizer, and the destruction of the    *)
(* heap.  The binding leans on it: freeTarget and freeJsFunc are           *)
(* finalizers that give back what the Go side holds for an object, and     *)
(* give it back as often as they are run.                                  *)
(*                                                                         *)
(* The program (and every finalizer) may make objects, store and delete    *)
(* references and cause a collection, in any order.  Root stands for all   *)
(* that is reachable by itself: the globals, the stash, the value stacks   *)
(* of heap_thread.  At most one reference from one object to another is    *)
(* told apart.  The orders of heap_allocated and finalize_list follow from *)
(* the order of properties and allocations: any order, so both are sets.   *)
(***************************************************************************)
EXTENDS Naturals, FiniteSets

CONSTANTS
  Objs,          \* the objects a program makes
  HasFinalizer,  \* those with a _Finalizer, own or inherited
  Root,          \* what holds the roots
  None           \* no object

ASSUME ObjsAssumption == IsFiniteSet(Objs) /\ HasFinalizer \subseteq Objs
ASSUME RootAssumption == Root \notin Objs /\ None \notin Objs /\ Root # None

VARIABLES
  fresh,           \* objects not made yet
  heap_allocated,  \* heap->heap_allocated
  finalize_list,   \* heap->finalize_list
  refs,            \* references <<from, to>>
  refcount,        \* the h_refcount of each object
  finalized,       \* objects with the FINALIZED flag
  pf,              \* heap->pf_prevent_count, as finalize_list processing sets it
  curr,            \* the object whose finalizer runs, or None
  had_zero,        \* had_zero_refcount of the processing of curr
  phase,           \* "run", or how far duk_heap_free is
  ran,             \* history: objects whose finalizer has run
  stored,          \* history: a finalizer has stored a reference
  twice            \* history: before that, a finalizer had run twice

lists == <<fresh, heap_allocated, finalize_list>>
graph == <<refs, refcount>>
control == <<pf, curr, had_zero, phase>>
history == <<ran, stored, twice>>
vars == <<fresh, heap_allocated, finalize_list, refs, refcount, finalized,
          pf, curr, had_zero, phase, ran, stored, twice>>

Phases == {"run", "gc1", "gc2", "forced", "freed"}
Live == heap_allocated \cup finalize_list

-----------------------------------------------------------------------------
(* Reachability and reference counts *)

\* What marking from the objects in R reaches: the least closed set.
Closed(S) == \A e \in refs : e[1] \in S => e[2] \in S
Marked(R) ==
  {o \in Objs : \A S \in SUBSET Objs : R \subseteq S /\ Closed(S) => o \in S}

\* duk__mark_roots_heap; the object being finalized is on the value stack.
Roots == {o \in Objs : <<Root, o>> \in refs \/ curr = o}
Accessible == Marked(Roots)

\* The references among R from the objects in F to o.
FromTo(R, F, o) == {a \in F : <<a, o>> \in R}

\* Refzero'd objects with a finalizer that has not been run are queued.
AlwaysQueues(o) == o \in HasFinalizer   \* variant: FINALIZED is not looked at
NeedsFinalizer(o) == o \in HasFinalizer /\ o \notin finalized

\* S has what drops to a zero count when F, and what needs no finalizer of S,
\* is freed.
HasDropped(S, F, R, rc) ==
  LET freed == F \cup {x \in S : ~NeedsFinalizer(x)}
  IN  \A o \in heap_allocated \ F :
        rc[o] \in 1 .. Cardinality(FromTo(R, freed, o)) => o \in S

\* duk__refcount_free_pending: which objects drop when those in F are freed.
Cascade(F, R, rc) ==
  {o \in heap_allocated \ F :
     \A S \in SUBSET (heap_allocated \ F) : HasDropped(S, F, R, rc) => o \in S}

\* Frees F and queues Q for finalization, given the references R and the
\* counts rc: the references of F are decref'd, the counts of Q are bumped.
NoBump(F, Q, R, rc) ==   \* variant: no artificial count on the list
  [o \in Objs |-> IF o \in F THEN 0 ELSE rc[o] - Cardinality(FromTo(R, F, o))]
Counts(F, Q, R, rc) ==
  [o \in Objs |-> IF o \in F THEN 0
                  ELSE rc[o] - Cardinality(FromTo(R, F, o))
                       + (IF o \in Q THEN 1 ELSE 0)]

Release(F, Q, R, rc) ==
  /\ heap_allocated' = heap_allocated \ (F \cup Q)
  /\ finalize_list' = (finalize_list \ F) \cup Q
  /\ refs' = {e \in R : e[1] \notin F}
  /\ refcount' = Counts(F, Q, R, rc)

\* The flag goes with the object.
FlagsGo == finalized' = finalized \cap (heap_allocated' \cup finalize_list')

\* Frees F with everything that then drops to a zero count.
ReleaseAll(F, R, rc) ==
  LET C == Cascade(F, R, rc)
      Q == {o \in C : NeedsFinalizer(o)}
  IN  Release(F \cup (C \ Q), Q, R, rc)

\* duk_heap_process_finalize_list is entered if there is something to do; if
\* pf_prevent_count is set already, it returns.
ProcessIf(called) == pf' = IF called /\ finalize_list' # {} THEN 1 ELSE pf

-----------------------------------------------------------------------------
Init ==
  /\ fresh = Objs /\ heap_allocated = {} /\ finalize_list = {}
  /\ refs = {} /\ refcount = [o \in Objs |-> 0] /\ finalized = {}
  /\ pf = 0 /\ curr = None /\ had_zero = FALSE /\ phase = "run"
  /\ ran = {} /\ stored = FALSE /\ twice = FALSE

(* What a program or a finalizer does *)

Running == curr # None \/ (phase = "run" /\ pf = 0)
Holders == Accessible \cup {Root}

NewObject(o) ==
  /\ Running
  /\ o \in fresh
  /\ fresh' = fresh \ {o}
  /\ heap_allocated' = heap_allocated \cup {o}
  /\ refs' = refs \cup {<<Root, o>>}
  /\ refcount' = [refcount EXCEPT ![o] = 1]
  /\ UNCHANGED <<finalize_list, finalized, control, history>>

\* An object stores a reference (incref).
Store(a, b) ==
  /\ Running
  /\ a \in Holders /\ b \in Accessible
  /\ <<a, b>> \notin refs
  /\ refs' = refs \cup {<<a, b>>}
  /\ refcount' = [refcount EXCEPT ![b] = @ + 1]
  /\ stored' = (stored \/ curr # None)
  /\ UNCHANGED <<lists, finalized, control, ran, twice>>

\* An object drops a reference: decref, and at zero refzero processing,
\* suppressed while the heap is being destroyed (ms_running).  norz: the
\* caller looks at finalize_list later.
Delete(a, b, norz) ==
  /\ Running
  /\ a \in Holders
  /\ <<a, b>> \in refs
  /\ LET R == refs \ {<<a, b>>}
         rc == [refcount EXCEPT ![b] = @ - 1]
     IN  IF rc[b] # 0 \/ phase = "forced"
           THEN refs' = R /\ refcount' = rc /\ UNCHANGED <<lists, pf>>
           ELSE /\ IF NeedsFinalizer(b) THEN Release({}, {b}, R, rc)
                                        ELSE ReleaseAll({b}, R, rc)
                /\ ProcessIf(~norz)
                /\ UNCHANGED fresh
  /\ FlagsGo
  /\ UNCHANGED <<curr, had_zero, phase, history>>

\* DUK_REFZERO_CHECK after NORZ decrefs.
RefzeroCheck ==
  /\ Running /\ pf = 0
  /\ finalize_list # {}
  /\ pf' = 1
  /\ UNCHANGED <<lists, graph, finalized, curr, had_zero, phase, history>>

-----------------------------------------------------------------------------
(* Mark-and-sweep *)

\* duk__mark_finalizable: unreachable objects whose finalizer is yet to run.
MarkAll == HasFinalizer \cap heap_allocated   \* variant: reachable ones, too
Finalizable == {o \in heap_allocated \ Accessible : NeedsFinalizer(o)}

\* duk__mark_finalize_list makes the list a root as well.
NoListRoots == Accessible \cup Marked(Finalizable)   \* variant: the list is no root
Reachable == Marked(Roots \cup Finalizable \cup finalize_list)

\* duk__sweep_heap: a reachable object with FINALIZED was rescued, but while
\* the list holds objects nobody can tell, and the flag stays.
AlwaysRescue == finalized \cap finalize_list   \* variant: no POSTPONE_RESCUE
StillFinalized ==
  IF finalize_list # {} THEN finalized \cap (Reachable \cup finalize_list) ELSE {}

\* Frees what is unreachable and queues the finalizable.
MarkAndSweep ==
  /\ Release(heap_allocated \ Reachable, Finalizable, refs, refcount)
  /\ finalized' = StillFinalized

\* A collection the allocator starts.  While the property table of an object
\* or the string table is resized, finalizers are prevented.
Collect(prevented) ==
  /\ Running /\ phase # "forced"
  /\ MarkAndSweep
  /\ ProcessIf(~prevented)
  /\ UNCHANGED <<fresh, curr, had_zero, phase, history>>

-----------------------------------------------------------------------------
(* duk_heap_process_finalize_list *)

RecordRun(o) ==
  /\ ran' = ran \cup {o}
  /\ twice' = (twice \/ (o \in ran /\ ~stored))

\* The finalizer of o starts: the flag is set, o pushed on the value stack.
ForgetFlag(o) == finalized   \* variant: FINALIZED is not set
Flag(o) == finalized \cup {o}

RunFinalizer(o) ==
  /\ pf = 1 /\ curr = None
  /\ o \in finalize_list
  /\ curr' = o
  /\ had_zero' = (refcount[o] = 1)
  /\ finalized' = Flag(o)
  /\ refcount' = [refcount EXCEPT ![o] = @ + 1]
  /\ RecordRun(o)
  /\ UNCHANGED <<lists, refs, pf, phase, stored>>

\* Only the bump is left: freed at once.
FinalizerFrees ==
  /\ phase # "forced" /\ curr # None
  /\ refcount[curr] - 1 = 1
  /\ ReleaseAll({curr}, refs, refcount)
  /\ FlagsGo
  /\ curr' = None /\ had_zero' = FALSE
  /\ UNCHANGED <<fresh, pf, phase, history>>

\* Otherwise the object goes back to heap_allocated, and keeps FINALIZED
\* unless it had been queued by refcounting.
Requeued == IF had_zero THEN finalized \ {curr} ELSE finalized

FinalizerRequeues ==
  /\ phase # "forced" /\ curr # None
  /\ refcount[curr] - 1 > 1
  /\ finalize_list' = finalize_list \ {curr}
  /\ heap_allocated' = heap_allocated \cup {curr}
  /\ refcount' = [refcount EXCEPT ![curr] = @ - 2]
  /\ finalized' = Requeued
  /\ curr' = None /\ had_zero' = FALSE
  /\ UNCHANGED <<fresh, refs, pf, phase, history>>

ListEmpty ==
  /\ pf = 1 /\ curr = None /\ phase \notin {"forced", "freed"}
  /\ finalize_list = {}
  /\ pf' = 0
  /\ UNCHANGED <<lists, graph, finalized, curr, had_zero, phase, history>>

-----------------------------------------------------------------------------
(* duk_heap_free *)

\* Two collections with their finalizers.
FreeHeap ==
  /\ pf = 0 /\ curr = None
  /\ phase \in {"run", "gc1"}
  /\ phase' = IF phase = "run" THEN "gc1" ELSE "gc2"
  /\ MarkAndSweep
  /\ ProcessIf(TRUE)
  /\ UNCHANGED <<fresh, curr, had_zero, history>>

\* A third one that skips finalizers: what it queues goes back to
\* heap_allocated, with the bump removed.
SkipFinalizers ==
  /\ pf = 0 /\ curr = None
  /\ phase = "gc2"
  /\ phase' = "forced"
  /\ Release(heap_allocated \ Reachable, {}, refs, refcount)
  /\ finalized' = StillFinalized
  /\ pf' = 1
  /\ UNCHANGED <<fresh, curr, had_zero, history>>

\* duk__free_run_finalizers, reachable or not, until none is left to run.
ForceFinalizer(o) ==
  /\ phase = "forced" /\ curr = None
  /\ o \in heap_allocated /\ NeedsFinalizer(o)
  /\ curr' = o
  /\ finalized' = Flag(o)
  /\ refcount' = [refcount EXCEPT ![o] = @ + 1]
  /\ RecordRun(o)
  /\ UNCHANGED <<lists, refs, pf, had_zero, phase, stored>>

ForcedReturns ==
  /\ phase = "forced" /\ curr # None
  /\ refcount' = [refcount EXCEPT ![curr] = @ - 1]
  /\ curr' = None
  /\ UNCHANGED <<lists, refs, finalized, pf, had_zero, phase, history>>

\* duk__free_allocated
FreeAllocated ==
  /\ phase = "forced" /\ curr = None
  /\ \A o \in heap_allocated : ~NeedsFinalizer(o)
  /\ heap_allocated' = {} /\ refs' = {} /\ finalized' = {}
  /\ refcount' = [o \in Objs |-> 0]
  /\ phase' = "freed"
  /\ UNCHANGED <<fresh, finalize_list, pf, curr, had_zero, history>>

FinalizerReturns == FinalizerFrees \/ FinalizerRequeues \/ ForcedReturns
Processing == (\E o \in Objs : RunFinalizer(o) \/ ForceFinalizer(o)) \/ ListEmpty
Destruction == (phase # "run" /\ FreeHeap) \/ SkipFinalizers \/ FreeAllocated

Next ==
  \/ \E o \in Objs : NewObject(o) \/ RunFinalizer(o) \/ ForceFinalizer(o)
  \/ \E a \in Holders, b \in Accessible : Store(a, b)
  \/ \E e \in refs, norz \in BOOLEAN : Delete(e[1], e[2], norz)
  \/ RefzeroCheck
  \/ \E prevented \in BOOLEAN : Collect(prevented)
  \/ FinalizerFrees \/ FinalizerRequeues \/ ListEmpty
  \/ FreeHeap \/ SkipFinalizers \/ ForcedReturns \/ FreeAllocated

Spec == Init /\ [][Next]_vars

\* The program runs on and allocates, so that the allocator keeps starting
\* collections; finalizers return; C code runs on.
FairSpec ==
  /\ Spec
  /\ SF_vars(Collect(FALSE))
  /\ WF_vars(FinalizerReturns)
  /\ WF_vars(Processing)
  /\ WF_vars(Destruction)

-----------------------------------------------------------------------------
(* Properties *)

TypeOK ==
  /\ fresh \subseteq Objs /\ heap_allocated \subseteq Objs
  /\ finalize_list \subseteq HasFinalizer
  /\ heap_allocated \cap finalize_list = {} /\ fresh \cap Live = {}
  /\ refs \subseteq (Objs \cup {Root}) \X Objs
  /\ refcount \in [Objs -> Nat]
  /\ finalized \subseteq Live \cap HasFinalizer
  /\ pf \in {0, 1} /\ curr \in Live \cup {None}
  /\ had_zero \in BOOLEAN /\ phase \in Phases
  /\ ran \subseteq HasFinalizer /\ stored \in BOOLEAN /\ twice \in BOOLEAN

\* A finalizer runs for an object of the list, a forced one for one of
\* heap_allocated, and while it does the list is not processed again.
CurrListed ==
  curr # None =>
    /\ pf = 1 /\ phase # "freed"
    /\ curr \in (IF phase = "forced" THEN heap_allocated ELSE finalize_list)

\* Destruction goes on only when the list is empty.
ListDone ==
  /\ phase # "run" /\ pf = 0 => finalize_list = {}
  /\ phase \in {"forced", "freed"} => pf = 1 /\ finalize_list = {}

\* A count is the number of references to the object, with the artificial one
\* of the list and that of the value stack while its finalizer runs.
CountsExact ==
  \A o \in Live :
    refcount[o] = Cardinality(FromTo(refs, Live \cup {Root}, o))
                  + (IF o \in finalize_list THEN 1 ELSE 0)
                  + (IF o = curr THEN 1 ELSE 0)

\* Nothing that a root, an object or a waiting finalizer refers to is freed.
NoDangling == \A e \in refs : e[1] \in Live \cup {Root} /\ e[2] \in Live

\* As long as no finalizer stores a reference, none runs twice.
FinalizedOnce == ~twice

Abstract == INSTANCE Reclamation WITH
  live <- Live, using <- curr, done <- ran,
  closing <- (phase \in {"forced", "freed"})

ImplementsReclamation == Abstract!Spec

\* Destruction ends with all objects freed, unless finalizers store references.
DestructionEnds == phase # "run" ~> phase = "freed" \/ stored

\* What is out of reach is freed in the end, unless a finalizer stores.
GarbageGoes ==
  \A o \in Objs :
    o \in Live /\ o \notin Accessible ~> o \notin Live \/ stored
=============================================================================
