---------------------------- MODULE Reclamation ----------------------------
(***************************************************************************)
(* What the engine promises about memory, without counts, lists and        *)
(* phases: nothing that is still referred to is freed, no reference is     *)
(* lost but by the program, an object with a finalizer is not freed before *)
(* its finalizer has run, and finalizers run for what is out of reach.     *)
(***************************************************************************)

CONSTANTS Objs, HasFinalizer, Root, None

VARIABLES
  live,     \* the objects there are
  refs,     \* references <<from, to>>
  using,    \* the object whose finalizer runs, or None
  done,     \* objects whose finalizer has run
  stored,   \* a finalizer has stored a reference
  closing   \* the heap is being destroyed

vars == <<live, refs, using, done, stored, closing>>

InReach(o) ==
  \A S \in SUBSET Objs :
    (\A e \in refs : e[1] \in S \cup {Root} => e[2] \in S) => o \in S

Init ==
  live = {} /\ refs = {} /\ using = None /\ done = {} /\ ~stored /\ ~closing

\* A new object, referred to by a root.
Create(o) ==
  /\ o \notin live
  /\ live' = live \cup {o}
  /\ refs' = refs \cup {<<Root, o>>}
  /\ UNCHANGED <<using, done, stored, closing>>

Link(a, b) ==
  /\ a \in live \cup {Root} /\ b \in live
  /\ refs' = refs \cup {<<a, b>>}
  /\ stored' = (stored \/ using # None)
  /\ UNCHANGED <<live, using, done, closing>>

\* The program gives up at most one reference; objects are freed with theirs,
\* and what remains refers to what remains.  A finalizer may return, and the
\* destruction of the heap begin.
Reclaim ==
  /\ live' \subseteq live /\ refs' \subseteq refs
  /\ \A e \in refs' : e[1] \in live' \cup {Root} /\ e[2] \in live'
  /\ \A d, e \in refs \ refs' : {d[1], e[1]} \subseteq live' \cup {Root} => d = e
  /\ (live \ live') \cap HasFinalizer \subseteq done
  /\ using' \in {using, None} \cap (live' \cup {None})
  /\ closing => closing'
  /\ UNCHANGED <<done, stored>>

\* The finalizer of o starts.
Finalize(o) ==
  /\ using = None
  /\ o \in live \cap HasFinalizer
  /\ stored \/ closing \/ ~InReach(o)
  /\ using' = o
  /\ done' = done \cup {o}
  /\ UNCHANGED <<live, refs, stored, closing>>

\* The end of the heap.
Free ==
  /\ closing /\ using = None
  /\ live \cap HasFinalizer \subseteq done
  /\ live' = {} /\ refs' = {}
  /\ UNCHANGED <<using, done, stored, closing>>

Next ==
  \/ \E o \in Objs : Create(o) \/ Finalize(o)
  \/ \E a, b \in Objs \cup {Root} : Link(a, b)
  \/ Reclaim
  \/ Free

Spec == Init /\ [][Next]_vars
=============================================================================
