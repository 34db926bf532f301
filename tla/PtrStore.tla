------------------------------ MODULE PtrStore ------------------------------
(***************************************************************************)
(* One ptrStore (go-ptr-id.go): the table that gives every exported Go     *)
(* pointer a uint32 id, counts its registrations and hands the id back     *)
(* when the last one is removed.                                           *)
(*                                                                         *)
(* The callers are the proxy targets of go-proxy-value.go: makeProxyObject *)
(* registers a pointer for a target and stores the id in it, the finalizer *)
(* freeTarget removes that id once.  Each method body runs under s.lock,   *)
(* so it is one step, except that a register which has to search for a     *)
(* free id holds the lock over the iterations of its loop.                 *)
(***************************************************************************)
EXTENDS Integers, FiniteSets

CONSTANTS
  Targets,   \* proxy targets, each at most one registration at a time
  Objects,   \* Go pointers
  MaxId,     \* the largest id: 2^32 - 1 in the code
  NULL       \* no target, no object, no id

Ids == 0 .. MaxId

ASSUME MaxIdAssumption == MaxId \in Nat \ {0}
ASSUME NullAssumption == NULL \notin Targets \cup Objects \cup Ids
ASSUME TargetsAssumption == IsFiniteSet(Targets)

VARIABLES
  lock,      \* s.lock: the target whose register holds it, or NULL
  index,     \* s.index
  id2ptr,    \* s.id2ptr: the ptr of an id's ref, NULL if the id has none
  count,     \* the count of an id's ref
  ptr2id,    \* s.ptr2id, NULL if the pointer has no id
  cleared,   \* the two maps are nil
  pc,        \* where each target is in its life
  obj,       \* the pointer it is made for
  idx        \* the id stored in its hidden idx property

store == <<lock, index, id2ptr, count, ptr2id, cleared>>
vars == <<lock, index, id2ptr, count, ptr2id, cleared, pc, obj, idx>>

PC == {"new", "register", "probe", "live", "remove", "dead", "panic"}

\* uint32 arithmetic: s.index++ and i - 1 wrap around.
SuccForgotten(i) == i    \* variant: the loop does not advance
Succ(i) == IF i = MaxId THEN 0 ELSE i + 1
Pred(i) == IF i = 0 THEN MaxId ELSE i - 1

\* s.lookup(i)
Lookup(i) == id2ptr[i]

\* if index, ok := s.ptr2id[i]: the id of a registered pointer, else NULL.
NoKnownId(o) == NULL     \* variant: every registration takes a new id
KnownId(o) == ptr2id[o]

\* ref.count -= 1; if ref.count > 0: the reference is not the last one.
DropRef(i) == FALSE                 \* variant: the first remove wins
OffByOneRef(i) == count[i] > 0      \* variant: tested before the decrement
OtherRefs(i) == count[i] - 1 > 0

\* delete(s.ptr2id, ref.ptr)
ForgetPtr(i) == [ptr2id EXCEPT ![id2ptr[i]] = NULL]

\* if i <= s.index { s.index = i - 1 }
NoRewind(i) == index     \* variant: the hole is not revisited
Rewind(i) == IF i <= index THEN Pred(i) ELSE index

\* defer s.lock.Unlock()
Unlock == lock' = NULL

\* t's registration has returned its id and is not yet undone.
Holding(t) == pc[t] \in {"live", "remove"}
Holders(i) == {t \in Targets : Holding(t) /\ idx[t] = i}

Init ==
  /\ lock = NULL
  /\ index = 0
  /\ id2ptr = [i \in Ids |-> NULL]
  /\ count = [i \in Ids |-> 0]
  /\ ptr2id = [o \in Objects |-> NULL]
  /\ cleared = FALSE
  /\ pc = [t \in Targets |-> "new"]
  /\ obj = [t \in Targets |-> NULL]
  /\ idx = [t \in Targets |-> 0]

-----------------------------------------------------------------------------
\* makeProxyObject calls ptr.register(&v) for a fresh target.
MakeProxy(t, o) ==
  /\ pc[t] \in {"new", "dead"}
  /\ pc' = [pc EXCEPT ![t] = "register"]
  /\ obj' = [obj EXCEPT ![t] = o]
  /\ UNCHANGED <<store, idx>>

\* register, the pointer already has an id: one more reference.
RegisterKnown(t) ==
  /\ pc[t] = "register"
  /\ lock = NULL
  /\ KnownId(obj[t]) # NULL
  /\ LET i == KnownId(obj[t]) IN
       /\ count' = [count EXCEPT ![i] = @ + 1]
       /\ idx' = [idx EXCEPT ![t] = i]
  /\ pc' = [pc EXCEPT ![t] = "live"]
  /\ UNCHANGED <<lock, index, id2ptr, ptr2id, cleared, obj>>

\* register, no id yet: enter the search loop with the lock held.
RegisterNew(t) ==
  /\ pc[t] = "register"
  /\ lock = NULL
  /\ KnownId(obj[t]) = NULL
  /\ lock' = t
  /\ pc' = [pc EXCEPT ![t] = "probe"]
  /\ UNCHANGED <<index, id2ptr, count, ptr2id, cleared, obj, idx>>

\* An iteration of the loop that finds the next id taken.
Probe(t) ==
  /\ pc[t] = "probe"
  /\ Lookup(Succ(index)) # NULL
  /\ index' = Succ(index)
  /\ UNCHANGED <<lock, id2ptr, count, ptr2id, cleared, pc, obj, idx>>

\* The iteration that finds the next id free: record the pointer, unlock.
Insert(t) ==
  /\ pc[t] = "probe"
  /\ ~cleared
  /\ Lookup(Succ(index)) = NULL
  /\ index' = Succ(index)
  /\ id2ptr' = [id2ptr EXCEPT ![index'] = obj[t]]
  /\ count' = [count EXCEPT ![index'] = 1]
  /\ ptr2id' = [ptr2id EXCEPT ![obj[t]] = index']
  /\ idx' = [idx EXCEPT ![t] = index']
  /\ pc' = [pc EXCEPT ![t] = "live"]
  /\ Unlock
  /\ UNCHANGED <<cleared, obj>>

\* The same iteration on a cleared store: writing to a nil map panics, the
\* deferred Unlock runs.
InsertIntoNil(t) ==
  /\ pc[t] = "probe"
  /\ cleared
  /\ index' = Succ(index)
  /\ pc' = [pc EXCEPT ![t] = "panic"]
  /\ Unlock
  /\ UNCHANGED <<id2ptr, count, ptr2id, cleared, obj, idx>>

\* The target is collected and its finalizer calls remove.
Finalize(t) ==
  /\ pc[t] = "live"
  /\ pc' = [pc EXCEPT ![t] = "remove"]
  /\ UNCHANGED <<store, obj, idx>>

\* remove, the id has other references or no ref at all.
RemoveKeeps(t) ==
  /\ pc[t] = "remove"
  /\ lock = NULL
  /\ Lookup(idx[t]) = NULL \/ OtherRefs(idx[t])
  /\ count' = IF Lookup(idx[t]) = NULL THEN count
              ELSE [count EXCEPT ![idx[t]] = @ - 1]
  /\ pc' = [pc EXCEPT ![t] = "dead"]
  /\ UNCHANGED <<lock, index, id2ptr, ptr2id, cleared, obj, idx>>

\* The last reference: forget the id and let the next search start there.
RemoveLast(t) ==
  /\ pc[t] = "remove"
  /\ lock = NULL
  /\ Lookup(idx[t]) # NULL
  /\ ~OtherRefs(idx[t])
  /\ LET i == idx[t] IN
       /\ id2ptr' = [id2ptr EXCEPT ![i] = NULL]
       /\ ptr2id' = ForgetPtr(i)
       /\ count' = [count EXCEPT ![i] = 0]
       /\ index' = Rewind(i)
  /\ pc' = [pc EXCEPT ![t] = "dead"]
  /\ UNCHANGED <<lock, cleared, obj, idx>>

\* delPtrStore clears the store when its context is freed.
Clear ==
  /\ lock = NULL
  /\ ~cleared
  /\ cleared' = TRUE
  /\ id2ptr' = [i \in Ids |-> NULL]
  /\ ptr2id' = [o \in Objects |-> NULL]
  /\ count' = [i \in Ids |-> 0]
  /\ UNCHANGED <<lock, index, pc, obj, idx>>

\* A panic nobody recovers ends the process: nothing more is promised.
Crashed ==
  /\ \E t \in Targets : pc[t] = "panic"
  /\ UNCHANGED vars

Register(t) == RegisterKnown(t) \/ RegisterNew(t)
Search(t) == Probe(t) \/ Insert(t) \/ InsertIntoNil(t)
Remove(t) == RemoveKeeps(t) \/ RemoveLast(t)

Next ==
  \/ \E t \in Targets, o \in Objects : MakeProxy(t, o)
  \/ \E t \in Targets : Register(t) \/ Search(t) \/ Finalize(t) \/ Remove(t)
  \/ Clear
  \/ Crashed

Spec == Init /\ [][Next]_vars

\* A goroutine that holds the lock runs on.
Fairness == WF_vars(\E t \in Targets : Search(t))

FairSpec == Spec /\ Fairness
-----------------------------------------------------------------------------
\* Types, and the lock belongs to the register that searches.
TypeOK ==
  /\ lock \in Targets \cup {NULL}
  /\ index \in Ids
  /\ id2ptr \in [Ids -> Objects \cup {NULL}]
  /\ count \in [Ids -> Nat]
  /\ ptr2id \in [Objects -> Ids \cup {NULL}]
  /\ cleared \in BOOLEAN
  /\ pc \in [Targets -> PC]
  /\ obj \in [Targets -> Objects \cup {NULL}]
  /\ idx \in [Targets -> Ids]
  /\ \A t \in Targets : pc[t] # "new" => obj[t] \in Objects
  /\ \A t \in Targets : pc[t] = "probe" <=> lock = t

\* The two maps of a ptrStore are inverse to each other, whatever calls
\* have been made: register and remove update them together.
MapsInverse ==
  /\ \A i \in Ids : id2ptr[i] # NULL => ptr2id[id2ptr[i]] = i
  /\ \A o \in Objects : ptr2id[o] # NULL => id2ptr[ptr2id[o]] = o

\* The id a target holds looks up to the target's own object for as long as
\* the target lives (getTargetValue finds what makeProxyObject stored): no
\* removal by another holder and no reuse of ids takes it away.
HandleResolves ==
  ~cleared => \A t \in Targets : Holding(t) => Lookup(idx[t]) = obj[t]

\* An id stays in the table exactly as long as it is held: its count is the
\* number of targets that still have to remove it, and it is never kept
\* without one.
CountExact ==
  \A i \in Ids :
    id2ptr[i] # NULL =>
      /\ count[i] = Cardinality(Holders(i))
      /\ Holders(i) # {}

\* Room for every pointer: the uint32 counter has no reason to wrap.
Capacity == IsFiniteSet(Objects) /\ Cardinality(Objects) < MaxId

\* Ids stay dense: all ids up to s.index are taken, so a search neither wraps
\* nor skips a hole, and no id exceeds the number of pointers there are, not
\* the number of registrations there ever were.
IdsDense ==
  Capacity /\ ~cleared =>
    /\ \A i \in 1 .. index : id2ptr[i] # NULL
    /\ \A i \in Ids : id2ptr[i] # NULL => i \in 1 .. Cardinality(Objects)

\* A new id is the smallest positive one that is free (remove rewinds
\* s.index so that the search restarts at the hole it leaves).
LowestIdFirst ==
  [][ Capacity =>
      \A i \in Ids : id2ptr[i] = NULL /\ id2ptr'[i] # NULL
                       => \A j \in 1 .. i - 1 : id2ptr[j] # NULL ]_vars

\* A search ends (or panics on a cleared store) and releases the lock that every
\* lookup and remove of the store waits for, if ids cannot run out.
SearchEnds == Capacity => (lock # NULL ~> lock = NULL)

\* The store implements the handle service: an owned handle belongs to one
\* object, and is reused only when the last owner is gone.
Service == INSTANCE HandleService WITH
  Handles <- Ids,
  open <- ~cleared,
  handle <- [t \in Targets |-> IF Holding(t) THEN idx[t] ELSE NULL],
  bound <- [t \in Targets |-> IF Holding(t) THEN obj[t] ELSE NULL]

ImplementsHandles == Service!Spec
=============================================================================
