------------------------------ MODULE CtxCache ------------------------------
(***************************************************************************)
(* LoadFileFromCache (helper.go) for one path: the cache of evaluated      *)
(* script files, keyed by path and refreshed when the file's modification  *)
(* time changes.  The calls run under one mutex, so the interleavings that *)
(* matter are with whoever writes the file: between the read and the Stat  *)
(* of a first load, and between the Stat and the read of a reload.         *)
(*                                                                         *)
(* A file's content is the number of the write that made it; a context is  *)
(* the content it has evaluated.  Different paths share only the mutex.    *)
(***************************************************************************)
EXTENDS Integers

CONSTANTS
  Callers,     \* goroutines that call LoadFileFromCache(path, ...)
  MaxVersion,  \* bound on the number of writes of the file
  Broken,      \* versions whose script fails to evaluate
  Mtime,       \* Mtime[v]: the modification time that write v leaves
  NULL         \* no caller, no entry, no result

Versions == 1 .. MaxVersion

ASSUME VersionsAssumption == MaxVersion \in Nat /\ Broken \subseteq Versions
\* Later writes have later or, within the clock's granularity, equal times.
ASSUME MtimeAssumption ==
  /\ Mtime \in [Versions -> Nat]
  /\ \A v, w \in Versions : v <= w => Mtime[v] <= Mtime[w]
ASSUME NullAssumption == NULL \notin Callers

VARIABLES
  written,   \* number of writes so far: the version the file has, if any
  present,   \* the file exists
  lock,      \* the global mutex: the caller that holds it, or NULL
  entry,     \* jsCtxCache[path]: the context's version and mt, or NULL
  pc,        \* where each caller is
  ctx,       \* the version its createJSContext has read
  mt,        \* the modification time its Stat has returned
  result,    \* what its last call returned
  started,   \* history: the version the file had when its call started
  torn       \* history: the entry was first loaded from an older version
             \* than the one whose time it carries

file == <<written, present>>
vars == <<written, present, lock, entry, pc, ctx, mt, result, started, torn>>

Loaded(v, old) == [kind |-> "ctx", version |-> v, existing |-> old]
Failed(k) == [kind |-> k, version |-> 0, existing |-> FALSE]

Init ==
  /\ written = 0
  /\ present = FALSE
  /\ lock = NULL
  /\ entry = NULL
  /\ pc = [g \in Callers |-> "idle"]
  /\ ctx = [g \in Callers |-> 0]
  /\ mt = [g \in Callers |-> 0]
  /\ result = [g \in Callers |-> Failed("none")]
  /\ started = [g \in Callers |-> 0]
  /\ torn = FALSE

-----------------------------------------------------------------------------
(* The file's owner. *)
Write ==
  /\ written < MaxVersion
  /\ written' = written + 1
  /\ present' = TRUE
  /\ UNCHANGED <<lock, entry, pc, ctx, mt, result, started, torn>>

Remove ==
  /\ present
  /\ present' = FALSE
  /\ UNCHANGED <<written, lock, entry, pc, ctx, mt, result, started, torn>>

-----------------------------------------------------------------------------
(* LoadFileFromCache. *)

\* The file can be read and its script evaluates.
Loadable == present /\ written \notin Broken

\* lock.Lock()
LockIgnored == lock \in Callers \cup {NULL}  \* variant: the mutex is not waited for
LockFree == lock = NULL

\* The call returns r and the deferred Unlock runs.
LeakReturn(g, r) ==      \* variant: an exit that keeps the lock
  /\ pc' = [pc EXCEPT ![g] = "idle"]
  /\ result' = [result EXCEPT ![g] = r]
  /\ lock' = IF r.kind = "panic" THEN lock ELSE NULL
Return(g, r) ==
  /\ pc' = [pc EXCEPT ![g] = "idle"]
  /\ result' = [result EXCEPT ![g] = r]
  /\ lock' = NULL

\* The modification time recorded by a reload: jsC.mt = mt.
RestatMt(g) == Mtime[written]    \* variant: that of a Stat after the evaluation
ReloadMt(g) == mt[g]

Call(g) ==
  /\ pc[g] = "idle"
  /\ pc' = [pc EXCEPT ![g] = "lock"]
  /\ started' = [started EXCEPT ![g] = written]
  /\ UNCHANGED <<file, lock, entry, ctx, mt, result, torn>>

\* Lock, then look the path up.
Enter(g) ==
  /\ pc[g] = "lock"
  /\ LockFree
  /\ lock' = g
  /\ pc' = [pc EXCEPT ![g] = IF entry = NULL THEN "create" ELSE "stat"]
  /\ UNCHANGED <<file, entry, ctx, mt, result, started, torn>>

\* createJSContext reads and evaluates the file: of a path without an entry
\* (a Stat follows), or again for a changed one.
CreateFails(g) ==
  /\ pc[g] \in {"create", "reload"}
  /\ ~Loadable
  /\ Return(g, Failed("error"))
  /\ UNCHANGED <<file, entry, ctx, mt, started, torn>>

Create(g) ==
  /\ pc[g] \in {"create", "reload"}
  /\ Loadable
  /\ ctx' = [ctx EXCEPT ![g] = written]
  /\ pc' = [pc EXCEPT ![g] = IF pc[g] = "create" THEN "created" ELSE "reloaded"]
  /\ UNCHANGED <<file, lock, entry, mt, result, started, torn>>

\* jsC.jsvm = ctx; jsC.mt = mt
Update(g) ==
  /\ pc[g] = "reloaded"
  /\ entry' = [version |-> ctx[g], mt |-> ReloadMt(g)]
  /\ torn' = FALSE
  /\ Return(g, Loaded(ctx[g], FALSE))
  /\ UNCHANGED <<file, ctx, mt, started>>

\* fi, _ := os.Stat(path), then fi.ModTime(): the file has gone, fi is nil.
StatPanics(g) ==
  /\ pc[g] = "created"
  /\ ~present
  /\ Return(g, Failed("panic"))
  /\ UNCHANGED <<file, entry, ctx, mt, started, torn>>

Store(g) ==
  /\ pc[g] = "created"
  /\ present
  /\ entry' = [version |-> ctx[g], mt |-> Mtime[written]]
  /\ torn' = (ctx[g] # written)
  /\ Return(g, Loaded(ctx[g], FALSE))
  /\ UNCHANGED <<file, ctx, mt, started>>

\* Stat of a path that has an entry.
StatFails(g) ==
  /\ pc[g] = "stat"
  /\ ~present
  /\ Return(g, Failed("error"))
  /\ UNCHANGED <<file, entry, ctx, mt, started, torn>>

Hit(g) ==
  /\ pc[g] = "stat"
  /\ present
  /\ entry.mt = Mtime[written]
  /\ Return(g, Loaded(entry.version, TRUE))
  /\ UNCHANGED <<file, entry, ctx, mt, started, torn>>

Miss(g) ==
  /\ pc[g] = "stat"
  /\ present
  /\ entry.mt # Mtime[written]
  /\ mt' = [mt EXCEPT ![g] = Mtime[written]]
  /\ pc' = [pc EXCEPT ![g] = "reload"]
  /\ UNCHANGED <<file, lock, entry, ctx, result, started, torn>>

Step(g) ==
  \/ CreateFails(g) \/ Create(g) \/ Update(g) \/ StatPanics(g) \/ Store(g)
  \/ StatFails(g) \/ Hit(g) \/ Miss(g)

Next ==
  \/ Write \/ Remove
  \/ \E g \in Callers : Call(g) \/ Enter(g) \/ Step(g)

Spec == Init /\ [][Next]_vars

\* The holder of the lock runs on (scripts terminate), and Go's mutex does
\* not starve a waiter.  Nothing is assumed of the writer or of new calls.
FairSpec ==
  /\ Spec
  /\ \A g \in Callers : WF_vars(Step(g)) /\ SF_vars(Enter(g))
-----------------------------------------------------------------------------
Results == [kind : {"none", "ctx", "error", "panic"},
            version : 0 .. MaxVersion, existing : BOOLEAN]

\* Types, and the mutex is held exactly over the body of a call.
TypeOK ==
  /\ written \in 0 .. MaxVersion
  /\ present \in BOOLEAN
  /\ lock \in Callers \cup {NULL}
  /\ entry = NULL \/ entry \in [version : Versions, mt : Nat]
  /\ pc \in [Callers -> {"idle", "lock", "create", "created", "stat", "reload", "reloaded"}]
  /\ ctx \in [Callers -> 0 .. MaxVersion]
  /\ mt \in [Callers -> Nat]
  /\ result \in [Callers -> Results]
  /\ started \in [Callers -> 0 .. MaxVersion]
  /\ torn \in BOOLEAN
  /\ \A g \in Callers : lock = g <=> pc[g] \in {"create", "created", "stat", "reload", "reloaded"}

\* A call never returns a context of a version that was already replaced
\* when it started, with two exceptions: the replacing writes fall within
\* the granularity of the modification time, or the entry was torn when the
\* path was first loaded.  In particular a reload heals a torn entry, and a
\* write during a reload is noticed by the next call.
Regular ==
  [][ \A g \in Callers :
        pc[g] # "idle" /\ pc'[g] = "idle" /\ result'[g].kind = "ctx"
          => LET v == result'[g].version IN
             \/ v >= started[g]
             \/ torn /\ result'[g].existing
             \/ v > 0 /\ Mtime[v] = Mtime[started[g]] ]_vars

\* The cached version never goes back, and a failed load (the file is gone,
\* its script fails, Stat panics) leaves the entry as it was.
NoStepBack ==
  [][ entry' # entry =>
        /\ entry = NULL \/ entry'.version >= entry.version
        /\ entry'.version \notin Broken
        /\ \E g \in Callers : result'[g] = Loaded(entry'.version, FALSE) ]_vars

\* The time an entry carries is never later than that of its content unless
\* it is torn: a change that came after the content is still to be seen.
NeverAhead == entry # NULL /\ ~torn => entry.mt <= Mtime[entry.version]

\* Every call returns, whatever the file does and even after a panic.
CallsReturn == \A g \in Callers : pc[g] # "idle" ~> pc[g] = "idle"
=============================================================================
