------------------------------ MODULE CtxLocks ------------------------------
(***************************************************************************)
(* The mutexes over the engine: ctx.mu of every JsContext, which Eval,     *)
(* CallFunc, GetGlobal, BindFunc and bound functions hold while they run   *)
(* scripts (context.go, wrapFunc in js-func.go), and the mutex of the      *)
(* cache, which LoadFileFromCache holds while it evaluates a file          *)
(* (helper.go).  A script may call Go functions, and those may call all of *)
(* these again; Go's mutexes are not re-entrant.  The closures of          *)
(* fromJsFunc take no mutex.                                               *)
(*                                                                         *)
(* Mutexes that are only held over code that cannot block (globalMu, those *)
(* of the ptrStores and of their registry) are left out.  What the default *)
(* contexts do to their common heap is not excluded by any mutex and not   *)
(* modelled here either.                                                   *)
(***************************************************************************)
EXTENDS Integers, Sequences

CONSTANTS
  Threads,   \* goroutines
  MaxCtx,    \* number of JsContexts
  Existing,  \* those that exist at first; the cache makes the others
  MaxDepth,  \* bound on the depth of nested calls
  NULL       \* no goroutine

\* A mutex is named by the context it belongs to; Cache is that of the cache.
Ctxs == 1 .. MaxCtx
Cache == 0
Mutexes == Ctxs \cup {Cache}

ASSUME CtxAssumption == MaxCtx \in Nat /\ Existing \subseteq Ctxs
ASSUME BoundAssumption == MaxDepth \in Nat
ASSUME ThreadsAssumption == NULL \notin Threads

VARIABLES
  holder,   \* holder[m]: the goroutine that has locked m, or NULL
  stack,    \* stack[t]: t's calls of the package, innermost last
  known,    \* the contexts that goroutines can call
  made,     \* the contexts that NewContext has made
  escaped   \* the contexts of which Go has a closure (fromJsFunc)

vars == <<holder, stack, known, made, escaped>>

\* A call: what it is, the mutex of what it is called on (which a closure
\* does not lock), how far it is, and the context a load makes.
Frame(k, m, s) == [kind |-> k, mutex |-> m, stage |-> s, new |-> 0]
Top(t) == stack[t][Len(stack[t])]
At(t, k, s) == stack[t] # <<>> /\ Top(t).kind = k /\ Top(t).stage = s
Below(t) == SubSeq(stack[t], 1, Len(stack[t]) - 1)

Init ==
  /\ holder = [m \in Mutexes |-> NULL]
  /\ stack = [t \in Threads |-> <<>>]
  /\ known = Existing
  /\ made = Existing
  /\ escaped = {}

-----------------------------------------------------------------------------
\* t runs the program's Go code: at top level, or a function that a script
\* calls.
InGo(t) == Len(stack[t]) < MaxDepth /\ ~(stack[t] # <<>> /\ Top(t).stage # "script")

Push(t, f) == stack' = [stack EXCEPT ![t] = Append(@, f)]
Pop(t) == stack' = [stack EXCEPT ![t] = Below(t)]
Stage(t, s) == stack' = [stack EXCEPT ![t] = Append(Below(t), [Top(t) EXCEPT !.stage = s])]

\* mu.Lock() and the deferred mu.Unlock()
AlwaysFree(m) == TRUE         \* variant: the call does not lock
Free(m) == holder[m] = NULL
LeakLock(m) == holder         \* variant: a return forgets the unlock
Unlock(m) == [holder EXCEPT ![m] = NULL]

\* Eval, CallFunc, GetGlobal, BindFunc or a bound function of context c.
CallMethod(t, c) ==
  /\ InGo(t) /\ c \in known
  /\ Push(t, Frame("method", c, "lock"))
  /\ UNCHANGED <<holder, known, made, escaped>>

\* A closure of fromJsFunc.
CallClosure(t, c) ==
  /\ InGo(t) /\ c \in escaped
  /\ Push(t, Frame("closure", c, "script"))
  /\ UNCHANGED <<holder, known, made, escaped>>

\* LoadFileFromCache
CallLoad(t) ==
  /\ InGo(t)
  /\ Push(t, Frame("load", Cache, "lock"))
  /\ UNCHANGED <<holder, known, made, escaped>>

\* The mutex is granted, and a method's script begins to run.
Lock(t) ==
  /\ stack[t] # <<>> /\ Top(t).stage = "lock"
  /\ Free(Top(t).mutex)
  /\ holder' = [holder EXCEPT ![Top(t).mutex] = t]
  /\ Stage(t, IF Top(t).kind = "load" THEN "find" ELSE "script")
  /\ UNCHANGED <<known, made, escaped>>

\* The script hands a function to Go.
Escape(t) ==
  /\ At(t, "method", "script") \/ At(t, "closure", "script")
  /\ escaped' = escaped \cup {Top(t).mutex}
  /\ UNCHANGED <<holder, stack, known, made>>

\* The script is over, normally or not, and the method returns.
ReturnMethod(t) ==
  /\ At(t, "method", "script")
  /\ holder' = Unlock(Top(t).mutex)
  /\ Pop(t)
  /\ UNCHANGED <<known, made, escaped>>

ReturnClosure(t) ==
  /\ At(t, "closure", "script")
  /\ Pop(t)
  /\ UNCHANGED <<holder, known, made, escaped>>

\* The path is cached and unchanged, or its Stat fails.
ReturnCached(t) ==
  /\ At(t, "load", "find")
  /\ holder' = Unlock(Cache)
  /\ Pop(t)
  /\ UNCHANGED <<known, made, escaped>>

\* createJSContext: a new context, and the call of its EvalFile.
CreateContext(t, c) ==
  /\ At(t, "load", "find")
  /\ c \notin made
  /\ Len(stack[t]) < MaxDepth
  /\ made' = made \cup {c}
  /\ stack' = [stack EXCEPT ![t] =
       Below(t) \o <<[Top(t) EXCEPT !.stage = "eval", !.new = c], Frame("method", c, "lock")>>]
  /\ UNCHANGED <<holder, known, escaped>>

\* EvalFile has returned, and so is the context (also, uncached, if it has
\* failed: LoadFileFromCache returns it with the error).
ReturnCreated(t) ==
  /\ At(t, "load", "eval")
  /\ known' = known \cup {Top(t).new}
  /\ holder' = Unlock(Cache)
  /\ Pop(t)
  /\ UNCHANGED <<made, escaped>>

Return(t) == ReturnMethod(t) \/ ReturnClosure(t) \/ ReturnCached(t) \/ ReturnCreated(t)

Next ==
  \E t \in Threads :
    \/ \E c \in Ctxs : CallMethod(t, c) \/ CallClosure(t, c) \/ CreateContext(t, c)
    \/ CallLoad(t) \/ Lock(t) \/ Escape(t) \/ Return(t)

Spec == Init /\ [][Next]_vars

\* Every script is over after finitely many calls of its own (so each depth
\* returns in the end), a load goes on, and Go's mutexes do not starve a
\* waiter.
FairSpec ==
  /\ Spec
  /\ \A t \in Threads :
       /\ SF_vars(Lock(t))
       /\ \A d \in 1 .. MaxDepth : SF_vars(Len(stack[t]) = d /\ Return(t))
-----------------------------------------------------------------------------
Frames == [kind : {"method", "closure", "load"}, mutex : Mutexes,
           stage : {"lock", "find", "eval", "script"}, new : Ctxs \cup {0}]
Holds(f) == f.kind # "closure" /\ f.stage # "lock"
Calls(t) == 1 .. Len(stack[t])

\* Types, and a mutex is held exactly over one call that has locked it.
TypeOK ==
  /\ holder \in [Mutexes -> Threads \cup {NULL}]
  /\ stack \in [Threads -> Seq(Frames)]
  /\ known \subseteq made /\ made \subseteq Ctxs /\ escaped \subseteq made
  /\ \A t \in Threads, m \in Mutexes :
       holder[m] = t <=> \E k \in Calls(t) : stack[t][k].mutex = m /\ Holds(stack[t][k])

\* Two goroutines are in the engine of one context at once only if one of
\* them has come through a closure; a callback may re-enter it.
EngineExclusive ==
  \A t, u \in Threads : \A j \in Calls(t), k \in Calls(u) :
    LET f == stack[t][j]  g == stack[u][k] IN
    t # u /\ f.mutex = g.mutex /\ f.stage = "script" /\ g.stage = "script"
      => "closure" \in {f.kind, g.kind}

Waits(t) == stack[t] # <<>> /\ Top(t).stage = "lock"

\* Goroutines that wait for each other, or for themselves, for ever.
Deadlocked(S) == S # {} /\ \A t \in S : Waits(t) /\ holder[Top(t).mutex] \in S

\* Every goroutine locks in ascending order, the cache first: its scripts
\* call no load, and only methods of higher contexts.
Ascending ==
  \A t \in Threads : \A j, k \in Calls(t) :
    j < k /\ stack[t][j].kind # "closure" /\ stack[t][k].kind # "closure"
      => stack[t][j].mutex < stack[t][k].mutex

\* What a program has to do to be safe from deadlock, whatever it does with
\* closures and contexts that it loads.
AscendingIsSafe == Ascending => \A S \in SUBSET Threads : ~Deadlocked(S)

\* Without callbacks into the package nothing blocks for ever: in every
\* deadlock some script has called Go code that called the package again.
DeadlockNeedsCallback ==
  \A S \in SUBSET Threads :
    Deadlocked(S) => \E t \in S : \E k \in Calls(t) :
                       k < Len(stack[t]) /\ stack[t][k].stage = "script"

\* In such a program every call returns.
CallsReturn == []Ascending => \A t \in Threads : stack[t] # <<>> ~> stack[t] = <<>>
=============================================================================
