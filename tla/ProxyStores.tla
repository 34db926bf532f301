---------------------------- MODULE ProxyStores ----------------------------
(***************************************************************************)
(* The ptrStores of all contexts.  InitPtrStore (go-ptr-id.go) keys them   *)
(* by the C address of the duktape context that runs, so what a proxy      *)
(* resolves to depends on the context that asks, on which context owned    *)
(* the address before, on the thread that finalizers run on, and on the    *)
(* coroutine (Duktape.Thread) the script runs in: a coroutine is a duktape *)
(* context with an address of its own.                                     *)
(*                                                                         *)
(* A default context is a thread of globalHeap: it shares the global       *)
(* object with every other default context, and its thread is never        *)
(* popped, so its address is never free again.  An isolated context has a  *)
(* heap of its own, which freeJsContext destroys, and its address returns  *)
(* to malloc.  Within a store, register issues the smallest free positive  *)
(* id (PtrStore, theorem LowestFirst), and every proxy registers a pointer *)
(* of its own (&v), so that ids stand for proxies.                         *)
(*                                                                         *)
(* freeJsContext is a Go finalizer: it may run as soon as no Go code uses  *)
(* the JsContext any more.  The methods use it only to lock its mutex and  *)
(* to copy its address, so it may also run while their script runs.  And   *)
(* the closures that fromJsFunc makes keep the address only: on a default  *)
(* context, whose thread stays, they may still be called afterwards.       *)
(***************************************************************************)
EXTENDS Integers, FiniteSets

CONSTANTS
  Ctxs,        \* JsContexts
  Addrs,       \* addresses malloc can give to a duktape context
  GlobalHeap,  \* the address of globalHeap: heap_thread of the default contexts
  Proxies,     \* proxies made by makeProxyObject
  NULL         \* no address, no store, no proxy, no context

\* Every deletion of a store allows one more creation at each address.
Stores == 1 .. Cardinality(Addrs) + 1 + Cardinality(Ctxs)
Ids == 1 .. Cardinality(Proxies)
Empty == [i \in Ids |-> NULL]

ASSUME FiniteAssumption == IsFiniteSet(Ctxs) /\ IsFiniteSet(Addrs) /\ IsFiniteSet(Proxies)
ASSUME DistinctAssumption ==
  /\ GlobalHeap \notin Addrs
  /\ NULL \notin Ctxs \cup Addrs \cup {GlobalHeap} \cup Proxies \cup Stores \cup Ids

VARIABLES
  phase,    \* phase[c]: "none", "live", "destroyed" (duk_destroy_heap done), "freed"
  shared,   \* c.withGlobalHeap
  addr,     \* c.c
  coOf,     \* coOf[a]: the context whose script made the coroutine at address a,
            \* NULL if there is none
  reached,  \* the threads, not a context's own, on which a lookup has found a
            \* Go value: the Go code that the trap enters may make proxies there
  storeAt,  \* the map stores: address -> ptrStore, NULL if it has no entry
  made,     \* how many ptrStores newPtrStore has made
  table,    \* table[s][i]: the proxy that id i of ptrStore s stands for
  nil,      \* the ptrStores that have been cleared
  pc,       \* pc[p]: "none", "register", "live", "dead", "lost" (its finalizer
            \* was refused), "panic", "crash"
  maker,    \* the context that makes p, on its own thread or on a coroutine
  home,     \* the address of that thread
  ptr,      \* makeProxyObject's local ptr
  idx,      \* p's hidden idx property
  calls,    \* contexts in which a method runs (Eval, CallFunc, a bound function)
            \* or a closure made by fromJsFunc
  reused,   \* history: contexts that were given, for themselves or for a
            \* coroutine, an address whose store was not empty or not yet deleted
  cut,      \* history: contexts freed while a method ran
  late      \* history: contexts whose closures were called after freeJsContext

ctxVars == <<phase, shared, addr, coOf, reached, calls, reused, cut, late>>
storeVars == <<storeAt, made, table, nil>>
proxyVars == <<pc, maker, home, ptr, idx>>
vars == <<phase, shared, addr, coOf, reached, calls, reused, cut, late,
          storeAt, made, table, nil, pc, maker, home, ptr, idx>>

Init ==
  /\ phase = [c \in Ctxs |-> "none"]
  /\ shared = [c \in Ctxs |-> FALSE]
  /\ addr = [c \in Ctxs |-> NULL]
  /\ coOf = [a \in Addrs |-> NULL]
  /\ reached = {}
  /\ storeAt = [a \in Addrs \cup {GlobalHeap} |-> NULL]
  /\ made = 0
  /\ table = [s \in Stores |-> Empty]
  /\ nil = {}
  /\ pc = [p \in Proxies |-> "none"]
  /\ maker = [p \in Proxies |-> NULL]
  /\ home = [p \in Proxies |-> NULL]
  /\ ptr = [p \in Proxies |-> NULL]
  /\ idx = [p \in Proxies |-> NULL]
  /\ calls = {}
  /\ reused = {}
  /\ cut = {}
  /\ late = {}

-----------------------------------------------------------------------------
\* The store getPtrStore(a) returns, and its effect: a missing one is made.
StoreOf(a) == IF storeAt[a] # NULL THEN storeAt[a] ELSE made + 1
GetPtrStore(a) ==
  /\ storeAt' = [storeAt EXCEPT ![a] = StoreOf(a)]
  /\ made' = IF storeAt[a] # NULL THEN made ELSE made + 1

\* The id that ptrStore.register issues: the smallest free one.
FreshId(s) ==
  CHOOSE i \in Ids : table[s][i] = NULL /\ \A j \in Ids : j < i => table[s][j] # NULL

\* getTargetValue: what a proxy trap or a conversion that runs on the thread
\* at address a finds for p, NULL if it finds nothing, and whether it does.
TargetAt(a, p) == IF storeAt[a] = NULL THEN NULL ELSE table[storeAt[a]][idx[p]]
AlwaysFound(a, p) == TRUE \* variant: that the target has an idx is enough
Found(a, p) == TargetAt(a, p) # NULL
Target(c, p) == TargetAt(addr[c], p)

\* The address a finalizer runs on: that of the heap's first thread.
OwnThread(c) == addr[c]       \* variant: the thread of the context that made the proxy
GlobalThread(c) == GlobalHeap \* variant: one thread finalizes for all heaps
FinalizerThread(c) == IF shared[c] THEN GlobalHeap ELSE addr[c]

\* The address freeJsContext gives to delPtrStore.
HeapKey(c) == FinalizerThread(c) \* variant: the store of the heap's first thread
FreedKey(c) == addr[c]

\* delete(stores, ctx)
KeepEntry(a) == storeAt \* variant: the cleared store stays in the map
DropEntry(a) == [storeAt EXCEPT ![a] = NULL]

\* Addresses that malloc cannot return, and those with something of an
\* earlier owner left: entries, or a delPtrStore that is still to come.
HeldAddrs ==
  {addr[c] : c \in {d \in Ctxs : phase[d] = "live" \/ (shared[d] /\ phase[d] # "none")}}
    \cup {a \in Addrs : coOf[a] # NULL}
Stale(a) ==
  \/ \E d \in Ctxs : phase[d] = "destroyed" /\ addr[d] = a
  \/ storeAt[a] # NULL /\ table[storeAt[a]] # Empty

\* Contexts with the same heap, and the proxies that code of c can reach.
SameHeap(c, d) == c = d \/ (shared[c] /\ shared[d])
Reaches(c, p) == SameHeap(c, maker[p])

\* A method runs on c, and is not inside makeProxyObject (c.mu is held).
InScript(c) == c \in calls /\ \A p \in Proxies : pc[p] = "register" => maker[p] # c
OnHeap(c) == \E d \in Ctxs : InScript(d) /\ SameHeap(c, d)

\* Code of c runs on the thread at address a: on c's own thread, on a
\* coroutine that c has made (a global object can bring it to any context of
\* the heap), or in a JS finalizer on the first thread of globalHeap.
RunsOn(c, a) ==
  \/ a = addr[c] /\ InScript(c)
  \/ a \in Addrs /\ coOf[a] = c /\ OnHeap(c)
  \/ a = GlobalHeap /\ shared[c] /\ OnHeap(c)

LivesIn(c) == {p \in Proxies : pc[p] = "live" /\ maker[p] = c}

-----------------------------------------------------------------------------
\* NewContext, as a thread of globalHeap (g) or with a heap of its own.
NewContext(c, g, a) ==
  /\ phase[c] = "none"
  /\ a \notin HeldAddrs
  /\ phase' = [phase EXCEPT ![c] = "live"]
  /\ shared' = [shared EXCEPT ![c] = g]
  /\ addr' = [addr EXCEPT ![c] = a]
  /\ reused' = IF Stale(a) THEN reused \cup {c} ELSE reused
  /\ UNCHANGED <<coOf, reached, calls, cut, late, storeVars, proxyVars>>

\* A script of c calls new Duktape.Thread; the coroutine is collected, by
\* whatever runs on its heap, when nothing runs on it.
NewCoroutine(c, a) ==
  /\ InScript(c)
  /\ a \notin HeldAddrs
  /\ coOf' = [coOf EXCEPT ![a] = c]
  /\ reused' = IF Stale(a) THEN reused \cup {c} ELSE reused
  /\ UNCHANGED <<phase, shared, addr, reached, calls, cut, late, storeVars, proxyVars>>

FreeCoroutine(a) ==
  /\ coOf[a] # NULL
  /\ shared[coOf[a]] \/ InScript(coOf[a])
  /\ \A p \in Proxies : pc[p] = "register" => home[p] # a
  /\ coOf' = [coOf EXCEPT ![a] = NULL]
  /\ reached' = reached \ {a}
  /\ UNCHANGED <<phase, shared, addr, calls, reused, cut, late, storeVars, proxyVars>>

\* A method is called, or a closure that fromJsFunc made on c, which on a
\* default context may happen at any time later, and returns.
EnterMethod(c) ==
  /\ phase[c] = "live" \/ (shared[c] /\ phase[c] # "none")
  /\ c \notin calls
  /\ calls' = calls \cup {c}
  /\ late' = IF phase[c] = "live" THEN late ELSE late \cup {c}
  /\ UNCHANGED <<phase, shared, addr, coOf, reached, reused, cut, storeVars, proxyVars>>

LeaveMethod(c) ==
  /\ InScript(c)
  /\ calls' = calls \ {c}
  /\ UNCHANGED <<phase, shared, addr, coOf, reached, reused, cut, late, storeVars, proxyVars>>

\* makeProxyObject on the thread at a: ptr := getPtrStore(ctx).  Every call of
\* it is made for a method or closure, on the context's own thread (setEnv,
\* callFunc, callJsFuncFromGo), or by a trap after a lookup that succeeded on
\* the same thread (go_obj_get, go_func_apply).
MakeProxyObject(p, c, a) ==
  /\ pc[p] = "none"
  /\ RunsOn(c, a)
  /\ a = addr[c] \/ a \in reached
  /\ GetPtrStore(a)
  /\ ptr' = [ptr EXCEPT ![p] = StoreOf(a)]
  /\ pc' = [pc EXCEPT ![p] = "register"]
  /\ maker' = [maker EXCEPT ![p] = c]
  /\ home' = [home EXCEPT ![p] = a]
  /\ UNCHANGED <<ctxVars, table, nil, idx>>

\* Its second half: idx := ptr.register(&v), stored in the target.
RegisterTarget(p) ==
  /\ pc[p] = "register"
  /\ ptr[p] \notin nil
  /\ idx' = [idx EXCEPT ![p] = FreshId(ptr[p])]
  /\ table' = [table EXCEPT ![ptr[p]][idx'[p]] = p]
  /\ pc' = [pc EXCEPT ![p] = "live"]
  /\ UNCHANGED <<ctxVars, storeAt, made, nil, maker, home, ptr>>

\* The store was cleared in between: register writes to a nil map.
RegisterPanics(p) ==
  /\ pc[p] = "register"
  /\ ptr[p] \in nil
  /\ pc' = [pc EXCEPT ![p] = "panic"]
  /\ UNCHANGED <<ctxVars, storeVars, maker, home, ptr, idx>>

\* A trap of p runs on the thread at a, or p is converted there
\* (getTargetValue): the lookup makes the store of a thread that has none.
Access(p, c, a) ==
  /\ pc[p] = "live"
  /\ RunsOn(c, a)
  /\ Reaches(c, p)
  /\ GetPtrStore(a)
  /\ reached' = IF a # addr[c] /\ Found(a, p) THEN reached \cup {a} ELSE reached
  /\ UNCHANGED <<phase, shared, addr, coOf, calls, reused, cut, late, table, nil, proxyVars>>

\* p's target is collected, by whatever runs on its heap: freeTarget.
FreeTarget(p) ==
  /\ pc[p] = "live"
  /\ shared[maker[p]] \/ InScript(maker[p])
  /\ LET a == FinalizerThread(maker[p]) IN
       /\ GetPtrStore(a)
       /\ table' = [table EXCEPT ![StoreOf(a)][idx[p]] = NULL]
  /\ pc' = [pc EXCEPT ![p] = "dead"]
  /\ UNCHANGED <<ctxVars, nil, maker, home, ptr, idx>>

\* The engine refuses the call of the finalizer, as it does inside a coroutine
\* of an isolated context and at the limit of nested calls (Calls, property
\* FinalizersRun), and frees the target all the same.
RefuseFinalizer(p) ==
  /\ pc[p] = "live"
  /\ shared[maker[p]] \/ InScript(maker[p])
  /\ pc' = [pc EXCEPT ![p] = "lost"]
  /\ UNCHANGED <<ctxVars, storeVars, maker, home, ptr, idx>>

\* freeJsContext of a default context: its thread and its proxies stay.
LeaveHeap(c) ==
  /\ phase[c] = "live" /\ shared[c]
  /\ phase' = [phase EXCEPT ![c] = "destroyed"]
  /\ cut' = IF c \in calls THEN cut \cup {c} ELSE cut
  /\ UNCHANGED <<shared, addr, coOf, reached, calls, reused, late, storeVars, proxyVars>>

\* freeJsContext of an isolated context: duk_destroy_heap runs the
\* finalizers of all its proxies and gives its address, and those of its
\* coroutines, back to malloc.  A method that runs on it is lost.
DestroyHeap(c) ==
  /\ phase[c] = "live" /\ ~shared[c]
  /\ phase' = [phase EXCEPT ![c] = "destroyed"]
  /\ IF LivesIn(c) = {}
     THEN UNCHANGED storeVars
     ELSE /\ GetPtrStore(addr[c])
          /\ table' = [table EXCEPT ![StoreOf(addr[c])] =
                         [i \in Ids |-> IF i \in {idx[p] : p \in LivesIn(c)} THEN NULL ELSE @[i]]]
          /\ UNCHANGED nil
  /\ pc' = [p \in Proxies |-> IF p \in LivesIn(c) THEN "dead"
                              ELSE IF pc[p] = "register" /\ maker[p] = c THEN "crash" ELSE pc[p]]
  /\ coOf' = [a \in Addrs |-> IF coOf[a] = c THEN NULL ELSE coOf[a]]
  /\ reached' = {a \in reached : a \in Addrs => coOf[a] # c}
  /\ calls' = calls \ {c}
  /\ cut' = IF c \in calls THEN cut \cup {c} ELSE cut
  /\ UNCHANGED <<shared, addr, reused, late, maker, home, ptr, idx>>

\* The end of freeJsContext: delPtrStore(c) clears and forgets the store
\* that the address has now.
DelPtrStore(c) ==
  /\ phase[c] = "destroyed"
  /\ phase' = [phase EXCEPT ![c] = "freed"]
  /\ LET a == FreedKey(c) IN
       /\ IF storeAt[a] = NULL
          THEN UNCHANGED <<table, nil>>
          ELSE /\ table' = [table EXCEPT ![storeAt[a]] = Empty]
               /\ nil' = nil \cup {storeAt[a]}
       /\ storeAt' = DropEntry(a)
  /\ UNCHANGED <<shared, addr, coOf, reached, calls, reused, cut, late, made, proxyVars>>

Next ==
  \/ \E c \in Ctxs, g \in BOOLEAN, a \in Addrs : NewContext(c, g, a)
  \/ \E c \in Ctxs, a \in Addrs : NewCoroutine(c, a)
  \/ \E a \in Addrs : FreeCoroutine(a)
  \/ \E p \in Proxies, c \in Ctxs, a \in Addrs \cup {GlobalHeap} :
       MakeProxyObject(p, c, a) \/ Access(p, c, a)
  \/ \E p \in Proxies : RegisterTarget(p) \/ RegisterPanics(p)
  \/ \E p \in Proxies : FreeTarget(p) \/ RefuseFinalizer(p)
  \/ \E c \in Ctxs : EnterMethod(c) \/ LeaveMethod(c)
  \/ \E c \in Ctxs : LeaveHeap(c) \/ DestroyHeap(c) \/ DelPtrStore(c)

Spec == Init /\ [][Next]_vars
-----------------------------------------------------------------------------
TypeOK ==
  /\ phase \in [Ctxs -> {"none", "live", "destroyed", "freed"}]
  /\ shared \in [Ctxs -> BOOLEAN]
  /\ addr \in [Ctxs -> Addrs \cup {NULL}]
  /\ \A c \in Ctxs : phase[c] # "none" => addr[c] \in Addrs
  /\ coOf \in [Addrs -> Ctxs \cup {NULL}]
  /\ reached \subseteq Addrs
  /\ storeAt \in [Addrs \cup {GlobalHeap} -> Stores \cup {NULL}]
  /\ made \in 0 .. Cardinality(Stores)
  /\ table \in [Stores -> [Ids -> Proxies \cup {NULL}]]
  /\ nil \subseteq 1 .. made
  /\ pc \in [Proxies -> {"none", "register", "live", "dead", "lost", "panic", "crash"}]
  /\ maker \in [Proxies -> Ctxs \cup {NULL}]
  /\ home \in [Proxies -> Addrs \cup {NULL}]
  /\ ptr \in [Proxies -> Stores \cup {NULL}]
  /\ idx \in [Proxies -> Ids \cup {NULL}]
  /\ \A p \in Proxies : pc[p] \in {"live", "dead", "lost"} => idx[p] \in Ids
  /\ calls \subseteq {c \in Ctxs : phase[c] = "live" \/ (shared[c] /\ c \in cut \cup late)}
  /\ reused \subseteq Ctxs /\ cut \subseteq Ctxs /\ late \subseteq Ctxs

\* While its maker lives, a proxy resolves to its own Go value on the maker's
\* thread, whatever other contexts, coroutines and finalizers do, unless the
\* maker was given an address whose earlier owner was still being freed.
OwnProxyResolves ==
  \A p \in Proxies :
    pc[p] = "live" /\ phase[maker[p]] = "live" /\ maker[p] \notin reused
      => Target(maker[p], p) = p

\* The store of an isolated context holds its live proxies, and those whose
\* finalizer the engine refused, and nothing else: whatever thread a target
\* is used and finalized on, no other Go value is left behind.
IsolatedReclaims ==
  \A c \in Ctxs :
    phase[c] = "live" /\ ~shared[c] /\ c \notin reused /\ storeAt[addr[c]] # NULL
      => {p \in Proxies : \E i \in Ids : table[storeAt[addr[c]]][i] = p}
           = {p \in Proxies : maker[p] = c /\ pc[p] \in {"live", "lost"}}

\* A default context's store forgets no proxy before the context is freed:
\* finalizers run on globalHeap and remove the id from another store.
SharedKeeps ==
  \A p \in Proxies :
    pc[p] \in {"live", "dead", "lost"} /\ shared[maker[p]]
      /\ phase[maker[p]] = "live" /\ maker[p] \notin reused
      => Target(maker[p], p) = p

\* No Go value can be reached from a coroutine, nor from a JS finalizer of a
\* default context: getTargetValue asks the store of the running thread, and
\* only a lookup that succeeds there could fill it (go-proxy-value.go:107).
CoroutinesReachNothing == \A a \in reached : a \in Addrs /\ coOf[a] \in reused

\* A store that no freeJsContext will delete any more, such as one that a
\* lookup has made for a coroutine or a late finalizer for globalHeap, holds
\* no Go value, except of contexts that were freed while a method ran on
\* them, used afterwards, or given the address of one still being freed.
LeftStoresAreEmpty ==
  \A a \in Addrs \cup {GlobalHeap}, i \in Ids :
    storeAt[a] # NULL /\ table[storeAt[a]][i] # NULL =>
      \/ \E c \in Ctxs : addr[c] = a /\ phase[c] \in {"live", "destroyed"}
      \/ maker[table[storeAt[a]][i]] \in reused \cup cut \cup late

\* A registration never meets a cleared store, except on a context that was
\* freed meanwhile, used afterwards, or given the address of one still being
\* freed.
PanicNeedsFree == \A p \in Proxies : pc[p] = "panic" => maker[p] \in reused \cup cut \cup late

\* README.md, "calling `EvalFile` with a map as env will make Golang
\* functions as Javascript global functions": the script that is evaluated
\* finds them until EvalFile returns, also if (as in the example) the Go
\* program does not use the context afterwards.
EnvLastsTheCall ==
  \A p \in Proxies :
    pc[p] = "live" /\ maker[p] \in calls \ (reused \cup late) => Target(maker[p], p) = p
=============================================================================
