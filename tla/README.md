# A verification of dukgo

TLA+ models of dukgo, the Go binding of the Duktape JavaScript engine, with
TLC configurations that check them on small instances and TLAPS proofs for
every size. The modules translate the source (paths below are relative to
`src/`). Most of them are about the package itself; three are about the parts
of the vendored engine (`duktape.c`) that the package's own correctness hangs
on: when finalizers run, when memory is freed, and what an error or a coroutine
switch leaves behind.

Contents: [the system](#1-the-system), [the modules](#2-the-modules),
[runs and bounds](#3-runs-bounds-and-what-they-show),
[disagreements](#4-where-code-and-documentation-disagree),
[fairness](#5-fairness), [proofs](#6-proofs),
[what is not modelled](#7-what-is-not-modelled), [plan](#8-plan).

## 1. The system

A Go program makes `JsContext`s, evaluates scripts in them, puts Go values
into their environment and takes values and functions out. Go values are seen
by JavaScript as proxies, JavaScript functions by Go as closures; each side
holds a number that stands for an object of the other side, and most of what
can go wrong is a number that outlives, or is confused with, what it stood for.

| component | code | state | operations |
|---|---|---|---|
| pointer store | `go-ptr-id.go:53-122` | two maps, counts, the next id, a lock | register, lookup, remove, clear |
| store registry, contexts | `go-ptr-id.go:8-43`, `context.go` | stores by context address; contexts; the one global heap | NewContext, getPtrStore, delPtrStore, freeJsContext |
| proxies | `go-proxy-value.go` | targets with a hidden id and a finalizer | makeProxyObject, getTargetValue, freeTarget, traps |
| entry points | `context.go`, `js-func.go:23-34` | a mutex per context | Eval, EvalFile, GetGlobal, CallFunc, BindFunc, bound functions |
| functions in Go | `js-func.go` | the heap's stash by index | fromJsFunc, the closures' calls, freeJsFunc |
| script cache | `helper.go` | context and modification time by path, a mutex | LoadFileFromCache |
| module loader | `duk_module_duktape.c`, `mod-search.go` | `Duktape.modLoaded`, module files | require, id resolution, modSearch |
| memory, finalizers | `duktape.c:51600-55000` | references, counts, `heap_allocated`, `finalize_list`, the FINALIZED flags | decref with refzero, mark-and-sweep, processing of the list, `duk_heap_free` |
| calls, coroutines | `duktape.c:44600-44900, 66800-69200, 78300-80200` | a C stack of calls, a callstack per thread, the longjmp state | calls, returns, try statements, throws, protected calls, resume, yield |
| value conversion | `value.go`, `go2c.go` | the engine's value stack | fromJsValue |
| console, print | `duk_console.c`, `duk_print_alert.c` | none of interest | formatted output |
| build flags | `djs_linux.go`, `djs_darwin.go` | none | none |

How they interact: an entry point takes the context's mutex, converts its
arguments (every Go object becomes a proxy whose id the pointer store of *that
context's address* issues) and runs the engine. The engine calls back: proxy
traps look ids up, finalizers return ids, `require` calls `modSearch`, scripts
call Go functions, which may call any entry point again. Default contexts are
threads of one heap and share its globals, its `modLoaded` and its stash, but
not their mutexes and pointer stores. Go's garbage collector calls
`freeJsContext` on a goroutine of its own. The engine's memory management calls
the package's finalizers (`freeTarget`, `freeJsFunc`), on the heap's first
thread and through a protected call; Go enters the engine either through
protected calls (Eval) or bare ones (CallFunc, bound functions, closures).

What is hard about it, and what has to be true:

* **Pointer store.** Ids are counted, reused and wrap at 2^32. An id a live
  target holds has to stand for that target's pointer; counts have to be exact
  under any order of registrations and removals; ids have to stay dense, or
  the search under the lock degrades.
* **Contexts and stores.** Address reuse between `duk_destroy_heap` and
  `delPtrStore`; coroutines, which are contexts with addresses of their own;
  finalizers that run on the heap's first thread and not on the one that made
  the proxy; a Go finalizer that may run while a method of its context does;
  closures that outlive their context. A proxy has to find its value as long as
  its context is in use; Go values must not be left in stores nobody deletes.
* **Locks.** Mutexes are not re-entrant and are held over scripts; closures do
  not lock. Who can be in an engine at once, and which programs cannot block?
* **Functions.** Indices are read off a clock, inherited along prototypes, which
  scripts change, and share their property with proxy ids. Which function does a
  closure call?
* **Cache.** The file changes between being read and being dated. How stale
  can a returned context be, and what do failures leave behind?
* **Memory.** Reference counting and mark-and-sweep free the same objects, and
  both feed one list, which finalizers then run from while the program's and
  their own steps go on. Nothing referred to may be freed, and a finalizer may
  run once: `freeTarget` returns a count each time it runs.
* **Calls.** Depth, catch point, finalizer prevention and yield prevention are
  separate counts, raised in one place and lowered on every way out: return,
  error, resume, yield. Which errors can get past all protection?
* **Modules.** Cycles, failures at any depth, retries, files that change;
  an in-place, unchecked resolution of ids.

`PROJECT.json` lists each hazard at its line with the properties that cover it.

## 2. The modules

| module | models | proofs |
|---|---|---|
| `HandleService` | what a pointer store promises: abstract specification | |
| `PtrStore` | `ptrStore` and the life of its users, the proxy targets | `PtrStoreProofs` |
| `ProxyStores` | the stores of all contexts, contexts coming and going | `ProxyStoresProofs` |
| `CtxLocks` | the mutexes over scripts, nested calls | `CtxLocksProofs` |
| `FuncStash` | JavaScript functions held by Go | `FuncStashProofs` |
| `CtxCache` | `LoadFileFromCache` for one path | `CtxCacheProofs` |
| `ModLoader` | `require` and `modSearch` | `ModLoaderProofs` |
| `ResolveId` | `duk__resolve_module_id` | `ModLoaderProofs` |
| `Reclamation` | what the engine promises about memory: abstract specification | |
| `HeapGC` | counts, mark-and-sweep, finalizers, the end of a heap | `HeapGCProofs` |
| `Calls` | calls, errors, coroutines, entries from Go | `CallsProofs` |

Each `MC...` module extends one of them for the runs, with values for constants
and symmetry sets where they are used. In every module the definitions commented `variant:` are plausible bugs
of one definition: no specification uses them, `PROJECT.json` ("mutants") says
in which run each replaces which definition and which property then fails.

**PtrStore.** Variables are the fields of the struct (`index`, `id2ptr`,
`ptr2id`, the count of each ref, `cleared` for the nil maps) and the state of
its callers. A method is one step because it runs under `s.lock`, except
that a register without a known id holds the lock over a loop (`Probe` until
`Insert`), during which other callers queue. `Succ` and `Pred` are the uint32
arithmetic. After `clear` the maps are nil: lookups miss, removals do nothing
and a register panics (`InsertIntoNil`). Each target registers one pointer and
removes its id once, as makeProxyObject and freeTarget do.

**HandleService** knows only who owns which handle: two owners share a handle
exactly if they stand for the same object. `PtrStore!ImplementsHandles` is the
refinement mapping (a target's handle is the id it holds).

**ProxyStores** builds on theorem `LowestFirst`: register issues the smallest
free positive id, so a store is a table. Actions are `NewContext` (thread or
own heap, at any address `malloc` may return), methods and closures starting and
returning, `new Duktape.Thread` and the collection of a coroutine
(`NewCoroutine`, `FreeCoroutine`: its address, too, is one of `malloc`'s), the
two halves of makeProxyObject (get the store, then register in it), lookups
(which create missing stores), finalizers, and the two halves of freeJsContext.
All of them use the address of the thread that runs: `RunsOn` says on which
threads code of a context can be (its own, a coroutine, which on the shared heap
any context may resume, and `globalHeap`'s first thread in JavaScript
finalizers); `reached` are the threads on which a lookup has succeeded, because
only there does a trap go on to call Go code or to make proxies. A finalizer may
be refused (`RefuseFinalizer`, for the reasons in `Calls`). freeJsContext has no
guard on running methods: after `c := ctx.c` a method no longer refers to its
JsContext, so Go may finalize it while the script runs. If that destroys the
heap, the method is lost (`crash`). Closures keep the address only, so on a
default context, whose thread is never popped, they may be called after
freeJsContext (`late`). Pointers are new for every proxy, as in the code (`&v`).

**CtxLocks** keeps a stack of calls per goroutine; a call is a method (locks
its context), a closure (locks nothing) or a load (locks the cache, makes a
context, and calls its EvalFile). Go code runs at top level or inside a script
(`InGo`), and may then make any call.

**FuncStash** has the clock as a counter modulo the width of an index, so it
wraps. Prototypes start empty and change at any time (`SetPrototype`, which
refuses cycles as the engine does); `Chain` is the least set closed under them,
and `Owner` is where `duk_get_prop_string` finds the index, at each export and
again at the collection. A closure remembers its index only; the model also
keeps, as a history, for which function it was made and from which the index
came. A function is collected only if no script, stash entry or heir keeps it,
at any time later (JavaScript functions are cyclic, so the collection is not
immediate). The finalizer deletes whatever its index holds. Scripts are taken to
leave finalizers alone (`Duktape.fin`) and to export no Proxies of their own.

**CtxCache** numbers the versions of one file; content, modification time and
presence change between the steps of a call (read, Stat). Paths share only the
mutex, so one path suffices. `torn` and `started` are history variables.

**ModLoader** has the stack of loads under way. Registration before search,
deletion on errors, early exports for cycles and modSearch's silent miss are
the code's; files are edited at any time.

**HeapGC** knows objects only by their references. The program, and a finalizer
while it runs, make objects, store and delete references and allocate (so that
the allocator collects) in any order. What a free drops to zero in turn is
`Cascade`, a least set, because the order of `duk__refcount_free_pending` is
that of properties; what marking reaches is `Marked`. One collection is a step
(nothing else runs inside it), the processing of `finalize_list` is not:
`RunFinalizer` and its end (`FinalizerFrees`, `FinalizerRequeues`) are steps
between which the finalizer does what it likes. `pf` is `pf_prevent_count`,
which keeps the list from being processed twice at a time; `FreeHeap`,
`SkipFinalizers`, `ForceFinalizer` and `FreeAllocated` are `duk_heap_free`.
A finalizer "has run" when `duk_heap_run_finalizer` has: whether its call takes
place is the question of `Calls!FinalizersRun`.

**Reclamation** has neither counts nor lists nor phases: references and objects
come and go under three rules (nothing referred to goes, no finalizer is left
out, none runs for what is in reach unless the heap is closing or a finalizer
has stored something).

**Calls** has one C stack (`cstack`) for the calls that C code makes, whatever
the thread, and a callstack per thread. Calls between ECMAScript functions, and
resumes and yields, stay inside one executor, so they change callstacks only.
`mode` is where the C code is: code runs, a protected call is being entered, a
longjmp has landed, an executor handles it; `fatal` and `undefined` are the
ends (the fatal handler; a longjmp over Go frames). The function in control may
do anything it could do in any program; Go code may fail (`GoFails`, a return of
`DUK_RET_ERROR`), and what it asks of the engine outside of a call may throw
(`Throw`). `by` tells whether C or Go has made a call, and `GoHolds` which
threads Go can still name; it has coroutines in it, which is more than
`ProxyStores!CoroutinesReachNothing` leaves possible.

**ResolveId** runs the loop term by term on a buffer of characters, with `p`,
`q` and `q_last` as in the code, positions counted from 1. `Meaning` is the
reference: names, with `..` taking back the one before. Its specification is
`IdSpec`, so that `ModLoaderProofs` can extend it beside `ModLoader`.

## 3. Runs, bounds and what they show

| run | instance | shows |
|---|---|---|
| `store_dense` | 3 targets, 3 pointers, ids 0..4 | handles resolve, counts exact, ids dense and smallest first, a search ends, `ImplementsHandles` |
| `contexts` | 2 contexts and their coroutines, 2 addresses, 2 proxies | what resolves where, what is reclaimed, what stays in which stores |
| `locks` | 2 goroutines, 2 contexts (one made by a load), depth 3 | exclusion, what a deadlock needs, a safe order |
| `stash` | 3 functions (one of Go), 3 indices, changing prototypes | whom a closure calls, when it calls nothing, what is collected |
| `cache` | 2 callers, 4 writes (2 in one tick, 1 broken) | staleness, failures, calls return |
| `require` | 3 ids of 2 files, 2 loads each | no nested and no half loads |
| `resolve` | ids of up to 4 terms from modules of up to 2, buffer of 12 | in place, correct, relative |
| `gc` | 3 objects, 2 of them with finalizers | exact counts, no dangling reference, finalizers once, `ImplementsReclamation` |
| `gc_ends` | 2 objects with finalizers | garbage goes, destruction ends |
| `calls` | a heap with 2 default contexts or an isolated one, 2 coroutines, 3 calls on the C stack, 3 activations per thread, 1 try statement | books balance, entries stand, switches agree, what escapes, when finalizers are refused |
| `missing_module`, `freed_in_use` | as `require` and `contexts`, smaller or the same | counterexamples, section 4 |

Why the bounds suffice to meet the interesting cases: a pointer store needs two
holders of one id, and three pointers for a search to pass over a taken id (a
counter that wraps is covered by the proofs, which hold for every `MaxId`);
address reuse needs two contexts, and a mix-up of stores two addresses, where the
second owner of an address may be a coroutine, and two proxies; an AB-BA
deadlock needs two goroutines and two mutexes, here the cache's and contexts'
(a context made by a load can be called afterwards), and re-entrance depth 2;
a stash collision needs two functions, an heir and a wrapped clock; a torn
cache entry needs one write inside a load, healing it another, granularity two
in a tick; a cycle of modules needs two ids, a retry two loads; a resolution
needs names of different lengths (so that positions shift), dots and repeated
slashes in every place, and inputs on both sides of the buffer's limit (12 here
for `DUK_COMMONJS_MODULE_ID_LIMIT`); memory needs a cycle with a finalizer, an
object that hangs on it, and one without a finalizer between; calls need a chain
of two coroutines for an error to die in one and go on in the other, and three
calls for a protected one between an executor and Go. `MaxId`, `MaxVersion`,
`MaxLoads`, `MaxDepth`, `MaxTerms`, `MaxModId`, `Limit`, `Width`, `MaxTries` and
the number of stores (`Stores`) are the only bounds; `CallRecursionLimit` and
`CallstackLimit` are the engine's own, small.

Deadlock checking is off in `contexts` and `freed_in_use` (contexts and
proxies are used once, so a run can end), in `locks` (the code can deadlock; the
properties say when), and in `gc` and `gc_ends` (a freed heap does nothing more).
Symmetry is used in safety runs only.

Results worth knowing beyond "it holds":

* `SharedKeeps`: a default context never releases a Go value before it is
  freed, because finalizers run on `globalHeap`'s address.
* `CoroutinesReachNothing`: Go values cannot be used in a coroutine. A lookup
  there asks the store of the coroutine's own address, which is empty, and leaves
  it there; every trap fails with `DUK_RET_ERROR`. A proxy is only made after a
  lookup has succeeded on the same thread or for a method on the context's, so
  none is ever made in a coroutine, and this is why finalizers, which return ids
  on the heap's first thread, take none from another proxy (`OwnProxyResolves`,
  `IsolatedReclaims`). The same holds in a JavaScript finalizer of a default
  context, which runs on `globalHeap`'s first thread.
* `LeftStoresAreEmpty`: what these lookups leave behind are stores, without Go
  values in them, at addresses that no freeJsContext deletes.
* `IsolatedReclaims`: besides live proxies, an isolated store holds those whose
  finalizer was refused, until the context is freed.
* `LeftStoresAreEmpty`, `PanicNeedsFree`, `OwnProxyResolves` hold only up to
  contexts that were freed while a method ran (`cut`), whose closures were called
  afterwards (`late`), or that were given, for themselves or for a coroutine, the
  address of one still being freed (`reused`). The exceptions are real: the first
  is also the counterexample of section 4; the second lets a closure register its
  arguments in a store that nobody deletes. The third is the window of
  `context.go:91`: `duk_destroy_heap` has given the address back to `malloc`,
  `delPtrStore` has not yet run, and a new isolated context at that address
  loses its values to it.
* `CallsOwner`, `OneIndex`: a closure calls the function its index came from.
  That need not be the function it was made for: an heir of an exported function
  takes its index, gets no entry, and Go's closure for it calls its prototype,
  without any collision of the clock against which the note at `js-func.go:97`
  warns. Re-linked and exported again it has a second index; closures made for a
  function under its own index never differ.
* `ExportedStays`: the entry that the finalizer is to delete keeps the function
  alive, so an exported function is never collected, unless its entry went to
  another function; `LostNeedsSharer`: and then the finalizer deletes that one's.
* `Regular`: a returned context is as new as the file at the call's start,
  except within one tick of the modification time, or when the very first load
  was torn by a write; a reload heals a torn entry.
* `AscendingIsSafe`: a program is safe from deadlock if its scripts' Go
  functions call no LoadFileFromCache and only methods of contexts that are
  higher in some fixed order; `DeadlockNeedsCallback`: without callbacks nothing
  can block for ever.
* `SearchEnds`: while there are fewer pointers than ids, the search under
  `s.lock` ends.
* `FinalizedOnce`, `GarbageGoes`, `DestructionEnds` are conditional on finalizers
  that store no reference (the package's two do not): one that stores its object
  may run again, and one that keeps making work may hold up the end of a heap.
* `FinalizersRun`: a finalizer's call is refused, and the refusal swallowed,
  while heap_thread is suspended. In an isolated heap that is whenever a script
  is inside a coroutine; the object is freed all the same, `freeTarget` never
  runs for it, and the Go value stays in the store until the context is freed.
* `EscapesUnprotected`: an error reaches the fatal handler, or jumps over Go
  frames, only from above every protected call. So what a script throws inside
  Eval's pEval stays there; but not all of an Eval is inside. Besides CallFunc,
  bound functions and closures (`js-func.go:50`, `context.go:205`), a setter
  that setEnv runs and a getter that fromJsValue runs (`context.go:129`, `139`,
  `183`; `value.go:85`, `111`), and whatever else Go code asks of the engine, are
  outside: evaluating an object with a getter that throws aborts the process.
* In `Calls`, leaving a try part by `break` or `continue` does not disable its catch
  part, so that an error in the finally part is caught by the same statement,
  whose finally part then runs twice (`TryCatch`).

## 4. Where code and documentation disagree

* `freed_in_use` (`context.go:128`). No `runtime.KeepAlive` follows the use of
  `ctx.c`: in the README's own example (`README.md:117-127`) the context may be
  finalized while `b.js` runs, and `adder` disappears (a default context) or
  the engine is destroyed under its script (an isolated one).
* `missing_module` (`mod-search.go:30`). `require` of a missing file returns an
  empty object and registers it, against `duk_module_duktape.c:315-316`.

## 5. Fairness

* `PtrStore!FairSpec`: the goroutine that holds `s.lock` runs on (straight-line
  code): weak fairness of the steps of a search.
* `CtxCache!FairSpec`, `CtxLocks!FairSpec`: strong fairness for a goroutine that
  waits for a mutex (Go's mutexes hand over to starving waiters), weak fairness
  for the steps of the call that holds it. Nothing is assumed of finalizers, of
  the writer of the file, or of new calls.
* `CtxLocks` assumes that each script is over after finitely many calls of its
  own: strong fairness of the return at every depth, because a script is not
  continuously able to return while its callbacks run. Its liveness property is
  conditional on `[]Ascending`.
* `HeapGC!FairSpec`: the program keeps allocating, so that the allocator's
  voluntary collections recur (strong fairness of `Collect(FALSE)`: a collection
  is not possible at every moment of the list's processing); finalizers return;
  the C code of the list's processing and of `duk_heap_free` runs on. Without a
  finalizer that stores, `GarbageGoes` then needs nothing more.
* The other modules have no liveness property: nothing in them has to happen.

## 6. Proofs

### Pointer store

`PtrStoreProofs` proves about `PtrStore`, for every set of targets (finite), of
pointers, and every `MaxId > 0`, from `MaxIdAssumption`, `NullAssumption` and
`TargetsAssumption`:

* `TypeCorrect`, `MapsStayInverse`, `HandlesResolve`, `CountsAreExact`: the
  invariants of the runs.
* `Density` and `LowestFirst`: under `Capacity` (fewer pointers than ids; true
  of any real program), ids up to `index` are taken and new ids are smallest
  first.
* `Refinement`: `Spec => ImplementsHandles`.

The argument. None of the invariants is inductive alone. `HandleResolves`
survives a removal only because counts are exact (the last reference goes when
its only holder removes it) and `CountExact` survives an insertion only because
a searching target's pointer has no id yet and the maps are inverse. The
inductive invariant is

    IInv == TypeOK /\ MapsInverse /\ HandleResolves /\ CountExact
            /\ SearchIsForNew /\ ClearedIsEmpty

where `SearchIsForNew` says that the pointer being searched an id for has none,
and `ClearedIsEmpty` that a cleared store has no entries (so that a removal
after `clear` does nothing). The step lemmas go by action, the table-changing
ones (`RegisterKnown`, `Insert`, `RemoveKeeps`, `RemoveLast`, `Clear`) one by
one, the others by `TablesKept`. `CountExact` uses the library's facts on
cardinalities of `S \cup {x}` and `S \ {x}`. `Density` adds a pigeonhole
argument: taken ids inject into pointers (the maps are inverse), so while there
is room the next id after a dense prefix does not exceed the number of pointers
and the counter does not wrap. `Refinement` shows that RegisterKnown and Insert
are Binds, both removals Unbinds, Clear is Close, and the rest stutters.

### Contexts and stores

`ProxyStoresProofs` proves about `ProxyStores`, for every finite set of contexts,
addresses and proxies, from `FiniteAssumption` and `DistinctAssumption`:
`TypeCorrect`, `ProxiesResolve` (`OwnProxyResolves`), `SharedObjectsKeep`
(`SharedKeeps`), `StoreIsExact` (`IsolatedReclaims`), `NothingInCoroutines`
(`CoroutinesReachNothing`), `NoValueLeaks` (`LeftStoresAreEmpty`) and
`RegisterIsSafe` (`PanicNeedsFree`), by

    IInv == TypeOK /\ ContextsOK /\ RegistryOK /\ CountOK
            /\ (\A p \in Proxies : ProxyOK(p))
            /\ EntriesOK /\ UsersOK /\ CoroutinesReachNothing /\ PanicNeedsFree

A context is *sound* if it is live and was given no address still being freed.
`ContextsOK`: the address of a sound context is no other's that is live, shared
or being destroyed, and no coroutine's; so a finalizer of another heap, a lookup
in a coroutine and the `delPtrStore` of another context all go to another store
(`RegistryOK`: a store has one address). Hence `ProxyOK`: a proxy is made on its
context's own thread (`HomeOK`), the context stays in use until it is registered
(`PendingOK`), and in a sound context's store its id is its own until its
finalizer runs, for ever if the context is shared (`ResolvesOK`). `UsersOK` is
what ties coroutines in: nobody else's proxies are in a sound context's store,
and none in a coroutine's. So a lookup in a coroutine misses, and therefore no
proxy is made there: the two facts are only inductive together. The address of
a context freed a moment too late breaks all of this, which is why
what they say of a context excepts `reused` ones. That a registration finds a
free id is the pigeonhole principle on `EntriesOK` (`FreshIsFree`). `CountOK`
bounds the stores ever made by the addresses that have one now (of contexts, of
coroutines, of `globalHeap`) and the contexts freed, so the model's set `Stores`
cuts off no behaviour.

### Locks

`CtxLocksProofs` proves about `CtxLocks`, for every set of goroutines, number
of contexts and depth of nesting, from `CtxAssumption` and `ThreadsAssumption`:
`TypeCorrect`, `MethodsExclude` (`EngineExclusive`), `OrderIsSafe`
(`AscendingIsSafe`) and `NestingIsSafe` (`DeadlockNeedsCallback`).

The inductive invariant is

    IInv == TypeOK /\ FramesOK /\ OuterCalls /\ LockedOnce

TypeOK's last clause ties `holder` to the calls on the stacks. It survives an
unlock only if the returning call was the only one to hold the mutex
(`LockedOnce`), and a call locks a mutex no other call of any goroutine holds
only by that clause again. `FramesOK` gives each kind of call its stages and
its mutex; `OuterCalls` says that only innermost calls wait, and that a load
that evaluates is followed by its EvalFile. The actions fall into pushes, pops,
`Lock`, `CreateContext` and `Escape`, with a lemma each.

`OrderIsSafe` takes, in a set of goroutines that wait for each other, one that
waits for the highest mutex (`LeastNat`, from the library's well-foundedness of
finite subsets). Its holder has locked it in an outer call, so in ascending
order waits for a higher one. `NestingIsSafe`: if no outer call runs a script,
outer calls are loads in EvalFile, so all wait for the cache; but such a load's
next call, a method, is then innermost and waits for a context.

### Script cache

`CtxCacheProofs` proves about `CtxCache`, for any number of callers and writes,
any choice of broken versions and any clock that does not run backwards
(`MtimeAssumption`): `TypeCorrect`, `TimesHonest` (`NeverAhead`), `NeverBack`
(`NoStepBack`) and `BoundedStaleness` (`Regular`). The inductive invariant

    IInv == TypeOK /\ FileOK /\ NeverAhead /\ \A g \in Callers : CallOK(g)

says in `CallOK` what a call may rely on between its steps: while it has the
mutex nobody else changes the entry (TypeOK's last clause: one caller in the
body), so a version it has read is not older than the entry's and not older than
the call. `Regular` is then about hits: an honest entry's time is at most that
of its content, a hit's time is the file's, and times are monotonic, so all
writes in between share one time.

### Module loader

`ModLoaderProofs` proves about `ModLoader`, for every set of ids and files, every
`FileOf` and every bound on loads: `TypeCorrect`, `CyclesEnd` (`NoNestedLoad`),
`FailuresForgotten` (`NoHalfLoaded`) and `OneLoadSucceeds` (`OneInstance`), by

    IInv == TypeOK /\ NoNestedLoad /\ LoadsOpen /\ NoHalfLoaded /\ OneInstance

`LoadsOpen` is the strengthening: the id of a load under way is registered with
that load's own table, and no load of it has succeeded yet. It is why the deletion
after an error removes the right entry, and why a retry starts from nothing.

About `ResolveId` it proves, for every alphabet, every set of names and of terms
with a period first, every length of ids and every size of the buffer:
`OutputInPlace` (`InPlace`), `IdsResolved` (`Resolves`) and `RelativeIds`
(`RelativeToModule`), by

    IdInv == Types /\ (pc = "term" => Reading) /\ InPlace /\ Resolves

`Reading` says at which term the loop is, and three things of the buffer there
(`Running`): from `p` on it still is the input, term for term (`Ahead`, with the
terms' offsets `At`); up to `q` it has names with a slash after each (`Written`);
these names are the fold of the terms behind `p`. With `q <= p` a copy cannot
touch what is ahead. An empty term is only met first or last, since the slashes
after every other term are eaten. `RelativeIds` does not follow from the invariant
alone: it is that `mod_id/../req_id` and the id with the module's name left out have
the same fold, and that the second is not longer.

`FlattenSeq` and `FoldLeft` are recursive functions of the library. `FlattenSpec`
and `FoldSpec` show that their recursion has a solution, `FlattenAppend` and
`FoldAppend` take one step of it, all by way of the least number for which a claim
fails (`Least`, `UpTo`).

### Memory

`HeapGCProofs` proves about `HeapGC`, for every finite set of objects and every
choice of finalizers: `TypeCorrect`, `RefcountsExact` (`CountsExact`) and
`MemorySafe` (`NoDangling`), by

    IInv == TypeOK /\ CurrListed /\ ListDone /\ NoDangling /\ CountsExact

Exact counts are what makes a cascade safe: an object freed by counting has
lost all its references to the objects freed with it (`CascadeDrops`,
`CascadeIsClosed`), so nothing that stays refers to it; conversely the count of
what stays drops by what the freed ones referred to (`ReleaseKeeps`, from the
lemmas on cardinalities `Referrers`, `Decrefs` and `OneLess`). `ListDone` and
`CurrListed` tell where an artificial count may stand. What
mark-and-sweep frees is not reached by what stays, because marking is a closed set.

Its second half adds `OInv` and proves `OnlyOnce` (`FinalizedOnce`) and
`Refinement` (`ImplementsReclamation`). `OnceOK` is its heart: until a finalizer
stores a reference, what waits for its finalizer or has had it (`Behind`) is
not reached by the program, nor by an object whose finalizer is still to come
(`Kept`), and what has had its finalizer keeps the flag. Its proof has two
sides: a collection queues only what is not accessible, so none of it is in
`Kept`; and until something is stored, references only go or start at what is
in reach already, so `Kept` grows by new objects only (`KeptShrinks`). The
refinement is then step by step: deletions, sweeps and the returns of
finalizers are `Reclaim` (at most one reference is given up, `Frees`), their
starts `Finalize`, the last sweep of `duk_heap_free` is `Free`; the rest
stutters.

### JavaScript functions in Go

`FuncStashProofs` proves about `FuncStash`, for every set of functions, any Go
functions among them, every width of the clock and whatever scripts do with the
prototypes (`FuncsAssumption`, `IndexAssumption`): `ClosuresCallOwners`
(`CallsOwner`), `EntriesLostToSharers` (`LostNeedsSharer`), `IndexIsStable`
(`OneIndex`) and `ExportedNeverFreed` (`ExportedStays`), by

    IInv == TypeOK /\ KeptAlive /\ EntriesOwned /\ ClosuresOK /\ GoOwn
            /\ EntryOK /\ LostOK /\ ExportedStays

`EntriesOwned`: what the stash holds is a JavaScript function with the entry's
index as its own; `ClosuresOK`: a closure has the index of the function it got it
from. Neither mentions prototypes, so relinking cannot disturb them. `KeptAlive`
does: what scripts, the stash or heirs that are kept refer to is not finalized.
It survives a new prototype because that is a function in use, kept itself
(`SetPrototypeStep`). `EntryOK` and `LostOK` follow the entry of a function with
an index: it is there, or went to another function with that index, or was
deleted by the finalizer of another one. So if it is there the stash keeps the
function, and its finalizer cannot run: `ExportedStays`.

A chain is the smallest set closed under prototypes, not a recursion: that a
lookup finds the first index on it (`FirstIndexed`), and what it loses and gains
when a link changes, is proved by exhibiting a smaller closed set.

### Calls

`CallsProofs` proves about `Calls`, for every set of threads and all limits
(`ThreadsAssumption`, `LimitsAssumption`), all of its properties, in two layers.

The C stack: `ProtectionHolds` (`EscapesUnprotected`) and `NothingLeftOver`
(`StackBooks`, the C stack's part of `BooksBalance`), by

    IInv == IsStack /\ FramesOK /\ FinOnce /\ ModeOK

`FramesOK` says that frame `i` has saved depth `i - 1` and the innermost catch
point below it, `ModeOK` what `jmpbuf_ptr`, `pf` and `depth` are in each mode.
Nothing of threads and coroutines is needed: whoever leaves a frame, in whichever
way, puts back what the frame has saved, and a longjmp skips only frames that do
not catch. A Go function that fails throws after its own frame is left
(`LongjmpFrom`), which finds the same catch point, since that frame has none.

The threads: `BooksBalanced` (`BooksBalance`), `EntriesKept` (`EntriesStand`),
`SwitchesHold` (`SwitchesAgree`), `FinalizersCalled` (`FinalizersRun`, an action
property) and `TypesHold`, by

    TInv == Typed /\ IInv /\ (while nothing is fatal) LiveInv
    LiveInv == Threaded /\ Standing /\ Natives /\ Counts /\ JumpOK /\ Limits /\ HeapOK

* `Threaded` is its heart. Each part of the C stack is run by the thread its
  frame was entered on, or by a coroutine that its executor has resumed,
  directly or through others. There is a function that gives each resumed
  thread the executor that resumed it, and one that gives its place in that
  executor's chain of resumers; without them nothing rules out that two
  executors share a coroutine or that a chain closes to a ring, and then that
  an error which ends a coroutine goes on in the wrong place.
* `Standing`: the activation frame `i` goes back to is on its callstack, and
  frames further up on the same thread go back to places above it. It needs
  `Threaded`: other threads' steps cannot reach below.
* `Natives` and `Counts`: native functions prevent yields, and a thread's
  prevention count is that of its activations and of its protected calls. So
  a yield, which needs a count of one, can only cross activations of
  ECMAScript functions.
* `JumpOK`: between the jump of a resume or a yield and its landing nothing
  changes that made it possible. `Limits` bounds the C stack by the recursion
  limit, so that a resume finds room.
* `HeapOK`: in the shared heap heap_thread is used by finalizers alone.

The step lemmas go by kind of step: pushes on the C stack (`Entering` and what
follows it), pops by return and by longjmp, resumes and yields, deaths of
coroutines, and steps that touch one callstack only. In the fatal modes only
`Books` is claimed: the process ends there.

### What stays with TLC

Liveness under fairness and everything about `ENABLED`
(`PtrStore!SearchEnds`, `CtxCache`'s and `CtxLocks`' returns, `GarbageGoes`,
`DestructionEnds`).

## 7. What is not modelled

* Of the engine, what does not bear on the package's state: the compiler, the
  bytecode, properties, strings, regular expressions and the built-in library.
  `duktape.c` has 101,000 of the repository's 107,000 lines of C, so the models
  cover a small part of the code by lines, and most of what decides the
  package's own behaviour.
* Of memory management: strings and buffers, the limit of mark recursion
  (temproot), the limit on rounds of runaway finalizers, object compaction,
  finalizers on Proxy objects, `duk_push_heapptr` of a queued object, and the
  collection of threads.
* Of calls: running out of memory (also inside the handling of a longjmp, where it
  would leave `pf_prevent_count` raised), the relaxed recursion limit while an
  error object is augmented, the contents of value stacks, constructor calls
  and what follows them, the debugger, and Go panics that pass over C frames.
* A closure called on an isolated context that was freed, whose heap is gone: it
  is undefined what it does. What a lookup finds in the store of *another*
  default context (`go-proxy-value.go:107`): it may be any of that one's values;
  the modelled properties are about the maker's own thread. That the exports a
  cycle hands out early may be of a load that fails later
  (`duk_module_duktape.c:245`): `ModLoader` permits it, no property forbids it.
* Concurrent use of the shared heap by goroutines on different default contexts,
  or in closures (`context.go:81`, `js-func.go:116`): no mutex excludes it, and
  what the engine then does is undefined. Nothing would hold of it.
* The traps' reflection and value conversion: a recursion over the data of one
  call, without a check of its depth (`value.go:90`); values are not in the models.
* The lifetime of returned strings, which alias the engine's memory
  (`value.go:29`): the read through the alias is no step of the code.
* The 64 slots of `globalHeap`'s value stack (`context.go:66`): one comparison in
  one thread of control.
* Console and print, build flags; InitCache's unsynchronised check, several paths
  in the cache; in `FuncStash` the destruction of a heap, finalizers that scripts
  replace, Proxies that scripts make, and functions that are not extensible.

## 8. Plan

Built so far, in this order: the pointer store with its abstract specification
and proofs; contexts, functions, cache, loader, and the locks with their proofs;
the engine's memory and calls; proofs of contexts and stores, cache, loader, memory
(with its refinement), functions, calls and the resolution of ids. What could
follow:

1. An abstract atomic cache that `CtxCache` implements up to torn entries.
2. The values that a default context's lookup finds in another's store.

A dozen runs are kept: a new module's run replaces a smaller one whose question
the proofs have settled. `PtrStore!MapsInverse` and `ModLoader!OneInstance` have
proofs and no run of their own.
