----------------------------- MODULE ModLoader -----------------------------
(***************************************************************************)
(* require (duk__require in duk_module_duktape.c) with the module search   *)
(* function that setModSearch installs (mod-search.go).  Duktape.modLoaded *)
(* belongs to the heap, so all default contexts share one.                 *)
(*                                                                         *)
(* Module bodies are scripts: a running body may require any module, catch *)
(* or not what a require throws, return, or throw itself.  A load is named *)
(* by its number among the loads of its id; it stands for the exports      *)
(* object that load creates.  Resolved ids are opaque: resolution either   *)
(* yields one or throws before anything is changed.                        *)
(***************************************************************************)
EXTENDS Integers, Sequences

CONSTANTS
  Ids,       \* resolved module ids
  Files,     \* script files under exePath
  FileOf,    \* FileOf[m]: the file of id m, ".js" appended unless it is there
  MaxLoads   \* bound on the loads of an id

ASSUME FileOfAssumption == FileOf \in [Ids -> Files]
ASSUME MaxLoadsAssumption == MaxLoads \in Nat

VARIABLES
  source,     \* source[f]: "missing", "broken" (it does not compile) or "script"
  modLoaded,  \* Duktape.modLoaded[m]: the load whose module table it is, 0 if none
  loads,      \* how many loads of m have begun
  stack,      \* the loads under way, innermost last
  finished,   \* the loads of m that have returned their exports to require
  seen        \* the loads of m whose exports some script has been given

vars == <<source, modLoaded, loads, stack, finished, seen>>

NotLoaded == [m \in Ids |-> 0]
Never == [m \in Ids |-> {}]

Init ==
  /\ source \in [Files -> {"missing", "broken", "script"}]
  /\ modLoaded = NotLoaded
  /\ loads = NotLoaded
  /\ stack = <<>>
  /\ finished = Never
  /\ seen = Never

Top == stack[Len(stack)]
Below == SubSeq(stack, 1, Len(stack) - 1)

Searching == stack # <<>> /\ Top.stage = "search"
InBody == stack # <<>> /\ Top.stage = "body"

\* A script runs: the top-level one, or the body of the innermost module.
ScriptRuns == ~Searching

\* duk_get_prop(ctx, DUK__IDX_MODLOADED): the id is loaded or being loaded.
CachedWhenDone(m) == modLoaded[m] \in finished[m]   \* variant: only finished loads count
Cached(m) == modLoaded[m] # 0

\* delete Duktape.modLoaded[resolved_id], before an error is rethrown.
KeepEntry(m) == modLoaded   \* variant: the entry stays
DeleteEntry(m) == [modLoaded EXCEPT ![m] = 0]

-----------------------------------------------------------------------------
\* Someone edits the files.
Edit(f, s) ==
  /\ source[f] # s
  /\ source' = [source EXCEPT ![f] = s]
  /\ UNCHANGED <<modLoaded, loads, stack, finished, seen>>

\* require of an id in modLoaded, finished or not: its module.exports.
RequireCached(m) ==
  /\ ScriptRuns
  /\ Cached(m)
  /\ seen' = [seen EXCEPT ![m] = @ \cup {modLoaded[m]}]
  /\ UNCHANGED <<source, modLoaded, loads, stack, finished>>

\* require of another id: make the module table, register it early, and
\* call modSearch.
RequireNew(m) ==
  /\ ScriptRuns
  /\ ~Cached(m)
  /\ loads[m] < MaxLoads
  /\ loads' = [loads EXCEPT ![m] = @ + 1]
  /\ modLoaded' = [modLoaded EXCEPT ![m] = loads'[m]]
  /\ stack' = Append(stack, [id |-> m, load |-> loads'[m], stage |-> "search"])
  /\ UNCHANGED <<source, finished, seen>>

\* return_exports: the innermost load ends and its requirer gets the exports.
ReturnExports ==
  /\ stack' = Below
  /\ finished' = [finished EXCEPT ![Top.id] = @ \cup {Top.load}]
  /\ seen' = [seen EXCEPT ![Top.id] = @ \cup {Top.load}]
  /\ UNCHANGED <<source, modLoaded, loads>>

\* delete_rethrow: the innermost load fails and its requirer gets the error.
DeleteRethrow ==
  /\ stack' = Below
  /\ modLoaded' = DeleteEntry(Top.id)
  /\ UNCHANGED <<source, loads, finished, seen>>

\* modSearch cannot read the file: it returns 0, that is undefined, which
\* duk__require takes for a module without source.
SearchMisses ==
  /\ Searching
  /\ source[FileOf[Top.id]] = "missing"
  /\ ReturnExports

\* modSearch returns the source and it does not compile.
CompileFails ==
  /\ Searching
  /\ source[FileOf[Top.id]] = "broken"
  /\ DeleteRethrow

\* It compiles, and the wrapped module function is called.
Enter ==
  /\ Searching
  /\ source[FileOf[Top.id]] = "script"
  /\ stack' = Append(Below, [Top EXCEPT !.stage = "body"])
  /\ UNCHANGED <<source, modLoaded, loads, finished, seen>>

BodyReturns == InBody /\ ReturnExports
BodyThrows == InBody /\ DeleteRethrow

Next ==
  \/ \E f \in Files, s \in {"missing", "broken", "script"} : Edit(f, s)
  \/ \E m \in Ids : RequireCached(m) \/ RequireNew(m)
  \/ SearchMisses \/ CompileFails \/ Enter \/ BodyReturns \/ BodyThrows

Spec == Init /\ [][Next]_vars
-----------------------------------------------------------------------------
Loads == 1 .. MaxLoads
Frames == [id : Ids, load : Loads, stage : {"search", "body"}]
OnStack(m) == \E k \in 1 .. Len(stack) : stack[k].id = m

TypeOK ==
  /\ source \in [Files -> {"missing", "broken", "script"}]
  /\ modLoaded \in [Ids -> 0 .. MaxLoads]
  /\ loads \in [Ids -> 0 .. MaxLoads]
  /\ stack \in Seq(Frames)
  /\ \A k \in 1 .. Len(stack) - 1 : stack[k].stage = "body"
  /\ finished \in [Ids -> SUBSET Loads]
  /\ seen \in [Ids -> SUBSET Loads]

\* A module is never loaded inside its own load: circular requires get the
\* exports of the load under way, so they end.
NoNestedLoad ==
  \A j, k \in 1 .. Len(stack) : j # k => stack[j].id # stack[k].id

\* modLoaded holds a module exactly while its load is under way or once it
\* has succeeded; a load that failed, at any depth, leaves nothing behind.
NoHalfLoaded ==
  \A m \in Ids :
    /\ OnStack(m) => \E k \in 1 .. Len(stack) :
                       stack[k].id = m /\ stack[k].load = modLoaded[m]
    /\ ~OnStack(m) => modLoaded[m] \in finished[m] \cup {0}

\* Scripts agree on a module: at most one load of it ever succeeds, and it
\* is the one that modLoaded keeps.  A script may hold another load's
\* exports only if it got them in a cycle and that load has failed since.
OneInstance ==
  \A m \in Ids :
    /\ \A i \in finished[m] : modLoaded[m] = i
    /\ \A i \in seen[m] : i = modLoaded[m] \/ i \notin finished[m]

\* duk_module_duktape.c: "If a module cannot be found, an error must be
\* thrown by the user callback", and then require throws and forgets it.
MissingThrows ==
  [][ Searching /\ source[FileOf[Top.id]] = "missing" /\ Len(stack') < Len(stack)
        => modLoaded'[Top.id] = 0 ]_vars
=============================================================================
