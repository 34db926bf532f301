----------------------------- MODULE FuncStash -----------------------------
(***************************************************************************)
(* JavaScript functions that Go holds (js-func.go).  fromJsFunc gives a    *)
(* function that leaves the engine an index, the low 32 bits of the clock, *)
(* and keeps the function in the heap's global stash under it; the Go      *)
(* closure remembers the index only.  freeJsFunc, the function's           *)
(* finalizer, deletes the entry of its index.                              *)
(*                                                                         *)
(* Indices are not unique: the clock can show the same value twice, both   *)
(* the index and the finalizer are looked up along the prototype chain,    *)
(* which scripts change as they like, and the id that makeProxyObject      *)
(* gives to the proxy of a Go function is a property of the same name.     *)
(* The module says what holds nevertheless.                                *)
(*                                                                         *)
(* An object that inherits from a function and never leaves the engine     *)
(* counts as a function.  A call through an entry that is gone throws and  *)
(* changes nothing here.  Scripts leave finalizers alone (Duktape.fin) and *)
(* export no Proxies of their own; the destruction of the heap is not      *)
(* modelled.  The export of a function that is not extensible throws and  *)
(* changes nothing.                                                        *)
(***************************************************************************)
EXTENDS Integers

CONSTANTS
  Funcs,    \* the functions of the heap
  GoFuncs,  \* those that are proxies of Go functions
  Width,    \* number of values of an index, 2^32
  NULL      \* no function, no index

Indices == 0 .. Width - 1

ASSUME FuncsAssumption == GoFuncs \subseteq Funcs /\ NULL \notin Funcs
ASSUME IndexAssumption == Width \in Nat \ {0} /\ NULL \notin Indices

VARIABLES
  now,       \* uint32(time.Now().UnixNano())
  proto,     \* proto[f]: the function that is f's prototype, or NULL
  own,       \* own[f]: f's own hidden idx property, or NULL
  held,      \* the functions that scripts refer to
  alive,     \* the functions that have not been finalized
  stash,     \* stash[i]: the function under index i, or NULL
  closures,  \* Go's closures: [func, from, idx], made for func, which had its
             \* index idx from from; a call of it calls stash[idx]
  deletions  \* history: <<f, i>>, the finalizer of f has deleted the entry of i

vars == <<now, proto, own, held, alive, stash, closures, deletions>>

\* makeProxyObject has given the Go functions their ids already.
Init ==
  /\ now = 0
  /\ proto = [f \in Funcs |-> NULL]
  /\ own \in [Funcs -> Indices \cup {NULL}]
  /\ \A f \in Funcs : own[f] # NULL <=> f \in GoFuncs
  /\ held = Funcs
  /\ alive = Funcs
  /\ stash = [i \in Indices |-> NULL]
  /\ closures = {}
  /\ deletions = {}

-----------------------------------------------------------------------------
\* f and the functions on its prototype chain: the smallest such set.
Closed(S) == \A g \in S : proto[g] # NULL => proto[g] \in S
Chain(f) == {g \in Funcs : \A S \in SUBSET Funcs : f \in S /\ Closed(S) => g \in S}

\* Those that a lookup on f finds an index on.  The index of a Go function is
\* on the target of its proxy, where heirs of the proxy do not look.
Indexed(f) == {g \in Chain(f) : own[g] # NULL /\ (g \in GoFuncs => g = f)}

\* The one that f gets its index and its finalizer from, NULL if none: the
\* first of them.
Owner(f) ==
  IF Indexed(f) = {} THEN NULL
  ELSE CHOOSE g \in Indexed(f) : Indexed(f) \subseteq Chain(g)
IndexOf(f) == own[Owner(f)]

\* What keeps a function alive: scripts, the stash, and heirs that are kept.
WeakRoots == held    \* variant: the stash holds no reference
Roots == held \cup {stash[i] : i \in Indices}
Kept(f) == \E g \in Roots \cap Funcs : f \in Chain(g)

\* The index the function has already, through its prototypes if need be.
NoIndex(f) == FALSE  \* variant: every function that leaves is given a new index
HasIndex(f) == Owner(f) # NULL

\* stash[idx] = function
Stashed(f, i) == f

\* uint32(n)
Uint32(n) == n % Width

-----------------------------------------------------------------------------
Tick ==
  /\ now' = Uint32(now + 1)
  /\ UNCHANGED <<proto, own, held, alive, stash, closures, deletions>>

\* Object.setPrototypeOf(f, g) or f.__proto__ = g; a cycle is refused.
SetPrototype(f, g) ==
  /\ f \in held /\ g \in held \cup {NULL}
  /\ g # NULL => f \notin Chain(g)
  /\ proto' = [proto EXCEPT ![f] = g]
  /\ UNCHANGED <<now, own, held, alive, stash, closures, deletions>>

\* Object.getPrototypeOf(f)
GetPrototype(f) ==
  /\ f \in held /\ proto[f] # NULL
  /\ held' = held \cup {proto[f]}
  /\ UNCHANGED <<now, proto, own, alive, stash, closures, deletions>>

\* fromJsFunc, for a function that has or inherits an index.
FromKnownFunc(f) ==
  /\ f \in held
  /\ HasIndex(f)
  /\ closures' = closures \cup {[func |-> f, from |-> Owner(f), idx |-> IndexOf(f)]}
  /\ UNCHANGED <<now, proto, own, held, alive, stash, deletions>>

\* fromJsFunc, for another function: index, finalizer and stash entry.
FromNewFunc(f) ==
  /\ f \in held
  /\ ~HasIndex(f)
  /\ own' = [own EXCEPT ![f] = now]
  /\ stash' = [stash EXCEPT ![now] = Stashed(f, now)]
  /\ closures' = closures \cup {[func |-> f, from |-> f, idx |-> now]}
  /\ UNCHANGED <<now, proto, held, alive, deletions>>

\* Go calls a closure: the function runs and may leave itself to a script.
CallBack(c) ==
  /\ stash[c.idx] # NULL
  /\ held' = held \cup {stash[c.idx]}
  /\ UNCHANGED <<now, proto, own, alive, stash, closures, deletions>>

\* Scripts drop their last reference to f.
Drop(f) ==
  /\ f \in held
  /\ held' = held \ {f}
  /\ UNCHANGED <<now, proto, own, alive, stash, closures, deletions>>

\* f is collected.  Its finalizer, own or inherited, is freeJsFunc; that of a
\* Go function's target, freeTarget, is in ProxyStores.
Finalize(f) ==
  /\ f \in alive
  /\ ~Kept(f)
  /\ alive' = alive \ {f}
  /\ \/ /\ Owner(f) \in GoFuncs \cup {NULL}
        /\ UNCHANGED <<stash, deletions>>
     \/ /\ Owner(f) \notin GoFuncs \cup {NULL}
        /\ stash' = [stash EXCEPT ![IndexOf(f)] = NULL]
        /\ deletions' = deletions \cup {<<f, IndexOf(f)>>}
  /\ UNCHANGED <<now, proto, own, held, closures>>

Next ==
  \/ Tick
  \/ \E f \in Funcs :
       \/ GetPrototype(f) \/ FromKnownFunc(f) \/ FromNewFunc(f) \/ Drop(f) \/ Finalize(f)
       \/ \E g \in Funcs \cup {NULL} : SetPrototype(f, g)
  \/ \E c \in closures : CallBack(c)

Spec == Init /\ [][Next]_vars
-----------------------------------------------------------------------------
TypeOK ==
  /\ now \in Indices
  /\ proto \in [Funcs -> Funcs \cup {NULL}]
  /\ own \in [Funcs -> Indices \cup {NULL}]
  /\ held \subseteq alive /\ alive \subseteq Funcs
  /\ stash \in [Indices -> Funcs \cup {NULL}]
  /\ closures \subseteq [func : Funcs, from : Funcs, idx : Indices]
  /\ deletions \subseteq Funcs \X Indices

\* A closure calls the function that the exported one had its index from, or
\* one that the clock gave the same index: without a collision only the
\* former, whatever has become of the prototypes since.
CallsOwner ==
  \A c \in closures :
    stash[c.idx] \in {c.from, NULL} \/ own[stash[c.idx]] = own[c.from]

\* The closure of a JavaScript function always finds one, however often the
\* function is exported, dropped and called and whatever is collected in
\* between, unless the finalizer of one function has deleted the entry of
\* another one with its index.
LostNeedsSharer ==
  \A c \in closures :
    stash[c.idx] = NULL /\ c.from \notin GoFuncs
      => \E f, g \in Funcs : f # g /\ <<f, c.idx>> \in deletions /\ own[g] = c.idx

\* All closures made for a function as the owner of its index have that
\* index, however its prototypes change: only those that were made while it
\* inherited one can differ.
OneIndex ==
  \A c \in closures : c.from = c.func => c.idx = own[c.func]

\* The stash entry that freeJsFunc is to delete keeps the function from being
\* collected: a JavaScript function that has been given an index is never
\* finalized, unless its entry went to, or was deleted for, another one.
ExportedStays ==
  \A f \in Funcs \ (alive \cup GoFuncs) :
    own[f] # NULL
      => \E g \in Funcs \ {f} : own[g] = own[f] \/ <<g, own[f]>> \in deletions
=============================================================================
