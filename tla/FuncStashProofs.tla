-------------------------- MODULE FuncStashProofs --------------------------
(***************************************************************************)
(* Which function a Go closure calls, when it finds none, and which        *)
(* functions the stash keeps, for every set of functions, every number of  *)
(* indices and whatever scripts do with the prototypes.                    *)
(*                                                                         *)
(* Chain(f) is defined as the smallest set with f that is closed under     *)
(* proto, so that what a lookup finds is proved by minimality and not by   *)
(* an induction over the chain (FirstIndexed).                             *)
(***************************************************************************)
EXTENDS FuncStash, TLAPS

\* Functions that scripts, the stash or heirs refer to are not collected.
KeptAlive == \A f \in Funcs : Kept(f) => f \in alive

\* An entry of the stash is a JavaScript function that has its index.
EntriesOwned ==
  \A i \in Indices : stash[i] # NULL => own[stash[i]] = i /\ stash[i] \notin GoFuncs

\* A closure has the index of the function that it got it from.
ClosuresOK == \A c \in closures : own[c.from] = c.idx

\* Go functions have their ids.
GoOwn == \A g \in GoFuncs : own[g] # NULL

\* The entry of a JavaScript function with an index is there, or went to a
\* function with the same index, or was deleted for another function.
Elsewhere(f) == \E g \in Funcs \ {f} : own[g] = own[f] \/ <<g, own[f]>> \in deletions
EntryOK == \A f \in Funcs \ GoFuncs : own[f] # NULL => stash[own[f]] = f \/ Elsewhere(f)

\* It is missing only if a finalizer deleted the entry of another function.
Lost(i) == \E f, g \in Funcs : f # g /\ <<f, i>> \in deletions /\ own[g] = i
LostOK == \A f \in Funcs \ GoFuncs :
            own[f] # NULL /\ stash[own[f]] = NULL => Lost(own[f])

IInv ==
  /\ TypeOK /\ KeptAlive /\ EntriesOwned /\ ClosuresOK /\ GoOwn
  /\ EntryOK /\ LostOK /\ ExportedStays

-----------------------------------------------------------------------------
\* f is on its own prototype chain, and so are the prototypes of what is.
LEMMA ChainClosed ==
  ASSUME proto \in [Funcs -> Funcs \cup {NULL}], NEW f \in Funcs
  PROVE  f \in Chain(f) /\ Chain(f) \subseteq Funcs /\ Closed(Chain(f))
  BY DEF Chain, Closed

\* The chain is the smallest such set.
LEMMA ChainLeast ==
  ASSUME NEW f \in Funcs, NEW S \in SUBSET Funcs, f \in S, Closed(S)
  PROVE  Chain(f) \subseteq S
  BY DEF Chain

\* A chain is its first function and the chain of that one's prototype.
LEMMA ChainUnfold ==
  ASSUME proto \in [Funcs -> Funcs \cup {NULL}], NEW f \in Funcs
  PROVE  /\ proto[f] = NULL => Chain(f) \subseteq {f}
         /\ proto[f] # NULL => Chain(f) \subseteq {f} \cup Chain(proto[f])
<1>1. CASE proto[f] = NULL
  <2>1. {f} \in SUBSET Funcs /\ f \in {f} /\ Closed({f})
    BY <1>1 DEF Closed
  <2>2. Chain(f) \subseteq {f}
    BY <2>1, ChainLeast
  <2> QED
    BY <1>1, <2>2
<1>2. CASE proto[f] # NULL
  <2> DEFINE S == {f} \cup Chain(proto[f])
  <2>1. proto[f] \in Funcs
    BY <1>2
  <2>2. proto[f] \in Chain(proto[f]) /\ Closed(Chain(proto[f])) /\ S \in SUBSET Funcs
    BY <2>1, ChainClosed
  <2>3. Closed(S)
    BY <2>2 DEF Closed
  <2> QED
    BY <1>2, <2>2, <2>3, ChainLeast
<1> QED
  BY <1>1, <1>2

\* A lookup (js-func.go:89) finds the first index on the chain: if there is
\* any, there is one on whose own chain all the others are.
LEMMA FirstIndexed ==
  ASSUME proto \in [Funcs -> Funcs \cup {NULL}], FuncsAssumption, NEW f \in Funcs
  PROVE  /\ Indexed(f) # {} => Owner(f) \in Indexed(f)
         /\ HasIndex(f) <=> Indexed(f) # {}
<1> DEFINE O == Indexed(f)
<1>1. O \subseteq Chain(f) /\ Chain(f) \subseteq Funcs /\ f \in Chain(f) /\ Closed(Chain(f))
  BY ChainClosed DEF Indexed
<1>2. ASSUME O # {} PROVE \E g \in O : O \subseteq Chain(g)
  <2> SUFFICES ASSUME \A g \in O : ~(O \subseteq Chain(g)) PROVE FALSE
    OBVIOUS
  <2> DEFINE B == {h \in Chain(f) : O \subseteq Chain(h)}
  <2>1. f \in B /\ B \in SUBSET Funcs
    BY <1>1
  <2>2. ASSUME NEW h \in B, proto[h] # NULL PROVE proto[h] \in B
    <3> HIDE DEF O
    <3>1. h \in Funcs /\ h \notin O /\ O \subseteq Chain(h) /\ proto[h] \in Chain(f)
      BY <2>2, <1>1 DEF Closed
    <3>2. Chain(h) \subseteq {h} \cup Chain(proto[h])
      BY <2>2, <3>1, ChainUnfold
    <3> QED
      BY <3>1, <3>2
  <2>3. Chain(f) \subseteq B
    BY <2>1, <2>2, ChainLeast DEF Closed
  <2> QED
    BY <1>1, <1>2, <2>3
<1>3. O # {} => Owner(f) \in O
  BY <1>2 DEF Owner
<1>4. HasIndex(f) <=> O # {}
  BY <1>1, <1>3 DEF HasIndex, Owner, FuncsAssumption
<1> QED
  BY <1>3, <1>4

\* What a function that has or inherits an index gets, and that a function
\* without one has none of its own.
LEMMA OwnerOK ==
  ASSUME TypeOK, FuncsAssumption, NEW f \in Funcs
  PROVE  /\ HasIndex(f) => Owner(f) \in Funcs /\ IndexOf(f) # NULL /\ IndexOf(f) \in Indices
         /\ ~HasIndex(f) => own[f] = NULL
<1>1. f \in Chain(f) /\ Chain(f) \subseteq Funcs
  BY ChainClosed DEF TypeOK
<1>2. Indexed(f) # {} => Owner(f) \in Indexed(f)
  BY FirstIndexed DEF TypeOK
<1>3. HasIndex(f) <=> Indexed(f) # {}
  BY FirstIndexed DEF TypeOK
<1>4. own[f] # NULL => f \in Indexed(f)
  BY <1>1 DEF Indexed
<1>5. HasIndex(f) => Owner(f) \in Funcs /\ own[Owner(f)] # NULL
  BY <1>1, <1>2, <1>3 DEF Indexed
<1> QED
  BY <1>3, <1>4, <1>5 DEF IndexOf, TypeOK

\* What scripts or the stash refer to is kept, and so are its prototypes.
LEMMA RootKept ==
  ASSUME TypeOK, NEW f \in Funcs, f \in Roots
  PROVE  Kept(f) /\ (proto[f] # NULL => proto[f] \in Funcs /\ Kept(proto[f]))
<1>1. f \in Chain(f) /\ Chain(f) \subseteq Funcs /\ Closed(Chain(f))
  BY ChainClosed DEF TypeOK
<1> QED
  BY <1>1 DEF Kept, Closed

\* A step that leaves the prototypes alone and lets only kept functions and
\* prototypes in to the roots keeps no function that was not kept before.
LEMMA KeptFrame ==
  ASSUME TypeOK, KeptAlive, proto' = proto, NEW f \in Funcs, Kept(f)',
         \A h \in Funcs : h \in Roots' => Kept(h)
  PROVE  Kept(f) /\ f \in alive
<1>1. \A h \in Funcs : Chain(h)' = Chain(h)
  BY DEF Chain, Closed
<1>2. PICK g \in Funcs : g \in Roots' /\ f \in Chain(g)
  BY <1>1 DEF Kept
<1>3. PICK h \in Roots \cap Funcs : g \in Chain(h)
  BY <1>2 DEF Kept
<1>4. Closed(Chain(h)) /\ Chain(h) \subseteq Funcs
  BY ChainClosed DEF TypeOK
<1>5. Chain(g) \subseteq Chain(h)
  BY <1>3, <1>4, ChainLeast
<1> QED
  BY <1>2, <1>3, <1>5 DEF Kept, KeptAlive

-----------------------------------------------------------------------------
LEMMA InitHolds == Init => IInv
<1> SUFFICES ASSUME Init PROVE IInv
  OBVIOUS
<1> USE FuncsAssumption, IndexAssumption DEF Init
<1>1. TypeOK
  BY DEF TypeOK, Indices, FuncsAssumption, IndexAssumption
<1>2. KeptAlive
  BY DEF KeptAlive
<1>3. EntriesOwned /\ ClosuresOK /\ GoOwn
  BY DEF EntriesOwned, ClosuresOK, GoOwn, FuncsAssumption
<1>4. EntryOK /\ LostOK /\ ExportedStays
  BY DEF EntryOK, LostOK, ExportedStays
<1> QED
  BY <1>1, <1>2, <1>3, <1>4 DEF IInv

\* A step that changes neither the indices nor the stash, and finalizes
\* nothing.
LEMMA HeldFrame ==
  ASSUME IInv, UNCHANGED <<own, stash, deletions, alive>>, TypeOK', KeptAlive', ClosuresOK'
  PROVE  IInv'
<1>1. EntriesOwned' /\ GoOwn'
  BY DEF IInv, EntriesOwned, GoOwn
<1>2. EntryOK' /\ LostOK' /\ ExportedStays'
  BY DEF IInv, EntryOK, Elsewhere, LostOK, Lost, ExportedStays
<1> QED
  BY <1>1, <1>2 DEF IInv

LEMMA TickStep == ASSUME IInv, Tick PROVE IInv'
<1> USE DEF Tick
<1>1. now' \in Indices
  BY IndexAssumption DEF IInv, TypeOK, Uint32, Indices, IndexAssumption
<1>2. TypeOK'
  BY <1>1 DEF IInv, TypeOK
<1>3. KeptAlive'
  BY DEF IInv, KeptAlive, Kept, Chain, Closed, Roots
<1>4. ClosuresOK'
  BY DEF IInv, ClosuresOK
<1> QED
  BY <1>2, <1>3, <1>4, HeldFrame

\* The chains that pass f now go on along the chain of g: both were kept.
LEMMA SetPrototypeStep ==
  ASSUME IInv, NEW f \in Funcs, NEW g \in Funcs \cup {NULL}, SetPrototype(f, g)
  PROVE  IInv'
<1>1. /\ f \in held /\ g \in held \cup {NULL}
      /\ proto' = [proto EXCEPT ![f] = g]
      /\ UNCHANGED <<now, own, held, alive, stash, closures, deletions>>
  BY DEF SetPrototype
<1>2. proto \in [Funcs -> Funcs \cup {NULL}] /\ Roots' = Roots
  BY <1>1 DEF IInv, TypeOK, Roots
<1>3. TypeOK'
  BY <1>1 DEF IInv, TypeOK
<1>4. KeptAlive'
  <2> SUFFICES ASSUME NEW x \in Funcs, Kept(x)' PROVE x \in alive
    BY <1>1 DEF KeptAlive
  <2>1. PICK h \in Roots \cap Funcs : x \in Chain(h)'
    BY <1>2 DEF Kept
  <2> PICK G : G = IF g = NULL THEN {} ELSE Chain(g)
    OBVIOUS
  <2>2. h \in Chain(h) /\ Chain(h) \subseteq Funcs /\ Closed(Chain(h))
    BY <1>2, ChainClosed
  <2>3. g # NULL => g \in G /\ G \subseteq Funcs /\ Closed(G)
    BY <1>2, ChainClosed
  <2>4. PICK S \in SUBSET Funcs : S = Chain(h) \cup G /\ h \in S
    BY <2>2, <2>3
  <2>5. Closed(S)'
    <3> SUFFICES ASSUME NEW y \in S, proto'[y] # NULL PROVE proto'[y] \in S
      BY DEF Closed
    <3>1. CASE y = f
      BY <3>1, <1>1, <1>2, <2>3, <2>4
    <3>2. CASE y # f
      <4>1. proto'[y] = proto[y]
        BY <3>2, <1>1, <1>2, <2>4
      <4>2. CASE y \in Chain(h)
        BY <4>1, <4>2, <2>2, <2>4 DEF Closed
      <4>3. CASE y \in G
        BY <4>1, <4>3, <2>3, <2>4 DEF Closed
      <4> QED
        BY <2>4, <4>2, <4>3
    <3> QED
      BY <3>1, <3>2
  <2>6. x \in S
    BY <2>1, <2>4, <2>5 DEF Chain
  <2>7. CASE x \in Chain(h)
    BY <2>7, <2>1 DEF IInv, KeptAlive, Kept
  <2>8. CASE x \in G
    <3>1. g \in Roots \cap Funcs
      BY <2>8, <1>1 DEF Roots
    <3> QED
      BY <2>8, <3>1 DEF IInv, KeptAlive, Kept
  <2> QED
    BY <2>4, <2>6, <2>7, <2>8
<1>5. ClosuresOK'
  BY <1>1 DEF IInv, ClosuresOK
<1> QED
  BY <1>1, <1>3, <1>4, <1>5, HeldFrame

\* Scripts get or drop a reference to a function that is kept.
LEMMA ReferenceSteps ==
  ASSUME IInv, NEW f \in Funcs, Kept(f), NEW S \in SUBSET {f}, NEW T,
         held' = (held \cup S) \ T,
         UNCHANGED <<now, proto, own, alive, stash, closures, deletions>>
  PROVE  IInv'
<1>1. f \in alive
  BY DEF IInv, KeptAlive
<1>2. TypeOK'
  BY <1>1 DEF IInv, TypeOK
<1>3. \A h \in Funcs : h \in Roots' => Kept(h)
  BY RootKept DEF Roots, IInv
<1>4. KeptAlive'
  BY <1>3, KeptFrame DEF IInv, KeptAlive
<1>5. ClosuresOK'
  BY DEF IInv, ClosuresOK
<1> QED
  BY <1>2, <1>4, <1>5, HeldFrame

LEMMA ReferencesStep ==
  ASSUME IInv,
         \/ \E f \in Funcs : GetPrototype(f) \/ Drop(f)
         \/ \E c \in closures : CallBack(c)
  PROVE  IInv'
<1>1. ASSUME NEW f \in Funcs, GetPrototype(f) PROVE IInv'
  <2>1. f \in Roots /\ proto[f] # NULL
    BY <1>1 DEF GetPrototype, Roots
  <2>2. proto[f] \in Funcs /\ Kept(proto[f])
    BY <2>1, RootKept DEF IInv
  <2>3. held' = (held \cup {proto[f]}) \ {}
    BY <1>1 DEF GetPrototype
  <2> QED
    BY <1>1, <2>2, <2>3, ReferenceSteps DEF GetPrototype
<1>2. ASSUME NEW f \in Funcs, Drop(f) PROVE IInv'
  <2>1. f \in Roots
    BY <1>2 DEF Drop, Roots
  <2>2. Kept(f)
    BY <2>1, RootKept DEF IInv
  <2>3. held' = (held \cup {}) \ {f}
    BY <1>2 DEF Drop
  <2> QED
    BY <1>2, <2>2, <2>3, ReferenceSteps DEF Drop
<1>3. ASSUME NEW c \in closures, CallBack(c) PROVE IInv'
  <2>1. c.idx \in Indices
    BY DEF IInv, TypeOK
  <2>2. stash[c.idx] \in Funcs /\ stash[c.idx] \in Roots
    BY <1>3, <2>1 DEF CallBack, IInv, TypeOK, Roots
  <2>3. Kept(stash[c.idx])
    BY <2>2, RootKept DEF IInv
  <2>4. held' = (held \cup {stash[c.idx]}) \ {}
    BY <1>3 DEF CallBack
  <2> QED
    BY <1>3, <2>2, <2>3, <2>4, ReferenceSteps DEF CallBack
<1> QED
  BY <1>1, <1>2, <1>3

LEMMA FromKnownFuncStep ==
  ASSUME IInv, NEW f \in Funcs, FromKnownFunc(f)
  PROVE  IInv'
<1> DEFINE c == [func |-> f, from |-> Owner(f), idx |-> IndexOf(f)]
<1>1. /\ HasIndex(f) /\ closures' = closures \cup {c}
      /\ UNCHANGED <<now, proto, own, held, alive, stash, deletions>>
  BY DEF FromKnownFunc
<1>2. Owner(f) \in Funcs /\ IndexOf(f) \in Indices
  BY <1>1, OwnerOK, FuncsAssumption DEF IInv
<1>3. c \in [func : Funcs, from : Funcs, idx : Indices] /\ own[c.from] = c.idx
  BY <1>2 DEF IndexOf
<1> HIDE DEF c
<1>4. TypeOK'
  BY <1>1, <1>3 DEF IInv, TypeOK
<1>5. KeptAlive'
  BY <1>1 DEF IInv, KeptAlive, Kept, Chain, Closed, Roots
<1>6. ClosuresOK'
  BY <1>1, <1>3 DEF IInv, ClosuresOK
<1> QED
  BY <1>1, <1>4, <1>5, <1>6, HeldFrame

\* f has no index yet; who had the entry of now has an index that f has too.
LEMMA FromNewFuncStep ==
  ASSUME IInv, NEW f \in Funcs, FromNewFunc(f)
  PROVE  IInv'
<1> DEFINE c == [func |-> f, from |-> f, idx |-> now]
<1>1. /\ f \in held /\ own' = [own EXCEPT ![f] = now]
      /\ stash' = [stash EXCEPT ![now] = f]
      /\ closures' = closures \cup {c}
      /\ UNCHANGED <<now, proto, held, alive, deletions>>
  BY DEF FromNewFunc, Stashed
<1>2. /\ own[f] = NULL /\ now \in Indices /\ now # NULL /\ f \notin GoFuncs /\ f # NULL
  BY OwnerOK, FuncsAssumption, IndexAssumption
     DEF FromNewFunc, IInv, TypeOK, GoOwn, FuncsAssumption, IndexAssumption
<1>3. /\ own'[f] = now /\ (\A g \in Funcs \ {f} : own'[g] = own[g])
      /\ stash'[now] = f /\ (\A i \in Indices \ {now} : stash'[i] = stash[i])
      /\ own' \in [Funcs -> Indices \cup {NULL}] /\ stash' \in [Indices -> Funcs \cup {NULL}]
  BY <1>1, <1>2 DEF IInv, TypeOK
<1>4. c \in [func : Funcs, from : Funcs, idx : Indices] /\ own'[c.from] = c.idx /\ c.from = f
  BY <1>2, <1>3
<1> HIDE DEF c
<1>5. TypeOK'
  BY <1>1, <1>3, <1>4 DEF IInv, TypeOK
<1>6. KeptAlive'
  <2>1. \A i \in Indices : stash'[i] \in {f, stash[i]}
    BY <1>3
  <2>2. \A h \in Funcs : h \in Roots' => h = f \/ h \in Roots
    BY <1>1, <2>1 DEF Roots
  <2>3. f \in Roots
    BY <1>1 DEF Roots
  <2>4. \A h \in Funcs : h \in Roots' => Kept(h)
    BY <2>2, <2>3, RootKept DEF IInv
  <2> QED
    BY <1>1, <2>4, KeptFrame DEF IInv, KeptAlive
<1>7. EntriesOwned'
  <2> SUFFICES ASSUME NEW i \in Indices, stash'[i] # NULL
               PROVE  own'[stash'[i]] = i /\ stash'[i] \notin GoFuncs
    BY DEF EntriesOwned
  <2>1. CASE i = now
    BY <2>1, <1>2, <1>3
  <2>2. CASE i # now
    <3>1. stash'[i] = stash[i] /\ own[stash[i]] = i /\ stash[i] \notin GoFuncs /\ stash[i] \in Funcs
      BY <2>2, <1>3 DEF IInv, EntriesOwned, TypeOK
    <3>2. stash[i] # f
      BY <3>1, <1>2, IndexAssumption DEF IndexAssumption
    <3> QED
      BY <3>1, <3>2, <1>3
  <2> QED
    BY <2>1, <2>2
<1>8. ClosuresOK'
  <2> SUFFICES ASSUME NEW d \in closures PROVE own'[d.from] = d.idx
    BY <1>1, <1>4 DEF ClosuresOK
  <2>1. d.from \in Funcs /\ d.idx \in Indices /\ own[d.from] = d.idx
    BY DEF IInv, TypeOK, ClosuresOK
  <2> QED
    BY <2>1, <1>2, <1>3, IndexAssumption DEF IndexAssumption
<1>9. GoOwn'
  BY <1>2, <1>3, FuncsAssumption DEF IInv, GoOwn, FuncsAssumption
<1>10. ASSUME NEW g \in Funcs \ GoFuncs, own'[g] # NULL, g # f
       PROVE  /\ own'[g] = own[g] /\ own[g] # NULL /\ own[g] \in Indices
              /\ own[g] = now => Elsewhere(g)'
              /\ own[g] # now => stash'[own[g]] = stash[own[g]]
              /\ Elsewhere(g) => Elsewhere(g)'
  <2>1. own'[g] = own[g] /\ own[g] # NULL /\ own[g] \in Indices
    BY <1>10, <1>3 DEF IInv, TypeOK
  <2>2. own[g] = now => Elsewhere(g)'
    BY <2>1, <1>3, <1>10 DEF Elsewhere
  <2>3. ASSUME Elsewhere(g) PROVE Elsewhere(g)'
    <3>1. PICK h \in Funcs \ {g} : own[h] = own[g] \/ <<h, own[g]>> \in deletions
      BY <2>3 DEF Elsewhere
    <3>2. own[h] = own[g] => own'[h] = own'[g]
      BY <2>1, <1>2, <1>3
    <3>3. <<h, own[g]>> \in deletions => <<h, own'[g]>> \in deletions'
      BY <2>1, <1>1
    <3> QED
      BY <3>1, <3>2, <3>3 DEF Elsewhere
  <2> QED
    BY <2>1, <2>2, <2>3, <1>3
<1>11. EntryOK'
  <2> SUFFICES ASSUME NEW g \in Funcs \ GoFuncs, own'[g] # NULL
               PROVE  stash'[own'[g]] = g \/ Elsewhere(g)'
    BY DEF EntryOK
  <2>1. CASE g = f
    BY <2>1, <1>3
  <2>2. CASE g # f
    BY <2>2, <1>10 DEF IInv, EntryOK
  <2> QED
    BY <2>1, <2>2
<1>12. LostOK'
  <2> SUFFICES ASSUME NEW g \in Funcs \ GoFuncs, own'[g] # NULL, stash'[own'[g]] = NULL
               PROVE  Lost(own[g])'
    BY DEF LostOK
  <2>1. g # f
    BY <1>2, <1>3
  <2>2. own'[g] = own[g] /\ own[g] # NULL /\ stash[own[g]] = NULL
    BY <2>1, <1>2, <1>3, <1>10
  <2>3. PICK x, y \in Funcs : x # y /\ <<x, own[g]>> \in deletions /\ own[y] = own[g]
    BY <2>2 DEF IInv, LostOK, Lost
  <2>4. own'[y] = own'[g]
    BY <2>2, <2>3, <1>2, <1>3
  <2>5. <<x, own'[g]>> \in deletions'
    BY <2>2, <2>3, <1>1
  <2> QED
    BY <2>3, <2>4, <2>5 DEF Lost
<1>13. ExportedStays'
  <2> SUFFICES ASSUME NEW g \in Funcs, g \notin alive, g \notin GoFuncs, own'[g] # NULL
               PROVE  Elsewhere(g)'
    BY <1>1 DEF ExportedStays, Elsewhere
  <2>1. g # f
    BY <1>1 DEF IInv, TypeOK
  <2>2. own[g] # NULL /\ (Elsewhere(g) => Elsewhere(g)')
    BY <2>1, <1>10
  <2>3. Elsewhere(g)
    BY <2>2 DEF IInv, ExportedStays, Elsewhere
  <2> QED
    BY <2>2, <2>3
<1> QED
  BY <1>5, <1>6, <1>7, <1>8, <1>9, <1>11, <1>12, <1>13 DEF IInv

\* A function that is collected is not the one under its index: the stash
\* would have kept it.
LEMMA FinalizeStep ==
  ASSUME IInv, NEW f \in Funcs, Finalize(f)
  PROVE  IInv'
<1>1. /\ f \in alive /\ ~Kept(f) /\ alive' = alive \ {f}
      /\ UNCHANGED <<now, proto, own, held, closures>>
  BY DEF Finalize
<1>2. \A i \in Indices : stash[i] # f
  <2>1. \A i \in Indices : stash[i] = f => f \in Roots
    BY DEF Roots
  <2> QED
    BY <2>1, <1>1, RootKept DEF IInv
<1>3. PICK D \in SUBSET Indices :
        /\ stash' = [i \in Indices |-> IF i \in D THEN NULL ELSE stash[i]]
        /\ deletions' = deletions \cup {<<f, i>> : i \in D}
  <2>1. CASE UNCHANGED <<stash, deletions>>
    <3>1. stash' = [i \in Indices |-> IF i \in {} THEN NULL ELSE stash[i]]
      BY <2>1 DEF IInv, TypeOK
    <3>2. deletions' = deletions \cup {<<f, i>> : i \in {}}
      BY <2>1
    <3> QED
      BY <3>1, <3>2
  <2>2. CASE /\ Owner(f) \notin GoFuncs \cup {NULL}
             /\ stash' = [stash EXCEPT ![IndexOf(f)] = NULL]
             /\ deletions' = deletions \cup {<<f, IndexOf(f)>>}
    <3> DEFINE j == IndexOf(f)
    <3>1. j \in Indices
      BY <2>2, OwnerOK, FuncsAssumption DEF IInv, HasIndex
    <3> HIDE DEF j
    <3>2. stash' = [i \in Indices |-> IF i \in {j} THEN NULL ELSE stash[i]]
      BY <2>2, <3>1 DEF IInv, TypeOK, j
    <3>3. deletions' = deletions \cup {<<f, i>> : i \in {j}}
      BY <2>2 DEF j
    <3> QED
      BY <3>1, <3>2, <3>3
  <2> QED
    BY <2>1, <2>2 DEF Finalize
<1>4. /\ \A i \in Indices : stash'[i] \in {NULL, stash[i]}
      /\ \A i \in Indices : stash'[i] # stash[i] => <<f, i>> \in deletions'
      /\ deletions \subseteq deletions' /\ deletions' \subseteq Funcs \X Indices
      /\ stash' \in [Indices -> Funcs \cup {NULL}]
  BY <1>3 DEF IInv, TypeOK
<1> HIDE DEF Finalize
<1>5. \A h \in Funcs : h \in Roots' => h \in Roots
  BY <1>1, <1>4, FuncsAssumption DEF Roots, FuncsAssumption
<1>6. \A h \in Funcs : Kept(h)' => Kept(h) /\ h \in alive
  BY <1>1, <1>5, RootKept, KeptFrame DEF IInv
<1>7. KeptAlive'
  BY <1>1, <1>6 DEF KeptAlive
<1>8. TypeOK'
  <2>1. f \notin held
    BY <1>1, RootKept DEF IInv, Roots
  <2> QED
    BY <2>1, <1>1, <1>4 DEF IInv, TypeOK
<1>9. EntriesOwned' /\ ClosuresOK' /\ GoOwn'
  BY <1>1, <1>4 DEF IInv, EntriesOwned, ClosuresOK, GoOwn
<1>10. \A g \in Funcs : Elsewhere(g) => Elsewhere(g)'
  BY <1>1, <1>4 DEF Elsewhere
<1>11. EntryOK'
  <2> SUFFICES ASSUME NEW g \in Funcs \ GoFuncs, own[g] # NULL
               PROVE  stash'[own[g]] = g \/ Elsewhere(g)'
    BY <1>1 DEF EntryOK
  <2>1. own[g] \in Indices
    BY DEF IInv, TypeOK
  <2>2. CASE Elsewhere(g)
    BY <2>2, <1>10
  <2>3. CASE stash[own[g]] = g
    <3>1. g # f
      BY <2>1, <2>3, <1>2
    <3>2. stash'[own[g]] = g \/ <<f, own[g]>> \in deletions'
      BY <2>1, <2>3, <1>4
    <3> QED
      BY <3>1, <3>2, <1>1 DEF Elsewhere
  <2> QED
    BY <2>2, <2>3 DEF IInv, EntryOK
<1>12. LostOK'
  <2> SUFFICES ASSUME NEW g \in Funcs \ GoFuncs, own[g] # NULL, stash'[own[g]] = NULL
               PROVE  Lost(own[g])'
    BY <1>1 DEF LostOK
  <2>1. own[g] \in Indices
    BY DEF IInv, TypeOK
  <2>2. CASE stash[own[g]] = NULL
    <3>1. PICK x, y \in Funcs : x # y /\ <<x, own[g]>> \in deletions /\ own[y] = own[g]
      BY <2>2 DEF IInv, LostOK, Lost
    <3> QED
      BY <3>1, <1>1, <1>4 DEF Lost
  <2>3. CASE stash[own[g]] # NULL
    <3>1. /\ stash[own[g]] \in Funcs /\ own[stash[own[g]]] = own[g] /\ stash[own[g]] # f
          /\ <<f, own[g]>> \in deletions'
      BY <2>1, <2>3, <1>2, <1>4 DEF IInv, TypeOK, EntriesOwned
    <3> QED
      BY <3>1, <1>1 DEF Lost
  <2> QED
    BY <2>2, <2>3
<1>13. ExportedStays'
  <2> SUFFICES ASSUME NEW g \in Funcs, g \notin alive', g \notin GoFuncs, own[g] # NULL
               PROVE  Elsewhere(g)'
    BY <1>1 DEF ExportedStays, Elsewhere
  <2>1. CASE g = f
    <3>1. own[g] \in Indices
      BY DEF IInv, TypeOK
    <3>2. Elsewhere(g)
      BY <2>1, <3>1, <1>2 DEF IInv, EntryOK
    <3> QED
      BY <3>2, <1>10
  <2>2. CASE g # f
    BY <2>2, <1>1, <1>10 DEF IInv, ExportedStays, Elsewhere
  <2> QED
    BY <2>1, <2>2
<1> QED
  BY <1>7, <1>8, <1>9, <1>11, <1>12, <1>13 DEF IInv

LEMMA StepHolds == IInv /\ [Next]_vars => IInv'
<1> SUFFICES ASSUME IInv, [Next]_vars PROVE IInv'
  OBVIOUS
<1>1. CASE UNCHANGED vars
  <2>1. TypeOK' /\ KeptAlive' /\ ClosuresOK'
    BY <1>1 DEF vars, IInv, TypeOK, KeptAlive, Kept, Chain, Closed, Roots, ClosuresOK
  <2> QED
    BY <1>1, <2>1, HeldFrame DEF vars
<1> QED
  BY <1>1, TickStep, SetPrototypeStep, ReferencesStep, FromKnownFuncStep,
     FromNewFuncStep, FinalizeStep DEF Next

-----------------------------------------------------------------------------
\* The inductive invariant: entries, closures and indices agree, kept
\* functions are alive, and where the entry of an exported function has gone.
THEOREM Invariant == Spec => []IInv
<1> QED
  BY InitHolds, StepHolds, PTL DEF Spec

\* A closure (js-func.go:116-121) calls the function that the exported one
\* had its index from, or one that the clock gave the same index, however
\* scripts change the prototypes before and after.
THEOREM ClosuresCallOwners == Spec => []CallsOwner
<1>1. IInv => CallsOwner
  <2> SUFFICES ASSUME IInv, NEW c \in closures, stash[c.idx] # NULL
               PROVE  own[stash[c.idx]] = own[c.from]
    BY DEF CallsOwner
  <2>1. c.idx \in Indices /\ own[c.from] = c.idx
    BY DEF IInv, TypeOK, ClosuresOK
  <2> QED
    BY <2>1 DEF IInv, EntriesOwned
<1> QED
  BY <1>1, Invariant, PTL

\* The entry of a closure is lost only when freeJsFunc ran for one function
\* (js-func.go:74) and deleted the entry of another one with its index.
THEOREM EntriesLostToSharers == Spec => []LostNeedsSharer
<1>1. IInv => LostNeedsSharer
  <2> SUFFICES ASSUME IInv, NEW c \in closures, stash[c.idx] = NULL, c.from \notin GoFuncs
               PROVE  Lost(c.idx)
    BY DEF LostNeedsSharer, Lost
  <2>1. c.idx \in Indices /\ c.from \in Funcs /\ own[c.from] = c.idx
    BY DEF IInv, TypeOK, ClosuresOK
  <2> QED
    BY <2>1, IndexAssumption DEF IInv, LostOK, IndexAssumption
<1> QED
  BY <1>1, Invariant, PTL

\* All closures that are made for a function as the owner of its index have
\* that index, whatever its prototypes do in between.
THEOREM IndexIsStable == Spec => []OneIndex
<1>1. IInv => OneIndex
  BY DEF IInv, ClosuresOK, OneIndex
<1> QED
  BY <1>1, Invariant, PTL

\* The stash keeps what freeJsFunc is to free: an exported function is never
\* collected unless its index went to another function.
THEOREM ExportedNeverFreed == Spec => []ExportedStays
<1>1. IInv => ExportedStays
  BY DEF IInv
<1> QED
  BY <1>1, Invariant, PTL
=============================================================================
