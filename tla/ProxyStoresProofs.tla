------------------------- MODULE ProxyStoresProofs -------------------------
(***************************************************************************)
(* Proofs about ProxyStores, for every finite set of contexts, addresses   *)
(* and proxies: what a proxy resolves to, what is reclaimed, what can be   *)
(* reached from a coroutine and what the stores hold that are left, while  *)
(* contexts and coroutines come and go at addresses that malloc hands out  *)
(* again.                                                                  *)
(***************************************************************************)
EXTENDS ProxyStores, FiniteSetTheorems, WellFoundedInduction, TLAPS

Places == Addrs \cup {GlobalHeap}
Excused == reused \cup cut \cup late
Made == {"live", "dead", "lost"}

\* c has its address to itself.
Held(c) == phase[c] = "live" \/ (shared[c] /\ phase[c] # "none")

\* c is not freed, and was given no address still in use.
Sound(c) == phase[c] = "live" /\ c \notin reused

ContextsOK ==
  /\ \A c, d \in Ctxs : c # d /\ Held(c) /\ Held(d) => addr[c] # addr[d]
  /\ \A c, d \in Ctxs : Sound(c) /\ phase[d] = "destroyed" => addr[d] # addr[c]
  /\ \A c \in Ctxs : phase[c] = "none" => ~shared[c]
  /\ \A c \in Ctxs : Held(c) => coOf[addr[c]] = NULL
  /\ \A a \in Addrs : coOf[a] # NULL => Held(coOf[a])

\* Every store is in the map, once, or has been deleted with a context.
RegistryOK ==
  /\ \A a, b \in Places : storeAt[a] # NULL /\ a # b => storeAt[a] # storeAt[b]
  /\ \A a \in Places : storeAt[a] # NULL => storeAt[a] \in (1 .. made) \ nil
Occupied == {a \in Places : storeAt[a] # NULL}
Gone == {c \in Ctxs : phase[c] = "freed"}
CountOK == made <= Cardinality(Occupied) + Cardinality(Gone)

\* p belongs to a context and is made on one of its threads, whose store is
\* p's until a context is freed at that address; as long as p's context is
\* sound, that is its own thread, and p's id is p's until the finalizer, run
\* on the same thread, gives it back.
HomeOK(p) ==
  pc[p] # "none" =>
    /\ maker[p] \in Ctxs /\ phase[maker[p]] # "none"
    /\ home[p] \in Addrs /\ ptr[p] \in 1 .. made
    /\ ptr[p] = storeAt[home[p]] \/ (ptr[p] \in nil /\ ~Sound(maker[p]))
    /\ maker[p] \notin reused => home[p] = addr[maker[p]]
    /\ phase[maker[p]] = "freed" /\ maker[p] \notin Excused => ptr[p] \in nil
PendingOK(p) ==
  pc[p] = "register" =>
    /\ Held(maker[p])
    /\ coOf[home[p]] = maker[p] \/ (maker[p] \in calls /\ home[p] = addr[maker[p]])
Kept(p) == table[ptr[p]][idx[p]] = p
ResolvesOK(p) ==
  pc[p] \in Made /\ Sound(maker[p]) => (Kept(p) <=> pc[p] # "dead" \/ shared[maker[p]])
ProxyOK(p) == HomeOK(p) /\ PendingOK(p) /\ ResolvesOK(p)

\* An entry is the one its proxy has registered.
EntriesOK ==
  \A s \in Stores, i \in Ids :
    table[s][i] # NULL =>
      LET p == table[s][i] IN pc[p] \in Made /\ ptr[p] = s /\ idx[p] = i

\* A sound context's store is used by its own proxies only, and that of a
\* coroutine by none, unless its context was given an address still in use.
Uses(p, a) ==
  ptr[p] = storeAt[a] /\ (pc[p] = "register" \/ (pc[p] \in Made /\ Kept(p)))
UsersOK ==
  \A p \in Proxies, a \in Addrs : Uses(p, a) =>
    /\ \A c \in Ctxs : Sound(c) /\ addr[c] = a => maker[p] = c
    /\ coOf[a] \in reused \cup {NULL}

IInv ==
  /\ TypeOK /\ ContextsOK /\ RegistryOK /\ CountOK
  /\ \A p \in Proxies : ProxyOK(p)
  /\ EntriesOK /\ UsersOK /\ CoroutinesReachNothing /\ PanicNeedsFree

-----------------------------------------------------------------------------
LEMMA Constants ==
  /\ Cardinality(Ctxs) \in Nat /\ Cardinality(Addrs) \in Nat /\ Cardinality(Proxies) \in Nat
  /\ IsFiniteSet(Places) /\ Cardinality(Places) = Cardinality(Addrs) + 1
  /\ Cardinality(Stores) = Cardinality(Addrs) + 1 + Cardinality(Ctxs)
  /\ Stores = 1 .. Cardinality(Stores)
  /\ IsFiniteSet(Ids) /\ Cardinality(Ids) = Cardinality(Proxies)
<1>1. Cardinality(Ctxs) \in Nat /\ Cardinality(Addrs) \in Nat /\ Cardinality(Proxies) \in Nat
  BY FiniteAssumption, FS_CardinalityType
<1>2. IsFiniteSet(Places) /\ Cardinality(Places) = Cardinality(Addrs) + 1
  BY FiniteAssumption, DistinctAssumption, FS_AddElement DEF Places
<1>3. Cardinality(Stores) = Cardinality(Addrs) + 1 + Cardinality(Ctxs)
  BY <1>1, FS_Interval DEF Stores
<1>4. IsFiniteSet(Ids) /\ Cardinality(Ids) = Cardinality(Proxies)
  BY <1>1, FS_Interval DEF Ids
<1> QED
  BY <1>1, <1>2, <1>3, <1>4 DEF Stores

\* There is room for one more store wherever one is missing.
LEMMA Room ==
  ASSUME TypeOK, CountOK, NEW a \in Places
  PROVE  /\ made \in Nat /\ StoreOf(a) \in Stores
         /\ storeAt[a] = NULL => made + 1 \in Stores /\ StoreOf(a) = made + 1
         /\ storeAt[a] # NULL => StoreOf(a) = storeAt[a]
         /\ IsFiniteSet(Occupied) /\ IsFiniteSet(Gone)
         /\ Cardinality(Occupied) \in Nat /\ Cardinality(Gone) \in Nat
<1>1. /\ IsFiniteSet(Occupied) /\ IsFiniteSet(Gone)
      /\ Cardinality(Occupied) <= Cardinality(Places) /\ Cardinality(Gone) <= Cardinality(Ctxs)
      /\ Cardinality(Occupied) = Cardinality(Places) => Occupied = Places
      /\ Cardinality(Occupied) \in Nat /\ Cardinality(Gone) \in Nat
  <2>1. Occupied \in SUBSET Places /\ Gone \in SUBSET Ctxs
    BY DEF Occupied, Gone
  <2>2. IsFiniteSet(Occupied) /\ IsFiniteSet(Gone)
    BY <2>1, Constants, FiniteAssumption, FS_Subset
  <2> QED
    BY <2>1, <2>2, Constants, FiniteAssumption, FS_Subset, FS_CardinalityType
<1>2. made \in Nat
  BY Constants DEF TypeOK
<1>3. storeAt[a] \in Stores \cup {NULL}
  BY DEF TypeOK, Places
<1>4. ASSUME storeAt[a] = NULL PROVE made + 1 \in Stores
  <2>1. Occupied # Places
    BY <1>4 DEF Occupied
  <2>2. made < Cardinality(Stores)
    BY <1>1, <1>2, <2>1, Constants DEF CountOK
  <2> QED
    BY <1>2, <2>2, Constants
<1> QED
  BY <1>1, <1>2, <1>3, <1>4 DEF StoreOf

\* Getting a store, made or found, keeps the registry in order.
LEMMA GetKeeps ==
  ASSUME IInv, NEW a \in Places, GetPtrStore(a), Gone' = Gone, UNCHANGED nil
  PROVE  /\ RegistryOK' /\ CountOK'
         /\ made' \in 0 .. Cardinality(Stores) /\ made <= made' /\ made \in Nat /\ made' \in Nat
         /\ nil' \subseteq 1 .. made'
         /\ storeAt' \in [Addrs \cup {GlobalHeap} -> Stores \cup {NULL}]
         /\ storeAt'[a] = StoreOf(a) /\ StoreOf(a) \in (1 .. made') \ nil /\ StoreOf(a) \in Stores
         /\ \A b \in Places \ {a} : storeAt'[b] = storeAt[b]
         /\ \A b \in Places : storeAt[b] # NULL => storeAt'[b] = storeAt[b]
         /\ \A b \in Places : storeAt[b] = NULL => storeAt'[b] \in {NULL, made + 1}
<1>1. TypeOK /\ CountOK /\ RegistryOK
  BY DEF IInv
<1>2. /\ made \in Nat /\ StoreOf(a) \in Stores
      /\ storeAt[a] = NULL => made + 1 \in Stores /\ StoreOf(a) = made + 1
      /\ storeAt[a] # NULL => StoreOf(a) = storeAt[a]
      /\ IsFiniteSet(Occupied) /\ IsFiniteSet(Gone)
      /\ Cardinality(Occupied) \in Nat /\ Cardinality(Gone) \in Nat
  BY <1>1, Room
<1>3. NULL \notin Stores /\ Stores = 1 .. Cardinality(Stores) /\ Cardinality(Stores) \in Nat
  BY Constants, DistinctAssumption
<1>4. storeAt' = [storeAt EXCEPT ![a] = StoreOf(a)]
      /\ made' = IF storeAt[a] # NULL THEN made ELSE made + 1
  BY DEF GetPtrStore
<1>5. storeAt \in [Places -> Stores \cup {NULL}] /\ made \in 0 .. Cardinality(Stores)
      /\ nil \subseteq 1 .. made
  BY <1>1 DEF TypeOK, Places
<1>6. /\ storeAt'[a] = StoreOf(a)
      /\ \A b \in Places \ {a} : storeAt'[b] = storeAt[b]
      /\ storeAt' \in [Places -> Stores \cup {NULL}]
  BY <1>2, <1>4, <1>5
<1>7. CASE storeAt[a] # NULL
  <2>1. storeAt' = storeAt /\ made' = made
    BY <1>2, <1>4, <1>5, <1>7
  <2>2. CountOK'
    BY <2>1, <1>1 DEF CountOK, Occupied
  <2>3. RegistryOK'
    BY <2>1, <1>1 DEF RegistryOK
  <2>4. StoreOf(a) \in (1 .. made') \ nil
    BY <2>1, <1>1, <1>2, <1>7 DEF RegistryOK
  <2> QED
    BY <2>1, <2>2, <2>3, <2>4, <1>2, <1>5, <1>6 DEF Places
<1>8. CASE storeAt[a] = NULL
  <2>1. made' = made + 1 /\ storeAt'[a] = made + 1 /\ made + 1 \in Stores
    BY <1>2, <1>4, <1>6, <1>8
  <2>2. CountOK'
    <3>1. Occupied' = Occupied \cup {a} /\ a \notin Occupied
      BY <2>1, <1>3, <1>6, <1>8 DEF Occupied
    <3>2. Cardinality(Occupied') = Cardinality(Occupied) + 1
      BY <3>1, <1>2, FS_AddElement
    <3> QED
      BY <3>2, <2>1, <1>1, <1>2 DEF CountOK
  <2>3. \A b \in Places : storeAt[b] # NULL => b # a /\ storeAt[b] \in (1 .. made) \ nil
    BY <1>1, <1>8 DEF RegistryOK
  <2>4. \A b, d \in Places : storeAt'[b] # NULL /\ b # d => storeAt'[b] # storeAt'[d]
    <3> SUFFICES ASSUME NEW b \in Places, NEW d \in Places, storeAt'[b] # NULL, b # d
                 PROVE  storeAt'[b] # storeAt'[d]
      OBVIOUS
    <3>1. CASE b = a
      BY <3>1, <2>1, <2>3, <1>2, <1>3, <1>6
    <3>2. CASE d = a
      BY <3>2, <2>1, <2>3, <1>2, <1>6
    <3>3. CASE b # a /\ d # a
      BY <3>3, <1>1, <1>6 DEF RegistryOK
    <3> QED
      BY <3>1, <3>2, <3>3
  <2>5. \A b \in Places : storeAt'[b] # NULL => storeAt'[b] \in (1 .. made') \ nil'
    <3> SUFFICES ASSUME NEW b \in Places, storeAt'[b] # NULL
                 PROVE  storeAt'[b] \in (1 .. made') \ nil'
      OBVIOUS
    <3>1. CASE b = a
      BY <3>1, <2>1, <1>2, <1>5
    <3>2. CASE b # a
      BY <3>2, <2>1, <2>3, <1>2, <1>6
    <3> QED
      BY <3>1, <3>2
  <2>7. RegistryOK'
    BY <2>4, <2>5 DEF RegistryOK
  <2>8. StoreOf(a) \in (1 .. made') \ nil
    BY <2>1, <1>2, <1>5, <1>8
  <2> QED
    BY <2>1, <2>2, <2>7, <2>8, <1>2, <1>3, <1>5, <1>6, <1>8 DEF Places
<1> QED
  BY <1>7, <1>8

\* A proxy has been made on the thread whose store is its store.
LEMMA StorePlace ==
  ASSUME IInv, NEW p \in Proxies, pc[p] # "none", NEW a \in Places, ptr[p] = storeAt[a]
  PROVE  a = home[p] /\ storeAt[a] # NULL /\ ptr[p] \notin nil /\ ptr[p] \in Stores
<1>1. ptr[p] \in 1 .. made /\ home[p] \in Places
  BY DEF IInv, ProxyOK, HomeOK, Places
<1>2. ptr[p] \in Stores /\ ptr[p] # NULL
  BY <1>1, Constants, DistinctAssumption DEF IInv, TypeOK
<1>3. storeAt[a] # NULL /\ ptr[p] \notin nil
  BY <1>2 DEF IInv, RegistryOK
<1>4. ptr[p] = storeAt[home[p]]
  BY <1>3 DEF IInv, ProxyOK, HomeOK
<1> QED
  BY <1>1, <1>2, <1>3, <1>4 DEF IInv, RegistryOK

\* p's store, while its context is sound.
LEMMA OwnStore ==
  ASSUME IInv, NEW p \in Proxies, pc[p] # "none", Sound(maker[p])
  PROVE  /\ maker[p] \in Ctxs /\ home[p] = addr[maker[p]] /\ home[p] \in Addrs
         /\ addr[maker[p]] \in Addrs /\ addr[maker[p]] \in Places
         /\ storeAt[addr[maker[p]]] = ptr[p] /\ ptr[p] # NULL
         /\ ptr[p] \in Stores /\ ptr[p] \in (1 .. made) \ nil
<1>1. /\ maker[p] \in Ctxs /\ ptr[p] \in 1 .. made /\ ptr[p] = storeAt[home[p]]
      /\ home[p] = addr[maker[p]] /\ home[p] \in Addrs
  BY DEF IInv, ProxyOK, HomeOK, Sound
<1>2. home[p] \in Places
  BY <1>1 DEF Places
<1> QED
  BY <1>1, <1>2, StorePlace

LEMMA SoundPlace ==
  ASSUME IInv, NEW c \in Ctxs, Sound(c)
  PROVE  addr[c] \in Places /\ addr[c] \in Addrs /\ Held(c)
BY DEF IInv, TypeOK, Sound, Held, Places

\* A context whose method runs has its address to itself.
LEMMA InMethod ==
  ASSUME IInv, NEW c \in calls
  PROVE  /\ c \in Ctxs /\ Held(c) /\ addr[c] \in Addrs /\ addr[c] \in Places
         /\ phase[c] = "live" \/ (shared[c] /\ c \in cut \cup late)
         /\ coOf[addr[c]] = NULL
         /\ \A d \in Ctxs : Held(d) /\ addr[d] = addr[c] => d = c
         /\ \A d \in Ctxs : Sound(d) /\ addr[d] = addr[c] => d = c
<1>1. /\ c \in Ctxs /\ phase[c] # "none"
      /\ phase[c] = "live" \/ (shared[c] /\ c \in cut \cup late)
  BY DEF IInv, TypeOK, ContextsOK
<1>2. Held(c)
  BY <1>1 DEF Held
<1>3. addr[c] \in Addrs
  BY <1>1 DEF IInv, TypeOK
<1>4. \A d \in Ctxs : Sound(d) => Held(d)
  BY DEF Sound, Held
<1> QED
  BY <1>1, <1>2, <1>3, <1>4 DEF IInv, ContextsOK, Places

(* A natural number below all the others of a set. *)
LEMMA LeastNat ==
  ASSUME NEW S \in SUBSET Nat, S # {}
  PROVE  \E x \in S : \A y \in S : x <= y
  <1> DEFINE T == {0 .. x : x \in S}
  <1>1. T \subseteq FiniteSubsetsOf(Nat) /\ T # {}
    <2>1. ASSUME NEW x \in S PROVE 0 .. x \in FiniteSubsetsOf(Nat)
      <3>1. IsFiniteSet(0 .. x)
        BY FS_Interval
      <3>2. 0 .. x \in SUBSET Nat
        OBVIOUS
      <3>3. QED
        BY <3>1, <3>2, Zenon DEF FiniteSubsetsOf
    <2>2. QED
      BY <2>1
  <1>2. PICK X \in T : \A Y \in T : ~ (<<Y, X>> \in StrictSubsetOrdering(Nat))
    <2> HIDE DEF T
    <2>1. QED
      BY <1>1, FS_StrictSubsetOrderingWellFounded, WFMin
  <1>3. PICK x \in S : X = 0 .. x
    OBVIOUS
  <1>4. ASSUME NEW y \in S, ~(x <= y) PROVE FALSE
    <2>1. 0 .. y \in SUBSET Nat /\ 0 .. x \in SUBSET Nat /\ 0 .. y \subseteq 0 .. x
      BY <1>4
    <2>2. x \in 0 .. x /\ x \notin 0 .. y
      BY <1>4
    <2>3. <<0 .. y, 0 .. x>> \in StrictSubsetOrdering(Nat)
      BY <2>1, <2>2 DEF StrictSubsetOrdering
    <2>4. 0 .. y \in T
      OBVIOUS
    <2>5. QED
      BY <1>2, <1>3, <2>3, <2>4
  <1>5. QED
    BY <1>4


\* A registration finds an id that is free: the others belong to the proxies
\* that are not being registered.
LEMMA FreshIsFree ==
  ASSUME IInv, NEW p \in Proxies, pc[p] = "register"
  PROVE  ptr[p] \in Stores /\ FreshId(ptr[p]) \in Ids /\ table[ptr[p]][FreshId(ptr[p])] = NULL
<1> DEFINE s == ptr[p]
<1> DEFINE F == {i \in Ids : table[s][i] = NULL}
<1>1. s \in Stores /\ s # NULL
  <2>1. ptr[p] \in 1 .. made
    BY DEF IInv, ProxyOK, HomeOK
  <2> QED
    BY <2>1, Constants, DistinctAssumption DEF IInv, TypeOK
<1>2. table[s] \in [Ids -> Proxies \cup {NULL}]
  BY <1>1 DEF IInv, TypeOK
<1>3. F # {}
  <2> SUFFICES ASSUME F = {} PROVE FALSE
    OBVIOUS
  <2>1. \A i \in Ids : table[s][i] # NULL
    OBVIOUS
  <2>2. \A i \in Ids : pc[table[s][i]] \in Made /\ idx[table[s][i]] = i
    BY <2>1, <1>1 DEF IInv, EntriesOK
  <2>3. table[s] \in [Ids -> Proxies \ {p}]
    BY <1>2, <2>1, <2>2 DEF Made
  <2>4. IsFiniteSet(Proxies \ {p}) /\ Cardinality(Proxies \ {p}) < Cardinality(Ids)
    <3>1. Cardinality(Proxies \ {p}) = Cardinality(Proxies) - 1 /\ IsFiniteSet(Proxies \ {p})
      BY FiniteAssumption, FS_RemoveElement
    <3> QED
      BY <3>1, Constants
  <2>5. PICK i, j \in Ids : i # j /\ table[s][i] = table[s][j]
    BY <2>3, <2>4, Constants, FS_PigeonHole
  <2> QED
    BY <2>2, <2>5
<1>4. F \in SUBSET Nat
  BY DEF Ids
<1>5. PICK i \in F : \A j \in F : i <= j
  BY <1>3, <1>4, LeastNat
<1>6. i \in Ids /\ table[s][i] = NULL /\ \A j \in Ids : j < i => table[s][j] # NULL
  BY <1>4, <1>5
<1> QED
  BY <1>1, <1>6 DEF FreshId

LEMMA InitHolds == Init => IInv
<1> SUFFICES ASSUME Init PROVE IInv
  OBVIOUS
<1>1. TypeOK
  BY Constants DEF Init, TypeOK, Empty
<1>2. CountOK
  <2>1. Occupied = {} /\ Gone = {}
    BY DEF Init, Occupied, Gone, Places
  <2> QED
    BY <2>1, FS_EmptySet DEF Init, CountOK
<1>3. ContextsOK /\ RegistryOK /\ PanicNeedsFree /\ CoroutinesReachNothing
  BY DEF Init, ContextsOK, RegistryOK, PanicNeedsFree, CoroutinesReachNothing, Held, Sound, Places
<1>4. \A p \in Proxies : ProxyOK(p)
  BY DEF Init, ProxyOK, HomeOK, PendingOK, ResolvesOK, Made
<1>5. EntriesOK /\ UsersOK
  BY DEF Init, EntriesOK, UsersOK, Uses, Made, Empty, Stores, Ids
<1> QED
  BY <1>1, <1>2, <1>3, <1>4, <1>5 DEF IInv

-----------------------------------------------------------------------------
(* What a step keeps that adds no context, makes no proxy and deletes no    *)
(* store.                                                                   *)

LEMMA HomeKept ==
  ASSUME IInv, NEW q \in Proxies, pc[q] # "none",
         maker'[q] = maker[q], home'[q] = home[q], ptr'[q] = ptr[q], made <= made',
         made \in Nat, made' \in Nat, nil \subseteq nil',
         \A b \in Places : storeAt[b] # NULL => storeAt'[b] = storeAt[b],
         reused \subseteq reused', Excused \subseteq Excused',
         addr'[maker[q]] = addr[maker[q]], phase'[maker[q]] # "none",
         phase'[maker[q]] = "freed" => phase[maker[q]] = "freed",
         Sound(maker[q])' => Sound(maker[q])
  PROVE  HomeOK(q)'
<1>1. HomeOK(q)
  BY DEF IInv, ProxyOK
<1>2. ptr[q] \in 1 .. made'
  BY <1>1 DEF HomeOK
<1>3. CASE ptr[q] = storeAt[home[q]]
  <2>1. home[q] \in Places
    BY <1>1 DEF HomeOK, Places
  <2>2. ptr[q] = storeAt'[home[q]]
    BY <2>1, <1>3, StorePlace
  <2> QED
    BY <2>2, <1>1, <1>2 DEF HomeOK
<1>4. CASE ptr[q] \in nil /\ ~Sound(maker[q])
  BY <1>1, <1>2, <1>4 DEF HomeOK, Sound
<1> QED
  BY <1>1, <1>3, <1>4 DEF HomeOK

LEMMA UsersKept ==
  ASSUME IInv, UNCHANGED addr, reused \subseteq reused',
         \A q \in Proxies, b \in Addrs : Uses(q, b)' => Uses(q, b) /\ maker'[q] = maker[q],
         \A d \in Ctxs : Sound(d)' => Sound(d),
         \A b \in Addrs : coOf'[b] \in {coOf[b], NULL}
  PROVE  UsersOK'
<1> SUFFICES ASSUME NEW q \in Proxies, NEW b \in Addrs, Uses(q, b)'
             PROVE  /\ \A c \in Ctxs : Sound(c)' /\ addr'[c] = b => maker'[q] = c
                    /\ coOf'[b] \in reused' \cup {NULL}
  BY DEF UsersOK
<1>1. Uses(q, b) /\ maker'[q] = maker[q]
  OBVIOUS
<1> QED
  BY <1>1 DEF IInv, UsersOK

\* Users of a store that is at its address already.
LEMMA PlaceKept ==
  ASSUME IInv, NEW q \in Proxies, pc[q] # "none", NEW b \in Places,
         storeAt[b] # NULL => storeAt'[b] = storeAt[b],
         storeAt[b] = NULL => storeAt'[b] \in {NULL, made + 1},
         ptr[q] = storeAt'[b]
  PROVE  ptr[q] = storeAt[b]
<1>1. ptr[q] \in 1 .. made /\ made \in Nat
  BY Constants DEF IInv, ProxyOK, HomeOK, TypeOK
<1>2. ptr[q] # NULL /\ ptr[q] # made + 1
  BY <1>1, Constants, DistinctAssumption DEF IInv, TypeOK
<1> QED
  BY <1>2

\* Stores and proxies stay.
LEMMA ContextsFrame ==
  ASSUME IInv, UNCHANGED <<storeVars, proxyVars>>, TypeOK', ContextsOK',
         UNCHANGED addr, Gone' = Gone, reused \subseteq reused', Excused \subseteq Excused',
         \A d \in Ctxs : Sound(d)' => Sound(d),
         \A d \in Ctxs : Held(d)' <=> Held(d),
         \A d \in Ctxs : phase[d] # "none" => phase'[d] # "none" /\ shared'[d] = shared[d],
         \A q \in Proxies : pc[q] = "register" =>
           coOf'[home[q]] = maker[q] \/ (maker[q] \in calls' /\ home[q] = addr[maker[q]])
  PROVE  /\ RegistryOK' /\ CountOK' /\ (\A q \in Proxies : ProxyOK(q)')
         /\ EntriesOK' /\ PanicNeedsFree'
<1> USE DEF storeVars, proxyVars
<1>1. RegistryOK' /\ CountOK' /\ EntriesOK'
  BY DEF IInv, RegistryOK, CountOK, Occupied, EntriesOK
<1>2. PanicNeedsFree'
  BY DEF IInv, PanicNeedsFree, Excused
<1>3. ASSUME NEW q \in Proxies PROVE ProxyOK(q)'
  <2>1. ProxyOK(q)
    BY DEF IInv
  <2>2. CASE pc[q] = "none"
    BY <2>2 DEF ProxyOK, HomeOK, PendingOK, ResolvesOK, Made
  <2>3. CASE pc[q] # "none"
    <3>1. PICK d \in Ctxs : d = maker[q] /\ phase[d] # "none"
      BY <2>1, <2>3 DEF ProxyOK, HomeOK
    <3>2. phase'[d] # "none" /\ shared'[d] = shared[d] /\ (Sound(d)' => Sound(d))
          /\ (Held(d)' <=> Held(d))
      BY <3>1
    <3>3. phase'[d] = "freed" => phase[d] = "freed"
      BY <3>1 DEF Gone
    <3>4. Sound(maker[q])' => Sound(maker[q])
      BY <3>1, <3>2 DEF Sound
    <3>5. made \in Nat
      BY Constants DEF IInv, TypeOK
    <3>6. HomeOK(q)'
      BY <2>3, <3>1, <3>2, <3>3, <3>4, <3>5, HomeKept
    <3>7. PendingOK(q)'
      BY <2>1, <3>1, <3>2 DEF ProxyOK, PendingOK, Held
    <3>8. ResolvesOK(q)'
      BY <2>1, <3>1, <3>2, <3>4 DEF ProxyOK, ResolvesOK, Kept
    <3> QED
      BY <3>6, <3>7, <3>8 DEF ProxyOK
  <2> QED
    BY <2>2, <2>3
<1> QED
  BY <1>1, <1>2, <1>3

-----------------------------------------------------------------------------
(* Steps of the contexts and their threads; stores and proxies stay. *)

\* An address that is given out has no users, or makes its owner reused.
LEMMA FreshPlace ==
  ASSUME IInv, NEW a \in Addrs, a \notin HeldAddrs
  PROVE  /\ coOf[a] = NULL /\ a \notin reached
         /\ \A d \in Ctxs : Held(d) => addr[d] # a
         /\ \A d \in Ctxs : ~Stale(a) /\ phase[d] = "destroyed" => addr[d] # a
         /\ \A q \in Proxies : ~Stale(a) => ~Uses(q, a)
<1>1. coOf[a] = NULL /\ \A d \in Ctxs : Held(d) => addr[d] # a
  BY DEF HeldAddrs, Held
<1>2. a \notin reached
  BY <1>1, DistinctAssumption DEF IInv, CoroutinesReachNothing, TypeOK
<1>3. \A d \in Ctxs : ~Stale(a) /\ phase[d] = "destroyed" => addr[d] # a
  BY DEF Stale
<1>4. ASSUME NEW q \in Proxies, ~Stale(a), Uses(q, a) PROVE FALSE
  <2>1. pc[q] # "none" /\ ptr[q] = storeAt[a] /\ a \in Places
    BY <1>4 DEF Uses, Made, Places
  <2>2. home[q] = a /\ storeAt[a] # NULL /\ ptr[q] \in Stores
    BY <2>1, StorePlace
  <2>3. CASE pc[q] = "register"
    <3>1. PendingOK(q) /\ maker[q] \in Ctxs
      BY <2>1 DEF IInv, ProxyOK, HomeOK
    <3> QED
      BY <3>1, <2>2, <2>3, <1>1, DistinctAssumption DEF PendingOK
  <2>4. CASE pc[q] \in Made /\ Kept(q)
    <3>1. idx[q] \in Ids
      BY <2>4 DEF IInv, TypeOK, Made
    <3>2. table[storeAt[a]][idx[q]] # Empty[idx[q]]
      BY <3>1, <2>1, <2>4, DistinctAssumption DEF Kept, Empty
    <3> QED
      BY <3>2, <2>2, <1>4 DEF Stale
  <2> QED
    BY <2>3, <2>4, <1>4 DEF Uses
<1> QED
  BY <1>1, <1>2, <1>3, <1>4

LEMMA NewContextStep ==
  ASSUME IInv, NEW c \in Ctxs, NEW g \in BOOLEAN, NEW a \in Addrs, NewContext(c, g, a)
  PROVE  IInv'
<1> USE DEF storeVars, proxyVars
<1>1. /\ phase[c] = "none" /\ phase' = [phase EXCEPT ![c] = "live"]
      /\ shared' = [shared EXCEPT ![c] = g] /\ addr' = [addr EXCEPT ![c] = a]
      /\ UNCHANGED <<coOf, reached, calls, cut, late, storeAt, made, table, nil>>
      /\ UNCHANGED <<pc, maker, home, ptr, idx>>
      /\ reused \subseteq reused' /\ reused' \subseteq reused \cup {c}
      /\ c \notin reused' => ~Stale(a)
  BY DEF NewContext
<1>2. /\ phase'[c] = "live" /\ shared'[c] = g /\ addr'[c] = a
      /\ \A d \in Ctxs \ {c} :
           phase'[d] = phase[d] /\ shared'[d] = shared[d] /\ addr'[d] = addr[d]
  BY <1>1 DEF IInv, TypeOK
<1>3. /\ coOf[a] = NULL /\ a \notin reached
      /\ \A d \in Ctxs : Held(d) => addr[d] # a
      /\ \A d \in Ctxs : c \notin reused' /\ phase[d] = "destroyed" => addr[d] # a
      /\ \A q \in Proxies : c \notin reused' => ~Uses(q, a)
  BY <1>1, FreshPlace DEF NewContext
<1>4. TypeOK'
  <2>1. calls' \subseteq {d \in Ctxs : phase'[d] = "live" \/ (shared'[d] /\ d \in cut' \cup late')}
    BY <1>1, <1>2 DEF IInv, TypeOK
  <2> QED
    BY <2>1, <1>1, <1>2 DEF IInv, TypeOK
<1>5. \A d \in Ctxs \ {c} : (Held(d)' <=> Held(d)) /\ (Sound(d)' <=> Sound(d))
  BY <1>1, <1>2 DEF Held, Sound
<1>6. ~Held(c) /\ Held(c)' /\ ~Sound(c)
  BY <1>1, <1>2 DEF Held, Sound, IInv, ContextsOK
<1>7. ContextsOK'
  <2>1. \A d, e \in Ctxs : d # e /\ Held(d)' /\ Held(e)' => addr'[d] # addr'[e]
    BY <1>2, <1>3, <1>5 DEF IInv, ContextsOK
  <2>2. \A d, e \in Ctxs : Sound(d)' /\ phase'[e] = "destroyed" => addr'[e] # addr'[d]
    BY <1>1, <1>2, <1>3, <1>5 DEF IInv, ContextsOK, Sound
  <2>3. \A d \in Ctxs : phase'[d] = "none" => ~shared'[d]
    BY <1>2 DEF IInv, ContextsOK
  <2>4. \A d \in Ctxs : Held(d)' => coOf'[addr'[d]] = NULL
    BY <1>1, <1>2, <1>3, <1>5 DEF IInv, ContextsOK
  <2>5. \A b \in Addrs : coOf'[b] # NULL => Held(coOf[b])'
    <3> SUFFICES ASSUME NEW b \in Addrs, coOf[b] # NULL PROVE Held(coOf[b])'
      BY <1>1
    <3>1. PICK d \in Ctxs : d = coOf[b] /\ Held(d)
      BY DEF IInv, ContextsOK, TypeOK
    <3>2. Held(d)'
      BY <3>1, <1>5, <1>6
    <3> QED
      BY <3>1, <3>2, <1>1 DEF Held
  <2> QED
    BY <2>1, <2>2, <2>3, <2>4, <2>5 DEF ContextsOK
<1>8. RegistryOK' /\ CountOK' /\ EntriesOK'
  <2>1. Gone' = Gone /\ Occupied' = Occupied
    BY <1>1, <1>2 DEF Gone, Occupied
  <2> QED
    BY <2>1, <1>1 DEF IInv, CountOK, RegistryOK, EntriesOK
<1>9. \A q \in Proxies : ProxyOK(q)'
  <2> SUFFICES ASSUME NEW q \in Proxies PROVE ProxyOK(q)'
    OBVIOUS
  <2>1. ProxyOK(q)
    BY DEF IInv
  <2>2. CASE pc[q] = "none"
    BY <2>2, <1>1 DEF ProxyOK, HomeOK, PendingOK, ResolvesOK, Made
  <2>3. CASE pc[q] # "none"
    <3>1. PICK d \in Ctxs \ {c} : d = maker[q] /\ phase[d] # "none"
      BY <2>1, <2>3, <1>1 DEF ProxyOK, HomeOK
    <3>2. /\ phase'[d] = phase[d] /\ shared'[d] = shared[d] /\ addr'[d] = addr[d]
          /\ (Sound(d)' <=> Sound(d)) /\ (Held(d)' <=> Held(d))
          /\ (d \in reused' <=> d \in reused)
      BY <3>1, <1>1, <1>2, <1>5
    <3>3. Excused \subseteq Excused' /\ (d \in Excused' <=> d \in Excused)
      BY <3>2, <1>1 DEF Excused
    <3>4. HomeOK(q)' /\ PendingOK(q)' /\ ResolvesOK(q)'
      BY <2>1, <3>1, <3>2, <3>3, <1>1 DEF ProxyOK, HomeOK, PendingOK, ResolvesOK, Kept, Held, Sound
    <3> QED
      BY <3>4 DEF ProxyOK
  <2> QED
    BY <2>2, <2>3
<1>10. PanicNeedsFree' /\ CoroutinesReachNothing'
  BY <1>1 DEF IInv, PanicNeedsFree, CoroutinesReachNothing
<1>11. UsersOK'
  <2> SUFFICES ASSUME NEW q \in Proxies, NEW b \in Addrs, Uses(q, b)
               PROVE  /\ \A d \in Ctxs : Sound(d)' /\ addr'[d] = b => maker[q] = d
                      /\ coOf[b] \in reused' \cup {NULL}
    BY <1>1 DEF UsersOK, Uses, Kept
  <2>1. ASSUME NEW d \in Ctxs, Sound(d)', addr'[d] = b PROVE maker[q] = d
    <3>1. CASE d = c
      BY <3>1, <2>1, <1>2, <1>3 DEF Sound
    <3>2. CASE d # c
      BY <3>2, <2>1, <1>2, <1>5 DEF IInv, UsersOK
    <3> QED
      BY <3>1, <3>2
  <2> QED
    BY <2>1, <1>1 DEF IInv, UsersOK
<1> QED
  BY <1>4, <1>7, <1>8, <1>9, <1>10, <1>11 DEF IInv

LEMMA NewCoroutineStep ==
  ASSUME IInv, NEW c \in Ctxs, NEW a \in Addrs, NewCoroutine(c, a)
  PROVE  IInv'
<1> USE DEF storeVars, proxyVars
<1>1. /\ c \in calls /\ coOf' = [coOf EXCEPT ![a] = c]
      /\ UNCHANGED <<phase, shared, addr, reached, calls, cut, late, storeAt, made, table, nil>>
      /\ UNCHANGED <<pc, maker, home, ptr, idx>>
      /\ reused \subseteq reused' /\ reused' \subseteq reused \cup {c}
      /\ c \notin reused' => ~Stale(a)
  BY DEF NewCoroutine, InScript
<1>2. coOf'[a] = c /\ \A b \in Addrs \ {a} : coOf'[b] = coOf[b]
  BY <1>1 DEF IInv, TypeOK
<1>3. /\ coOf[a] = NULL /\ a \notin reached
      /\ \A d \in Ctxs : Held(d) => addr[d] # a
      /\ \A q \in Proxies : c \notin reused' => ~Uses(q, a)
  BY <1>1, FreshPlace DEF NewCoroutine
<1>4. TypeOK'
  BY <1>1 DEF IInv, TypeOK
<1>5. /\ \A d \in Ctxs : Sound(d)' => Sound(d)
      /\ \A d \in Ctxs : Held(d)' <=> Held(d)
  BY <1>1 DEF Sound, Held
<1>6. ContextsOK'
  <2>1. \A d \in Ctxs : Held(d)' => coOf'[addr'[d]] = NULL
    <3> SUFFICES ASSUME NEW d \in Ctxs, Held(d) PROVE coOf'[addr[d]] = NULL
      BY <1>1, <1>5
    <3>1. addr[d] \in Addrs
      BY DEF IInv, TypeOK, Held
    <3> QED
      BY <3>1, <1>2, <1>3 DEF IInv, ContextsOK
  <2>2. \A b \in Addrs : coOf'[b] # NULL => Held(coOf[b])'
    <3> SUFFICES ASSUME NEW b \in Addrs, coOf'[b] # NULL PROVE Held(coOf[b])'
      OBVIOUS
    <3>1. PICK d \in Ctxs : d = coOf'[b] /\ Held(d)
      BY <1>1, <1>2, InMethod DEF IInv, ContextsOK, TypeOK
    <3> QED
      BY <3>1, <1>1 DEF Held
  <2> QED
    BY <2>1, <2>2, <1>1, <1>5 DEF IInv, ContextsOK
<1>7. RegistryOK' /\ CountOK' /\ (\A q \in Proxies : ProxyOK(q)') /\ EntriesOK' /\ PanicNeedsFree'
  <2>1. \A q \in Proxies : pc[q] = "register" =>
           coOf'[home[q]] = maker[q] \/ (maker[q] \in calls' /\ home[q] = addr[maker[q]])
    <3> SUFFICES ASSUME NEW q \in Proxies, pc[q] = "register"
                 PROVE  coOf'[home[q]] = maker[q] \/ (maker[q] \in calls /\ home[q] = addr[maker[q]])
      BY <1>1
    <3>1. PendingOK(q) /\ home[q] \in Addrs /\ maker[q] \in Ctxs
      BY DEF IInv, ProxyOK, HomeOK
    <3>2. coOf[home[q]] = maker[q] => home[q] # a
      BY <3>1, <1>3, DistinctAssumption
    <3> QED
      BY <3>1, <3>2, <1>2 DEF PendingOK
  <2>2. Gone' = Gone /\ Excused \subseteq Excused'
    BY <1>1 DEF Gone, Excused
  <2> QED
    BY <2>1, <2>2, <1>1, <1>4, <1>5, <1>6, ContextsFrame
<1>8. CoroutinesReachNothing'
  BY <1>1, <1>2, <1>3 DEF IInv, CoroutinesReachNothing
<1>9. UsersOK'
  <2> SUFFICES ASSUME NEW q \in Proxies, NEW b \in Addrs, Uses(q, b)
               PROVE  /\ \A d \in Ctxs : Sound(d) /\ addr[d] = b => maker[q] = d
                      /\ coOf'[b] \in reused' \cup {NULL}
    BY <1>1, <1>5 DEF UsersOK, Uses, Kept
  <2>1. coOf'[b] \in reused' \cup {NULL}
    BY <1>1, <1>2, <1>3 DEF IInv, UsersOK
  <2> QED
    BY <2>1 DEF IInv, UsersOK
<1> QED
  BY <1>4, <1>6, <1>7, <1>8, <1>9 DEF IInv

LEMMA FreeCoroutineStep ==
  ASSUME IInv, NEW a \in Addrs, FreeCoroutine(a)
  PROVE  IInv'
<1> USE DEF storeVars, proxyVars
<1>1. /\ coOf' = [coOf EXCEPT ![a] = NULL] /\ reached' = reached \ {a}
      /\ \A p \in Proxies : pc[p] = "register" => home[p] # a
      /\ UNCHANGED <<phase, shared, addr, calls, reused, cut, late, storeAt, made, table, nil>>
      /\ UNCHANGED <<pc, maker, home, ptr, idx>>
  BY DEF FreeCoroutine
<1>2. coOf'[a] = NULL /\ \A b \in Addrs \ {a} : coOf'[b] = coOf[b]
  BY <1>1 DEF IInv, TypeOK
<1>3. TypeOK'
  BY <1>1 DEF IInv, TypeOK
<1>4. /\ \A d \in Ctxs : Sound(d)' => Sound(d)
      /\ \A d \in Ctxs : Held(d)' <=> Held(d)
  BY <1>1 DEF Sound, Held
<1>5. ContextsOK'
  <2>1. \A d \in Ctxs : Held(d)' => coOf'[addr'[d]] = NULL
    <3> SUFFICES ASSUME NEW d \in Ctxs, Held(d) PROVE coOf'[addr[d]] = NULL
      BY <1>1, <1>4
    <3>1. addr[d] \in Addrs
      BY DEF IInv, TypeOK, Held
    <3> QED
      BY <3>1, <1>2 DEF IInv, ContextsOK
  <2>2. \A b \in Addrs : coOf'[b] # NULL => Held(coOf[b])'
    <3> SUFFICES ASSUME NEW b \in Addrs, coOf'[b] # NULL PROVE Held(coOf[b])'
      OBVIOUS
    <3>1. coOf'[b] = coOf[b] /\ Held(coOf[b])
      BY <1>2 DEF IInv, ContextsOK
    <3> QED
      BY <3>1, <1>1 DEF Held
  <2> QED
    BY <2>1, <2>2, <1>1, <1>4 DEF IInv, ContextsOK
<1>6. RegistryOK' /\ CountOK' /\ (\A q \in Proxies : ProxyOK(q)') /\ EntriesOK' /\ PanicNeedsFree'
  <2>1. \A q \in Proxies : pc[q] = "register" =>
           coOf'[home[q]] = maker[q] \/ (maker[q] \in calls' /\ home[q] = addr[maker[q]])
    BY <1>1, <1>2 DEF IInv, ProxyOK, HomeOK, PendingOK
  <2>2. Gone' = Gone /\ Excused \subseteq Excused'
    BY <1>1 DEF Gone, Excused
  <2> QED
    BY <2>1, <2>2, <1>1, <1>3, <1>4, <1>5, ContextsFrame
<1>7. CoroutinesReachNothing'
  BY <1>1, <1>2 DEF IInv, CoroutinesReachNothing
<1>8. UsersOK'
  <2>1. \A q \in Proxies, b \in Addrs : Uses(q, b)' => Uses(q, b) /\ maker'[q] = maker[q]
    BY <1>1 DEF Uses, Kept
  <2>2. \A b \in Addrs : coOf'[b] \in {coOf[b], NULL}
    BY <1>2
  <2> QED
    BY <2>1, <2>2, <1>1, <1>4, UsersKept
<1> QED
  BY <1>3, <1>5, <1>6, <1>7, <1>8 DEF IInv

\* Nothing but the calls changes, or who is excused.
LEMMA CallsFrame ==
  ASSUME IInv, UNCHANGED <<phase, shared, addr, coOf, reached, reused, cut, storeVars, proxyVars>>,
         late \subseteq late', late' \subseteq Ctxs,
         calls' \subseteq {c \in Ctxs : phase[c] = "live" \/ (shared[c] /\ c \in cut \cup late')},
         \A p \in Proxies : pc[p] = "register" /\ maker[p] \in calls => maker[p] \in calls'
  PROVE  IInv'
<1> USE DEF storeVars, proxyVars
<1>1. TypeOK'
  BY DEF IInv, TypeOK
<1>2. ContextsOK' /\ CoroutinesReachNothing' /\ UsersOK'
  BY DEF IInv, ContextsOK, CoroutinesReachNothing, UsersOK, Uses, Kept, Held, Sound
<1>3. RegistryOK' /\ CountOK' /\ (\A q \in Proxies : ProxyOK(q)') /\ EntriesOK' /\ PanicNeedsFree'
  <2>1. \A q \in Proxies : pc[q] = "register" =>
           coOf'[home[q]] = maker[q] \/ (maker[q] \in calls' /\ home[q] = addr[maker[q]])
    BY DEF IInv, ProxyOK, PendingOK
  <2>2. Gone' = Gone /\ Excused \subseteq Excused'
    BY DEF Gone, Excused
  <2>3. /\ \A d \in Ctxs : Sound(d)' => Sound(d)
        /\ \A d \in Ctxs : Held(d)' <=> Held(d)
    BY DEF Sound, Held
  <2> QED
    BY <2>1, <2>2, <2>3, <1>1, <1>2, ContextsFrame
<1> QED
  BY <1>1, <1>2, <1>3 DEF IInv

LEMMA MethodSteps ==
  ASSUME IInv, NEW c \in Ctxs, EnterMethod(c) \/ LeaveMethod(c)
  PROVE  IInv'
<1>1. CASE EnterMethod(c)
  <2>1. /\ UNCHANGED <<phase, shared, addr, coOf, reached, reused, cut, storeVars, proxyVars>>
        /\ phase[c] = "live" \/ (shared[c] /\ phase[c] # "none")
        /\ calls' = calls \cup {c}
        /\ late' = IF phase[c] = "live" THEN late ELSE late \cup {c}
    BY <1>1 DEF EnterMethod
  <2>2. late \subseteq late' /\ late' \subseteq Ctxs
    BY <2>1 DEF IInv, TypeOK
  <2>3. calls' \subseteq {d \in Ctxs : phase[d] = "live" \/ (shared[d] /\ d \in cut \cup late')}
    BY <2>1 DEF IInv, TypeOK
  <2> QED
    BY <2>1, <2>2, <2>3, CallsFrame
<1>2. CASE LeaveMethod(c)
  BY <1>2, CallsFrame DEF LeaveMethod, InScript, IInv, TypeOK
<1> QED
  BY <1>1, <1>2

LEMMA LeaveHeapStep ==
  ASSUME IInv, NEW c \in Ctxs, LeaveHeap(c)
  PROVE  IInv'
<1> USE DEF storeVars, proxyVars
<1>1. /\ phase[c] = "live" /\ shared[c] /\ phase' = [phase EXCEPT ![c] = "destroyed"]
      /\ cut \subseteq cut' /\ cut' \subseteq Ctxs /\ (c \in calls => c \in cut')
      /\ UNCHANGED <<shared, addr, coOf, reached, calls, reused, late>>
      /\ UNCHANGED <<storeAt, made, table, nil, pc, maker, home, ptr, idx>>
  BY DEF LeaveHeap, IInv, TypeOK
<1>2. phase'[c] = "destroyed" /\ \A d \in Ctxs \ {c} : phase'[d] = phase[d]
  BY <1>1 DEF IInv, TypeOK
<1>3. TypeOK'
  <2>1. calls' \subseteq {d \in Ctxs : phase'[d] = "live" \/ (shared'[d] /\ d \in cut' \cup late')}
    BY <1>1, <1>2 DEF IInv, TypeOK
  <2> QED
    BY <2>1, <1>1, <1>2 DEF IInv, TypeOK
<1>4. /\ \A d \in Ctxs : Held(d)' <=> Held(d)
      /\ \A d \in Ctxs : Sound(d)' <=> d # c /\ Sound(d)
  BY <1>1, <1>2 DEF Held, Sound
<1>5. ContextsOK'
  <2>1. \A b \in Addrs : coOf'[b] # NULL => Held(coOf[b])'
    BY <1>1, <1>4 DEF IInv, ContextsOK, TypeOK
  <2>2. \A d, e \in Ctxs : Sound(d)' /\ phase'[e] = "destroyed" => addr'[e] # addr'[d]
    BY <1>1, <1>2, <1>4 DEF IInv, ContextsOK, Held, Sound
  <2> QED
    BY <2>1, <2>2, <1>1, <1>2, <1>4 DEF IInv, ContextsOK
<1>6. RegistryOK' /\ CountOK' /\ (\A q \in Proxies : ProxyOK(q)') /\ EntriesOK' /\ PanicNeedsFree'
  <2>1. \A q \in Proxies : pc[q] = "register" =>
           coOf'[home[q]] = maker[q] \/ (maker[q] \in calls' /\ home[q] = addr[maker[q]])
    BY <1>1 DEF IInv, ProxyOK, PendingOK
  <2>2. Gone' = Gone /\ Excused \subseteq Excused'
    BY <1>1, <1>2 DEF Gone, Excused
  <2>3. \A d \in Ctxs : phase[d] # "none" => phase'[d] # "none" /\ shared'[d] = shared[d]
    BY <1>1, <1>2
  <2> QED
    BY <2>1, <2>2, <2>3, <1>1, <1>3, <1>4, <1>5, ContextsFrame
<1>7. CoroutinesReachNothing' /\ UsersOK'
  BY <1>1, <1>4 DEF IInv, CoroutinesReachNothing, UsersOK, Uses, Kept
<1> QED
  BY <1>3, <1>5, <1>6, <1>7 DEF IInv

-----------------------------------------------------------------------------
(* Steps of scripts, on a thread of their context. *)

\* A thread that runs is at a place of its own.
LEMMA Running ==
  ASSUME IInv, NEW c \in Ctxs, NEW a \in Places, RunsOn(c, a)
  PROVE  /\ a # GlobalHeap =>
              /\ a \in Addrs /\ Held(c)
              /\ (a = addr[c] /\ c \in calls /\ coOf[a] = NULL) \/ coOf[a] = c
              /\ \A d \in Ctxs : Sound(d) /\ addr[d] = a => d = c /\ a = addr[c]
         /\ phase[c] = "freed" => shared[c]
<1>1. CASE a = addr[c] /\ InScript(c)
  <2>1. c \in calls
    BY <1>1 DEF InScript
  <2> QED
    BY <2>1, <1>1, InMethod
<1>2. CASE a \in Addrs /\ coOf[a] = c /\ OnHeap(c)
  <2>1. Held(c) /\ coOf[a] # NULL
    BY <1>2, DistinctAssumption DEF IInv, ContextsOK
  <2>2. \A d \in Ctxs : Sound(d) => addr[d] # a
    BY <2>1 DEF IInv, ContextsOK, Sound, Held
  <2> QED
    BY <1>2, <2>1, <2>2 DEF Held
<1>3. CASE a = GlobalHeap /\ shared[c]
  BY <1>3
<1> QED
  BY <1>1, <1>2, <1>3 DEF RunsOn

\* What getting a store at a changes for the proxies that exist.
LEMMA GetFrame ==
  ASSUME IInv, NEW a \in Places, GetPtrStore(a),
         UNCHANGED <<phase, shared, addr, coOf, calls, reused, cut, late, nil>>
  PROVE  /\ ContextsOK'
         /\ \A q \in Proxies : /\ pc[q] # "none" /\ maker'[q] = maker[q] /\ home'[q] = home[q]
                               /\ ptr'[q] = ptr[q]
                               => HomeOK(q)'
         /\ \A q \in Proxies, b \in Places : pc[q] # "none" /\ ptr[q] = storeAt'[b] => ptr[q] = storeAt[b]
<1>1. ContextsOK'
  BY DEF IInv, ContextsOK, Held, Sound
<1>2. Gone' = Gone
  BY DEF Gone
<1>3. /\ made <= made' /\ made \in Nat /\ made' \in Nat
      /\ \A b \in Places : storeAt[b] # NULL => storeAt'[b] = storeAt[b]
      /\ \A b \in Places : storeAt[b] = NULL => storeAt'[b] \in {NULL, made + 1}
  BY <1>2, GetKeeps
<1>4. ASSUME NEW q \in Proxies, pc[q] # "none", maker'[q] = maker[q], home'[q] = home[q],
             ptr'[q] = ptr[q]
      PROVE  HomeOK(q)'
  <2>1. Sound(maker[q])' => Sound(maker[q])
    BY <1>4 DEF Sound
  <2>2. Excused \subseteq Excused' /\ phase'[maker[q]] # "none"
    BY <1>4 DEF Excused, IInv, ProxyOK, HomeOK
  <2> QED
    BY <2>1, <2>2, <1>3, <1>4, HomeKept
<1>5. ASSUME NEW q \in Proxies, NEW b \in Places, pc[q] # "none", ptr[q] = storeAt'[b]
      PROVE  ptr[q] = storeAt[b]
  BY <1>3, <1>5, PlaceKept
<1> QED
  BY <1>1, <1>4, <1>5

LEMMA AccessStep ==
  ASSUME IInv, NEW p \in Proxies, NEW c \in Ctxs, NEW a \in Places, Access(p, c, a)
  PROVE  IInv'
<1> USE DEF proxyVars
<1>1. /\ RunsOn(c, a) /\ GetPtrStore(a)
      /\ reached' \in {reached, reached \cup {a}}
      /\ a # addr[c] /\ reached' # reached => Found(a, p)
      /\ a = addr[c] => reached' = reached
      /\ UNCHANGED <<phase, shared, addr, coOf, calls, reused, cut, late, table, nil>>
      /\ UNCHANGED <<pc, maker, home, ptr, idx>>
  BY DEF Access
<1>2. /\ RegistryOK' /\ CountOK'
      /\ made' \in 0 .. Cardinality(Stores) /\ nil' \subseteq 1 .. made'
      /\ storeAt' \in [Addrs \cup {GlobalHeap} -> Stores \cup {NULL}]
  <2>1. Gone' = Gone
    BY <1>1 DEF Gone
  <2> QED
    BY <2>1, <1>1, GetKeeps
<1>3. pc[p] = "live" /\ idx[p] \in Ids
  BY DEF Access, IInv, TypeOK
\* What is found belongs to a proxy that uses the store.
<1>4. ASSUME reached' # reached
      PROVE  a \in Addrs /\ coOf[a] = c /\ c \in reused
  <2>1. Found(a, p) /\ a # addr[c]
    BY <1>1, <1>4
  <2>2. storeAt[a] \in Stores /\ table[storeAt[a]][idx[p]] # NULL
    BY <2>1 DEF Found, TargetAt, IInv, TypeOK, Places
  <2>3. PICK q \in Proxies : q = table[storeAt[a]][idx[p]]
    BY <2>2, <1>3 DEF IInv, TypeOK
  <2>4. pc[q] \in Made /\ ptr[q] = storeAt[a] /\ idx[q] = idx[p]
    BY <2>2, <2>3, <1>3 DEF IInv, EntriesOK
  <2>5. pc[q] # "none" /\ Uses(q, a)
    BY <2>3, <2>4 DEF Uses, Kept, Made
  <2>6. a = home[q]
    BY <2>4, <2>5, StorePlace
  <2>7. a \in Addrs
    BY <2>5, <2>6 DEF IInv, ProxyOK, HomeOK
  <2>8. a # GlobalHeap
    BY <2>7, DistinctAssumption
  <2>9. coOf[a] = c
    BY <2>1, <2>8, <1>1, Running
  <2>10. coOf[a] \in reused \cup {NULL}
    BY <2>5, <2>7 DEF IInv, UsersOK
  <2> QED
    BY <2>7, <2>9, <2>10, DistinctAssumption
<1>5. /\ ContextsOK'
      /\ \A q \in Proxies : pc[q] # "none" => HomeOK(q)'
      /\ \A q \in Proxies, b \in Places : pc[q] # "none" /\ ptr[q] = storeAt'[b] => ptr[q] = storeAt[b]
  BY <1>1, GetFrame
<1>6. TypeOK'
  BY <1>1, <1>2, <1>4 DEF IInv, TypeOK
<1>7. EntriesOK' /\ PanicNeedsFree' /\ CoroutinesReachNothing'
  <2>1. CoroutinesReachNothing'
    BY <1>1, <1>4 DEF IInv, CoroutinesReachNothing
  <2> QED
    BY <2>1, <1>1 DEF IInv, EntriesOK, PanicNeedsFree
<1>8. \A q \in Proxies : ProxyOK(q)'
  <2> SUFFICES ASSUME NEW q \in Proxies PROVE ProxyOK(q)'
    OBVIOUS
  <2>1. ProxyOK(q)
    BY DEF IInv
  <2>2. PendingOK(q)' /\ ResolvesOK(q)'
    BY <2>1, <1>1 DEF ProxyOK, PendingOK, ResolvesOK, Kept, Held, Sound
  <2>3. HomeOK(q)'
    BY <1>1, <1>5 DEF HomeOK
  <2> QED
    BY <2>2, <2>3 DEF ProxyOK
<1>9. UsersOK'
  <2>1. ASSUME NEW q \in Proxies, NEW b \in Addrs, Uses(q, b)'
        PROVE  Uses(q, b)
    <3>1. pc[q] # "none" /\ ptr[q] = storeAt'[b] /\ b \in Places
      BY <2>1, <1>1 DEF Uses, Made, Places
    <3>2. ptr[q] = storeAt[b]
      BY <3>1, <1>5
    <3> QED
      BY <3>2, <2>1, <1>1 DEF Uses, Kept
  <2>2. \A d \in Ctxs : Sound(d)' => Sound(d)
    BY <1>1 DEF Sound
  <2> QED
    BY <2>1, <2>2, <1>1, UsersKept
<1> QED
  BY <1>2, <1>5, <1>6, <1>7, <1>8, <1>9 DEF IInv

LEMMA MakeProxyObjectStep ==
  ASSUME IInv, NEW p \in Proxies, NEW c \in Ctxs, NEW a \in Places, MakeProxyObject(p, c, a)
  PROVE  IInv'
<1> USE DEF ctxVars
<1>1. /\ RunsOn(c, a) /\ GetPtrStore(a) /\ pc[p] = "none" /\ (a = addr[c] \/ a \in reached)
      /\ ptr' = [ptr EXCEPT ![p] = StoreOf(a)] /\ pc' = [pc EXCEPT ![p] = "register"]
      /\ maker' = [maker EXCEPT ![p] = c] /\ home' = [home EXCEPT ![p] = a]
      /\ UNCHANGED <<phase, shared, addr, coOf, reached, calls, reused, cut, late, table, nil, idx>>
  BY DEF MakeProxyObject
<1>2. /\ RegistryOK' /\ CountOK'
      /\ made' \in 0 .. Cardinality(Stores) /\ nil' \subseteq 1 .. made'
      /\ storeAt' \in [Addrs \cup {GlobalHeap} -> Stores \cup {NULL}]
      /\ storeAt'[a] = StoreOf(a) /\ StoreOf(a) \in (1 .. made') \ nil /\ StoreOf(a) \in Stores
  <2>1. Gone' = Gone
    BY <1>1 DEF Gone
  <2> QED
    BY <2>1, <1>1, GetKeeps
<1>3. /\ ptr'[p] = StoreOf(a) /\ pc'[p] = "register" /\ maker'[p] = c /\ home'[p] = a
      /\ \A q \in Proxies \ {p} :
           ptr'[q] = ptr[q] /\ pc'[q] = pc[q] /\ maker'[q] = maker[q] /\ home'[q] = home[q]
  BY <1>1 DEF IInv, TypeOK
<1>4. /\ a \in Addrs /\ Held(c)
      /\ (a = addr[c] /\ c \in calls /\ coOf[a] = NULL) \/ (coOf[a] = c /\ a \in reached)
      /\ \A d \in Ctxs : Sound(d) /\ addr[d] = a => d = c /\ a = addr[c]
  <2>1. a \in Addrs
    <3>1. CASE a = addr[c]
      <4>1. InScript(c) \/ addr[c] \in Addrs \/ addr[c] = GlobalHeap
        BY <1>1, <3>1 DEF RunsOn
      <4>2. addr[c] # GlobalHeap
        BY DistinctAssumption DEF IInv, TypeOK
      <4> QED
        BY <4>1, <4>2, <3>1, <1>1 DEF Places
    <3>2. CASE a \in reached
      BY <3>2 DEF IInv, TypeOK
    <3> QED
      BY <3>1, <3>2, <1>1
  <2>2. a # GlobalHeap
    BY <2>1, DistinctAssumption
  <2>3. /\ Held(c)
        /\ (a = addr[c] /\ c \in calls /\ coOf[a] = NULL) \/ coOf[a] = c
        /\ \A d \in Ctxs : Sound(d) /\ addr[d] = a => d = c /\ a = addr[c]
    BY <2>2, <1>1, Running
  <2>4. coOf[a] = c => a # addr[c]
    BY <2>3, DistinctAssumption DEF IInv, ContextsOK
  <2> QED
    BY <2>1, <2>3, <2>4, <1>1
<1>5. a # addr[c] => c \in reused
  BY <1>4 DEF IInv, CoroutinesReachNothing
<1>6. /\ ContextsOK'
      /\ \A q \in Proxies \ {p} : pc[q] # "none" => HomeOK(q)'
      /\ \A q \in Proxies, b \in Places : pc[q] # "none" /\ ptr[q] = storeAt'[b] => ptr[q] = storeAt[b]
  BY <1>1, <1>3, GetFrame
<1>7. TypeOK'
  <2>1. \A q \in Proxies : pc'[q] \in {"live", "dead", "lost"} => idx'[q] \in Ids
    BY <1>1, <1>3 DEF IInv, TypeOK
  <2>2. home' \in [Proxies -> Addrs \cup {NULL}] /\ ptr' \in [Proxies -> Stores \cup {NULL}]
    BY <1>1, <1>2, <1>4 DEF IInv, TypeOK
  <2> QED
    BY <2>1, <2>2, <1>1, <1>2, <1>3 DEF IInv, TypeOK
<1>8. EntriesOK' /\ PanicNeedsFree' /\ CoroutinesReachNothing'
  <2>1. \A s \in Stores, i \in Ids : table[s][i] # p
    BY <1>1, DistinctAssumption DEF IInv, EntriesOK, Made
  <2>2. EntriesOK'
    BY <2>1, <1>1, <1>3 DEF IInv, TypeOK, EntriesOK
  <2> QED
    BY <2>2, <1>1, <1>3 DEF IInv, PanicNeedsFree, CoroutinesReachNothing
<1>9. \A q \in Proxies : ProxyOK(q)'
  <2> SUFFICES ASSUME NEW q \in Proxies PROVE ProxyOK(q)'
    OBVIOUS
  <2>1. CASE q = p
    <3>1. HomeOK(p)'
      <4>1. phase'[c] # "none"
        BY <1>1, <1>4 DEF Held, IInv, ContextsOK
      <4>2. phase[c] = "freed" => c \in Excused
        <5>1. CASE c \in calls
          BY <5>1, InMethod DEF Excused
        <5>2. CASE c \notin calls
          BY <5>2, <1>4 DEF Excused, IInv, CoroutinesReachNothing
        <5> QED
          BY <5>1, <5>2
      <4>3. c \in Excused' <=> c \in Excused
        BY <1>1 DEF Excused
      <4> QED
        BY <4>1, <4>2, <4>3, <1>1, <1>2, <1>3, <1>4, <1>5 DEF HomeOK
    <3>2. PendingOK(p)'
      BY <1>1, <1>3, <1>4 DEF PendingOK, Held
    <3>3. ResolvesOK(p)'
      BY <1>3 DEF ResolvesOK, Made
    <3> QED
      BY <3>1, <3>2, <3>3, <2>1 DEF ProxyOK
  <2>2. CASE q # p
    <3>1. ProxyOK(q)
      BY DEF IInv
    <3>2. HomeOK(q)'
      BY <2>2, <1>3, <1>6 DEF HomeOK
    <3>3. PendingOK(q)' /\ ResolvesOK(q)'
      BY <3>1, <2>2, <1>1, <1>3 DEF ProxyOK, PendingOK, ResolvesOK, Kept, Held, Sound
    <3> QED
      BY <3>2, <3>3 DEF ProxyOK
  <2> QED
    BY <2>1, <2>2
<1>10. UsersOK'
  <2> SUFFICES ASSUME NEW q \in Proxies, NEW b \in Addrs, Uses(q, b)'
               PROVE  /\ \A d \in Ctxs : Sound(d)' /\ addr'[d] = b => maker'[q] = d
                      /\ coOf'[b] \in reused' \cup {NULL}
    BY DEF UsersOK
  <2>1. \A d \in Ctxs : Sound(d)' <=> Sound(d)
    BY <1>1 DEF Sound
  <2>2. CASE q = p
    <3>1. storeAt'[b] = storeAt'[a] /\ storeAt'[a] # NULL /\ b \in Places
      BY <2>2, <1>2, <1>3, Constants, DistinctAssumption DEF Uses, Places
    <3>2. b = a
      BY <3>1, <1>2 DEF RegistryOK
    <3> QED
      BY <3>2, <2>1, <2>2, <1>1, <1>3, <1>4, <1>5 DEF IInv, CoroutinesReachNothing
  <2>3. CASE q # p
    <3>1. pc[q] # "none" /\ ptr[q] = storeAt'[b] /\ b \in Places
      BY <2>3, <1>3 DEF Uses, Made, Places
    <3>2. ptr[q] = storeAt[b]
      BY <3>1, <1>6
    <3>3. Uses(q, b)
      BY <3>2, <2>3, <1>1, <1>3 DEF Uses, Kept
    <3> QED
      BY <3>3, <2>1, <2>3, <1>1, <1>3 DEF IInv, UsersOK
  <2> QED
    BY <2>2, <2>3
<1> QED
  BY <1>2, <1>6, <1>7, <1>8, <1>9, <1>10 DEF IInv

LEMMA RegisterTargetStep ==
  ASSUME IInv, NEW p \in Proxies, RegisterTarget(p)
  PROVE  IInv'
<1> USE DEF ctxVars
<1> DEFINE s == ptr[p]
           n == FreshId(ptr[p])
<1>1. /\ pc[p] = "register" /\ pc' = [pc EXCEPT ![p] = "live"]
      /\ idx' = [idx EXCEPT ![p] = n] /\ table' = [table EXCEPT ![s][idx'[p]] = p]
      /\ UNCHANGED <<phase, shared, addr, coOf, reached, calls, reused, cut, late>>
      /\ UNCHANGED <<storeAt, made, nil, maker, home, ptr>>
  BY DEF RegisterTarget
<1>2. s \in Stores /\ n \in Ids /\ table[s][n] = NULL
  BY <1>1, FreshIsFree
<1> HIDE DEF n
<1>3. /\ pc'[p] = "live" /\ idx'[p] = n
      /\ \A q \in Proxies \ {p} : pc'[q] = pc[q] /\ idx'[q] = idx[q]
      /\ table'[s][n] = p
      /\ \A t \in Stores, i \in Ids : t # s \/ i # n => table'[t][i] = table[t][i]
      /\ table' \in [Stores -> [Ids -> Proxies \cup {NULL}]]
  BY <1>1, <1>2 DEF IInv, TypeOK
<1>4. TypeOK'
  <2>1. \A q \in Proxies : pc'[q] \in {"live", "dead", "lost"} => idx'[q] \in Ids
    BY <1>2, <1>3 DEF IInv, TypeOK
  <2> QED
    BY <2>1, <1>1, <1>2, <1>3 DEF IInv, TypeOK
<1>5. ContextsOK' /\ RegistryOK' /\ CountOK' /\ PanicNeedsFree' /\ CoroutinesReachNothing'
  <2>1. ContextsOK' /\ RegistryOK'
    BY <1>1 DEF IInv, ContextsOK, RegistryOK, Held, Sound
  <2>2. CountOK'
    BY <1>1 DEF IInv, CountOK, Occupied, Gone
  <2>3. PanicNeedsFree' /\ CoroutinesReachNothing'
    BY <1>1, <1>3 DEF IInv, PanicNeedsFree, CoroutinesReachNothing
  <2> QED
    BY <2>1, <2>2, <2>3
\* The entries of the others are as they were.
<1>6. ASSUME NEW q \in Proxies \ {p}, pc[q] \in Made
      PROVE  Kept(q)' <=> Kept(q)
  <2>1. ptr[q] \in Stores /\ idx[q] \in Ids
    <3>1. ptr[q] \in 1 .. made
      BY <1>6 DEF IInv, ProxyOK, HomeOK, Made
    <3> QED
      BY <3>1, <1>6, Constants DEF IInv, TypeOK, Made
  <2> QED
    BY <2>1, <1>1, <1>2, <1>3, DistinctAssumption DEF Kept
<1>7. \A q \in Proxies : ProxyOK(q)'
  <2> SUFFICES ASSUME NEW q \in Proxies PROVE ProxyOK(q)'
    OBVIOUS
  <2>1. ProxyOK(q) /\ (Sound(maker[q])' <=> Sound(maker[q]))
    BY <1>1 DEF IInv, Sound
  <2>2. HomeOK(q)'
    BY <2>1, <1>1, <1>3 DEF ProxyOK, HomeOK, Excused, Sound
  <2>3. PendingOK(q)'
    BY <2>1, <1>1, <1>3 DEF ProxyOK, PendingOK, Held
  <2>4. ResolvesOK(q)'
    <3>1. CASE q = p
      BY <3>1, <1>1, <1>3 DEF ResolvesOK, Kept
    <3>2. CASE q # p
      BY <3>2, <2>1, <1>1, <1>3, <1>6 DEF ProxyOK, ResolvesOK
    <3> QED
      BY <3>1, <3>2
  <2> QED
    BY <2>2, <2>3, <2>4 DEF ProxyOK
<1>8. EntriesOK'
  <2> SUFFICES ASSUME NEW t \in Stores, NEW i \in Ids, table'[t][i] # NULL
               PROVE  LET q == table'[t][i] IN
                        pc'[q] \in Made /\ ptr[q] = t /\ idx'[q] = i
    BY <1>1 DEF EntriesOK
  <2>1. CASE t = s /\ i = n
    BY <2>1, <1>3 DEF Made
  <2>2. CASE t # s \/ i # n
    <3>1. table'[t][i] = table[t][i] /\ table[t][i] \in Proxies
      BY <2>2, <1>3 DEF IInv, TypeOK
    <3>2. pc[table[t][i]] \in Made /\ ptr[table[t][i]] = t /\ idx[table[t][i]] = i
      BY <3>1, DistinctAssumption DEF IInv, EntriesOK
    <3>3. table[t][i] # p
      BY <3>2, <1>1 DEF Made
    <3> QED
      BY <3>1, <3>2, <3>3, <1>3
  <2> QED
    BY <2>1, <2>2
<1>9. UsersOK'
  <2>1. \A q \in Proxies, b \in Addrs : Uses(q, b)' => Uses(q, b) /\ maker'[q] = maker[q]
    <3> SUFFICES ASSUME NEW q \in Proxies, NEW b \in Addrs, Uses(q, b)' PROVE Uses(q, b)
      BY <1>1
    <3>1. CASE q = p
      BY <3>1, <1>1 DEF Uses
    <3>2. CASE q # p
      BY <3>2, <1>1, <1>3, <1>6 DEF Uses
    <3> QED
      BY <3>1, <3>2
  <2>2. \A d \in Ctxs : Sound(d)' => Sound(d)
    BY <1>1 DEF Sound
  <2> QED
    BY <2>1, <2>2, <1>1, UsersKept
<1> QED
  BY <1>4, <1>5, <1>7, <1>8, <1>9 DEF IInv

LEMMA RegisterPanicsStep ==
  ASSUME IInv, NEW p \in Proxies, RegisterPanics(p)
  PROVE  IInv'
<1> USE DEF ctxVars, storeVars
<1>1. /\ pc[p] = "register" /\ ptr[p] \in nil /\ pc' = [pc EXCEPT ![p] = "panic"]
      /\ UNCHANGED <<phase, shared, addr, coOf, reached, calls, reused, cut, late>>
      /\ UNCHANGED <<storeAt, made, table, nil, maker, home, ptr, idx>>
  BY DEF RegisterPanics
<1>2. pc'[p] = "panic" /\ \A q \in Proxies \ {p} : pc'[q] = pc[q]
  BY <1>1 DEF IInv, TypeOK
<1>3. TypeOK'
  <2>1. \A q \in Proxies : pc'[q] \in {"live", "dead", "lost"} => idx'[q] \in Ids
    BY <1>1, <1>2 DEF IInv, TypeOK
  <2> QED
    BY <2>1, <1>1 DEF IInv, TypeOK
<1>4. ContextsOK' /\ RegistryOK' /\ CoroutinesReachNothing'
  BY <1>1 DEF IInv, ContextsOK, RegistryOK, CoroutinesReachNothing, Held, Sound
<1>5. CountOK'
  BY <1>1 DEF IInv, CountOK, Occupied, Gone
<1>6. \A q \in Proxies : ProxyOK(q)'
  BY <1>1, <1>2 DEF IInv, ProxyOK, HomeOK, PendingOK, ResolvesOK, Kept, Made, Held, Sound, Excused
<1>7. EntriesOK'
  BY <1>1, <1>2 DEF IInv, TypeOK, EntriesOK, Made
<1>8. UsersOK'
  <2>1. \A q \in Proxies, b \in Addrs : Uses(q, b)' => Uses(q, b) /\ maker'[q] = maker[q]
    BY <1>1, <1>2 DEF Uses, Kept, Made
  <2>2. \A d \in Ctxs : Sound(d)' => Sound(d)
    BY <1>1 DEF Sound
  <2> QED
    BY <2>1, <2>2, <1>1, UsersKept
<1>9. PanicNeedsFree'
  <2>1. /\ maker[p] \in Ctxs /\ Held(maker[p]) /\ ~Sound(maker[p])
        /\ maker[p] \notin reused => home[p] = addr[maker[p]]
        /\ coOf[home[p]] = maker[p] \/ maker[p] \in calls
    BY <1>1, OwnStore DEF IInv, ProxyOK, HomeOK, PendingOK
  <2>2. maker[p] \in reused \cup cut \cup late
    <3>1. CASE maker[p] \in calls
      BY <3>1, <2>1, InMethod DEF Sound
    <3>2. CASE coOf[home[p]] = maker[p]
      BY <3>2, <2>1, DistinctAssumption DEF IInv, ContextsOK
    <3> QED
      BY <3>1, <3>2, <2>1
  <2> QED
    BY <2>2, <1>1, <1>2 DEF IInv, PanicNeedsFree
<1> QED
  BY <1>3, <1>4, <1>5, <1>6, <1>7, <1>8, <1>9 DEF IInv

-----------------------------------------------------------------------------
(* Finalizers, and what frees a context. *)

LEMMA FreeTargetStep ==
  ASSUME IInv, NEW p \in Proxies, FreeTarget(p)
  PROVE  IInv'
<1> USE DEF ctxVars
<1> DEFINE m == maker[p]
<1>0. FinalizerThread(m) \in Places
  BY InMethod DEF FreeTarget, InScript, FinalizerThread, Places
<1> PICK a \in Places : a = FinalizerThread(m)
  BY <1>0
<1> DEFINE s == StoreOf(a)
<1>1. /\ pc[p] = "live" /\ (shared[m] \/ m \in calls)
      /\ GetPtrStore(a) /\ table' = [table EXCEPT ![s][idx[p]] = NULL]
      /\ pc' = [pc EXCEPT ![p] = "dead"]
      /\ UNCHANGED <<phase, shared, addr, coOf, reached, calls, reused, cut, late>>
      /\ UNCHANGED <<nil, maker, home, ptr, idx>>
  BY DEF FreeTarget, InScript
<1>2. a # GlobalHeap => ~shared[m] /\ m \in calls /\ a = addr[m]
  BY <1>1 DEF FinalizerThread
<1>3. /\ RegistryOK' /\ CountOK'
      /\ made' \in 0 .. Cardinality(Stores) /\ nil' \subseteq 1 .. made'
      /\ storeAt' \in [Addrs \cup {GlobalHeap} -> Stores \cup {NULL}]
      /\ storeAt'[a] = s /\ s \in Stores
      /\ \A b \in Places : storeAt[b] # NULL => storeAt'[b] = storeAt[b]
  <2>1. Gone' = Gone
    BY <1>1 DEF Gone
  <2> QED
    BY <2>1, <1>1, GetKeeps
<1>4. idx[p] \in Ids
  BY <1>1 DEF IInv, TypeOK
<1>5. /\ pc'[p] = "dead" /\ \A q \in Proxies \ {p} : pc'[q] = pc[q]
      /\ table'[s][idx[p]] = NULL
      /\ \A t \in Stores, i \in Ids : t # s \/ i # idx[p] => table'[t][i] = table[t][i]
      /\ table' \in [Stores -> [Ids -> Proxies \cup {NULL}]]
  <2> HIDE DEF s
  <2> QED
    BY <1>1, <1>3, <1>4 DEF IInv, TypeOK
<1>6. TypeOK'
  <2>1. \A q \in Proxies : pc'[q] \in {"live", "dead", "lost"} => idx'[q] \in Ids
    BY <1>1, <1>4, <1>5 DEF IInv, TypeOK
  <2> QED
    BY <2>1, <1>1, <1>3, <1>5 DEF IInv, TypeOK
<1>7. /\ ContextsOK'
      /\ \A q \in Proxies : pc[q] # "none" => HomeOK(q)'
      /\ \A q \in Proxies, b \in Places : pc[q] # "none" /\ ptr[q] = storeAt'[b] => ptr[q] = storeAt[b]
  BY <1>1, GetFrame
<1>8. PanicNeedsFree' /\ CoroutinesReachNothing'
  BY <1>1, <1>5 DEF IInv, PanicNeedsFree, CoroutinesReachNothing
\* A proxy that exists has a store and, once registered, an entry in it.
<1>9. ASSUME NEW q \in Proxies, pc[q] \in Made
      PROVE  ptr[q] \in Stores /\ idx[q] \in Ids
  <2>1. ptr[q] \in 1 .. made
    BY <1>9 DEF IInv, ProxyOK, HomeOK, Made
  <2> QED
    BY <2>1, <1>9, Constants DEF IInv, TypeOK, Made
<1>10. ASSUME NEW q \in Proxies, pc[q] \in Made, Kept(q)'
       PROVE  Kept(q)
  BY <1>1, <1>5, <1>9, <1>10, DistinctAssumption DEF Kept
\* Who keeps its entry: only p itself may lose it, if its context is sound.
<1>11. ASSUME NEW q \in Proxies, pc[q] \in Made, Sound(maker[q])
       PROVE  Kept(q)' <=> (pc'[q] # "dead" \/ shared[maker[q]])
  <2>1. /\ ptr[q] \in Stores /\ idx[q] \in Ids /\ maker[q] \in Ctxs /\ ptr[q] # NULL
        /\ addr[maker[q]] \in Places /\ storeAt[addr[maker[q]]] = ptr[q]
        /\ addr[maker[q]] \in Addrs /\ storeAt'[addr[maker[q]]] = ptr[q]
    BY <1>3, <1>9, <1>11, OwnStore DEF Made
  <2>2. Kept(q) <=> (pc[q] # "dead" \/ shared[maker[q]])
    BY <1>11 DEF IInv, ProxyOK, ResolvesOK
  <2>3. CASE ptr[q] # s
    <3>1. Kept(q)' <=> Kept(q)
      BY <2>1, <2>3, <1>1, <1>5 DEF Kept
    <3>2. q = p => shared[m]
      BY <2>1, <2>3, <1>3 DEF FinalizerThread
    <3> QED
      BY <3>1, <3>2, <2>2, <1>1, <1>5
  <2>4. CASE ptr[q] = s
    <3>1. addr[maker[q]] = a
      BY <2>1, <2>4, <1>3 DEF RegistryOK
    <3>2. maker[q] = m /\ ~shared[m]
      BY <3>1, <2>1, <1>11, <1>2, InMethod, DistinctAssumption
    <3>3. ptr[p] = s /\ Kept(p)
      BY <3>2, <2>4, <1>1, <1>11, OwnStore DEF IInv, ProxyOK, ResolvesOK, Made
    <3>4. CASE idx[q] = idx[p]
      <4>1. ~Kept(q)'
        BY <3>4, <2>4, <1>1, <1>5, DistinctAssumption DEF Kept
      <4>2. Kept(q) => q = p
        BY <3>3, <3>4, <2>4 DEF Kept
      <4> QED
        BY <4>1, <4>2, <3>2, <2>2, <1>5
    <3>5. CASE idx[q] # idx[p]
      <4>1. Kept(q)' <=> Kept(q)
        BY <3>5, <2>1, <1>1, <1>5 DEF Kept
      <4> QED
        BY <4>1, <3>5, <2>2, <1>5
    <3> QED
      BY <3>4, <3>5
  <2> QED
    BY <2>3, <2>4
<1>12. \A q \in Proxies : ProxyOK(q)'
  <2> SUFFICES ASSUME NEW q \in Proxies PROVE ProxyOK(q)'
    OBVIOUS
  <2>1. ProxyOK(q)
    BY DEF IInv
  <2>2. HomeOK(q)'
    BY <1>1, <1>5, <1>7 DEF HomeOK
  <2>3. PendingOK(q)'
    BY <2>1, <1>1, <1>5 DEF ProxyOK, PendingOK, Held
  <2>4. ResolvesOK(q)'
    BY <1>1, <1>5, <1>11 DEF ResolvesOK, Made, Sound
  <2> QED
    BY <2>2, <2>3, <2>4 DEF ProxyOK
<1>13. EntriesOK'
  <2> SUFFICES ASSUME NEW t \in Stores, NEW i \in Ids, table'[t][i] # NULL
               PROVE  LET q == table'[t][i] IN
                        pc'[q] \in Made /\ ptr[q] = t /\ idx[q] = i
    BY <1>1 DEF EntriesOK
  <2>1. table'[t][i] = table[t][i] /\ table[t][i] \in Proxies
    BY <1>5 DEF IInv, TypeOK
  <2> QED
    BY <2>1, <1>5 DEF IInv, EntriesOK, Made
<1>14. UsersOK'
  <2>1. ASSUME NEW q \in Proxies, NEW b \in Addrs, Uses(q, b)'
        PROVE  Uses(q, b)
    <3>1. pc[q] # "none" /\ ptr[q] = storeAt'[b] /\ b \in Places
      BY <2>1, <1>1, <1>5 DEF Uses, Made, Places
    <3>2. ptr[q] = storeAt[b]
      BY <3>1, <1>7
    <3>3. pc'[q] = "register" => pc[q] = "register"
      BY <1>1, <1>5
    <3>4. pc'[q] \in Made => pc[q] \in Made
      BY <1>1, <1>5 DEF Made
    <3> QED
      BY <3>2, <3>3, <3>4, <2>1, <1>1, <1>10 DEF Uses
  <2>2. \A d \in Ctxs : Sound(d)' => Sound(d)
    BY <1>1 DEF Sound
  <2> QED
    BY <2>1, <2>2, <1>1, UsersKept
<1> QED
  BY <1>3, <1>6, <1>7, <1>8, <1>12, <1>13, <1>14 DEF IInv

LEMMA RefuseFinalizerStep ==
  ASSUME IInv, NEW p \in Proxies, RefuseFinalizer(p)
  PROVE  IInv'
<1> USE DEF ctxVars, storeVars
<1>1. /\ pc[p] = "live" /\ pc' = [pc EXCEPT ![p] = "lost"]
      /\ UNCHANGED <<phase, shared, addr, coOf, reached, calls, reused, cut, late>>
      /\ UNCHANGED <<storeAt, made, table, nil, maker, home, ptr, idx>>
  BY DEF RefuseFinalizer
<1>2. pc'[p] = "lost" /\ \A q \in Proxies \ {p} : pc'[q] = pc[q]
  BY <1>1 DEF IInv, TypeOK
<1>3. TypeOK'
  <2>1. \A q \in Proxies : pc'[q] \in {"live", "dead", "lost"} => idx'[q] \in Ids
    BY <1>1, <1>2 DEF IInv, TypeOK
  <2> QED
    BY <2>1, <1>1 DEF IInv, TypeOK
<1>4. ContextsOK' /\ RegistryOK' /\ CoroutinesReachNothing' /\ PanicNeedsFree'
  BY <1>1, <1>2
  DEF IInv, ContextsOK, RegistryOK, CoroutinesReachNothing, PanicNeedsFree, Held, Sound
<1>5. CountOK'
  BY <1>1 DEF IInv, CountOK, Occupied, Gone
<1>6. \A q \in Proxies : ProxyOK(q)'
  BY <1>1, <1>2 DEF IInv, ProxyOK, HomeOK, PendingOK, ResolvesOK, Kept, Made, Held, Sound, Excused
<1>7. EntriesOK'
  BY <1>1, <1>2 DEF IInv, TypeOK, EntriesOK, Made
<1>8. UsersOK'
  <2>1. \A q \in Proxies, b \in Addrs : Uses(q, b)' => Uses(q, b) /\ maker'[q] = maker[q]
    BY <1>1, <1>2 DEF Uses, Kept, Made
  <2>2. \A d \in Ctxs : Sound(d)' => Sound(d)
    BY <1>1 DEF Sound
  <2> QED
    BY <2>1, <2>2, <1>1, UsersKept
<1> QED
  BY <1>3, <1>4, <1>5, <1>6, <1>7, <1>8 DEF IInv

LEMMA DestroyHeapStep ==
  ASSUME IInv, NEW c \in Ctxs, DestroyHeap(c)
  PROVE  IInv'
<1> USE DEF storeVars
<1> PICK a \in Addrs : a = addr[c]
  BY DEF DestroyHeap, IInv, TypeOK
<1> DEFINE s == StoreOf(a)
<1>1. /\ phase[c] = "live" /\ ~shared[c] /\ phase' = [phase EXCEPT ![c] = "destroyed"]
      /\ pc' = [p \in Proxies |-> IF p \in LivesIn(c) THEN "dead"
                                  ELSE IF pc[p] = "register" /\ maker[p] = c
                                       THEN "crash" ELSE pc[p]]
      /\ coOf' = [b \in Addrs |-> IF coOf[b] = c THEN NULL ELSE coOf[b]]
      /\ reached' = {b \in reached : b \in Addrs => coOf[b] # c}
      /\ calls' = calls \ {c} /\ cut \subseteq cut' /\ cut' \subseteq Ctxs
      /\ UNCHANGED <<shared, addr, reused, late, nil, maker, home, ptr, idx>>
  BY DEF DestroyHeap, IInv, TypeOK
<1>2. \/ UNCHANGED <<storeAt, made, table>>
      \/ /\ GetPtrStore(a)
         /\ table' = [table EXCEPT ![s] =
                        [i \in Ids |-> IF i \in {idx[p] : p \in LivesIn(c)} THEN NULL ELSE @[i]]]
  BY DEF DestroyHeap
<1>3. /\ phase'[c] = "destroyed" /\ (\A d \in Ctxs \ {c} : phase'[d] = phase[d])
      /\ Gone' = Gone /\ a \in Places
  BY <1>1 DEF IInv, TypeOK, Gone, Places
<1>4. /\ \A d \in Ctxs : Sound(d)' => d # c /\ Sound(d) /\ addr[d] # a
      /\ \A d \in Ctxs : Held(d)' <=> d # c /\ Held(d)
  <2>1. \A d \in Ctxs : Sound(d)' => d # c /\ Sound(d)
    BY <1>1, <1>3 DEF Sound
  <2> QED
    BY <2>1, <1>1, <1>3 DEF IInv, ContextsOK, Held, Sound
<1>5. /\ RegistryOK' /\ CountOK'
      /\ made' \in 0 .. Cardinality(Stores) /\ made <= made' /\ made \in Nat /\ made' \in Nat
      /\ storeAt' \in [Addrs \cup {GlobalHeap} -> Stores \cup {NULL}]
      /\ \A b \in Places \ {a} : storeAt'[b] = storeAt[b]
      /\ \A b \in Places : storeAt[b] # NULL => storeAt'[b] = storeAt[b]
      /\ \A b \in Places : storeAt[b] = NULL => storeAt'[b] \in {NULL, made + 1}
  <2>1. CASE UNCHANGED <<storeAt, made, table>>
    <3>1. RegistryOK'
      BY <2>1, <1>1, <1>3 DEF IInv, RegistryOK
    <3>2. CountOK'
      BY <2>1, <1>3 DEF IInv, CountOK, Occupied
    <3> QED
      BY <3>1, <3>2, <2>1, Constants DEF IInv, TypeOK
  <2>2. CASE GetPtrStore(a)
    BY <2>2, <1>1, <1>3, GetKeeps
  <2> QED
    BY <2>1, <2>2, <1>2
<1>6. /\ table' \in [Stores -> [Ids -> Proxies \cup {NULL}]]
      /\ \A t \in Stores, i \in Ids : table'[t][i] # NULL => table'[t][i] = table[t][i]
      /\ \A t \in Stores \ {s} : table'[t] = table[t]
  <2>1. CASE UNCHANGED <<storeAt, made, table>>
    BY <2>1 DEF IInv, TypeOK
  <2>2. CASE /\ GetPtrStore(a)
             /\ table' = [table EXCEPT ![s] =
                     [i \in Ids |-> IF i \in {idx[p] : p \in LivesIn(c)} THEN NULL ELSE @[i]]]
    <3> DEFINE D == {idx[p] : p \in LivesIn(c)}
    <3>1. s \in Stores /\ table \in [Stores -> [Ids -> Proxies \cup {NULL}]]
      BY <1>3, Room DEF IInv, TypeOK
    <3> HIDE DEF s, D
    <3>2. table' = [table EXCEPT ![s] = [i \in Ids |-> IF i \in D THEN NULL ELSE table[s][i]]]
      BY <2>2, <3>1 DEF s, D
    <3> QED
      BY <3>1, <3>2
  <2> QED
    BY <2>1, <2>2, <1>2
<1>7. \A q \in Proxies :
        /\ pc'[q] # "none" <=> pc[q] # "none"
        /\ pc'[q] = "register" => pc[q] = "register" /\ maker[q] # c
        /\ pc'[q] \in Made <=> pc[q] \in Made
        /\ pc'[q] = "panic" => pc[q] = "panic"
        /\ maker[q] # c => pc'[q] = pc[q]
  BY <1>1 DEF LivesIn, Made
<1>8. \A b \in Addrs : coOf'[b] \in {coOf[b], NULL} /\ (coOf[b] # c => coOf'[b] = coOf[b])
                       /\ coOf'[b] # c
  BY <1>1, DistinctAssumption
<1>9. TypeOK'
  <2>1. nil' \subseteq 1 .. made'
    BY <1>1, <1>5 DEF IInv, TypeOK
  <2>2. pc' \in [Proxies -> {"none", "register", "live", "dead", "lost", "panic", "crash"}]
    BY <1>1 DEF IInv, TypeOK
  <2>3. \A q \in Proxies : pc'[q] \in {"live", "dead", "lost"} => idx'[q] \in Ids
    BY <1>1, <1>7 DEF IInv, TypeOK, Made
  <2>4. calls' \subseteq {d \in Ctxs : phase'[d] = "live" \/ (shared'[d] /\ d \in cut' \cup late')}
    BY <1>1, <1>3 DEF IInv, TypeOK
  <2>5. coOf' \in [Addrs -> Ctxs \cup {NULL}] /\ reached' \subseteq Addrs
    BY <1>1 DEF IInv, TypeOK
  <2> QED
    BY <2>1, <2>2, <2>3, <2>4, <2>5, <1>1, <1>3, <1>5, <1>6 DEF IInv, TypeOK
<1>10. ContextsOK'
  <2>1. \A d \in Ctxs : Held(d)' => coOf'[addr'[d]] = NULL
    <3> SUFFICES ASSUME NEW d \in Ctxs, Held(d) PROVE coOf'[addr[d]] = NULL
      BY <1>1, <1>4
    <3>1. addr[d] \in Addrs
      BY DEF IInv, TypeOK, Held
    <3> QED
      BY <3>1, <1>8 DEF IInv, ContextsOK
  <2>2. \A b \in Addrs : coOf'[b] # NULL => Held(coOf[b])'
    <3> SUFFICES ASSUME NEW b \in Addrs, coOf'[b] # NULL PROVE Held(coOf[b])'
      OBVIOUS
    <3>1. PICK d \in Ctxs : d = coOf[b] /\ d # c /\ Held(d) /\ coOf'[b] = d
      BY <1>8 DEF IInv, ContextsOK, TypeOK
    <3>2. Held(d)'
      BY <3>1, <1>4
    <3> QED
      BY <3>1, <3>2 DEF Held
  <2>3. \A d, e \in Ctxs : d # e /\ Held(d)' /\ Held(e)' => addr'[d] # addr'[e]
    BY <1>1, <1>4 DEF IInv, ContextsOK
  <2>4. \A d, e \in Ctxs : Sound(d)' /\ phase'[e] = "destroyed" => addr'[e] # addr'[d]
    BY <1>1, <1>3, <1>4 DEF IInv, ContextsOK
  <2>5. \A d \in Ctxs : phase'[d] = "none" => ~shared'[d]
    BY <1>1, <1>3 DEF IInv, ContextsOK
  <2> QED
    BY <2>1, <2>2, <2>3, <2>4, <2>5 DEF ContextsOK
<1>11. \A q \in Proxies : ProxyOK(q)'
  <2> SUFFICES ASSUME NEW q \in Proxies PROVE ProxyOK(q)'
    OBVIOUS
  <2>1. ProxyOK(q)
    BY DEF IInv
  <2>2. CASE pc[q] = "none"
    BY <2>2, <1>7 DEF ProxyOK, HomeOK, PendingOK, ResolvesOK, Made
  <2>3. CASE pc[q] # "none"
    <3>1. PICK d \in Ctxs : d = maker[q] /\ phase[d] # "none"
      BY <2>1, <2>3 DEF ProxyOK, HomeOK
    <3>2. HomeOK(q)'
      <4>1. Sound(maker[q])' => Sound(maker[q])
        BY <3>1, <1>1, <1>4 DEF Sound
      <4>2. phase'[d] # "none" /\ (phase'[d] = "freed" => phase[d] = "freed")
        BY <3>1, <1>3
      <4>3. Excused \subseteq Excused'
        BY <1>1 DEF Excused
      <4> QED
        BY <4>1, <4>2, <4>3, <3>1, <2>3, <1>1, <1>5, HomeKept
    <3>3. PendingOK(q)'
      <4> SUFFICES ASSUME pc'[q] = "register"
                   PROVE  /\ Held(maker[q])'
                          /\ coOf'[home[q]] = maker[q] \/ (maker[q] \in calls' /\ home[q] = addr[maker[q]])
        BY <1>1 DEF PendingOK
      <4>1. pc[q] = "register" /\ d # c /\ Held(d) /\ home[q] \in Addrs
        BY <2>1, <3>1, <1>7 DEF ProxyOK, HomeOK, PendingOK
      <4>2. Held(d)'
        BY <4>1, <1>4
      <4>3. Held(maker[q])'
        BY <4>2, <3>1, <1>1 DEF Held
      <4> QED
        BY <4>1, <4>3, <2>1, <3>1, <1>1, <1>8 DEF ProxyOK, PendingOK
    <3>4. ResolvesOK(q)'
      <4> SUFFICES ASSUME pc'[q] \in Made, Sound(maker[q])'
                   PROVE  Kept(q)' <=> pc'[q] # "dead" \/ shared[maker[q]]
        BY <1>1 DEF ResolvesOK
      <4>1. Sound(d)' /\ d # c /\ Sound(d) /\ addr[d] # a
        BY <3>1, <1>1, <1>4 DEF Sound
      <4>2. /\ addr[d] \in Places /\ storeAt[addr[d]] = ptr[q]
            /\ ptr[q] # NULL /\ ptr[q] \in Stores
        BY <2>3, <3>1, <4>1, OwnStore
      <4>3. table'[ptr[q]] = table[ptr[q]]
        <5>1. CASE UNCHANGED <<storeAt, made, table>>
          BY <5>1
        <5>2. CASE GetPtrStore(a)
          <6>1. ptr[q] # s
            BY <5>2, <4>1, <4>2, <1>1, <1>3, GetKeeps DEF RegistryOK
          <6> QED
            BY <6>1, <4>2, <1>6
        <5> QED
          BY <5>1, <5>2, <1>2
      <4>4. Kept(q)' <=> Kept(q)
        BY <4>3, <1>1 DEF Kept
      <4> QED
        BY <4>1, <4>4, <2>1, <3>1, <1>1, <1>7 DEF ProxyOK, ResolvesOK, Sound
    <3> QED
      BY <3>2, <3>3, <3>4 DEF ProxyOK
  <2> QED
    BY <2>2, <2>3
<1>12. EntriesOK'
  <2> SUFFICES ASSUME NEW t \in Stores, NEW i \in Ids, table'[t][i] # NULL
               PROVE  LET q == table'[t][i] IN
                        pc'[q] \in Made /\ ptr[q] = t /\ idx[q] = i
    BY <1>1 DEF EntriesOK
  <2>1. table'[t][i] = table[t][i] /\ table[t][i] \in Proxies
    BY <1>6 DEF IInv, TypeOK
  <2> QED
    BY <2>1, <1>7 DEF IInv, EntriesOK
<1>13. UsersOK'
  <2>1. ASSUME NEW q \in Proxies, NEW b \in Addrs, Uses(q, b)'
        PROVE  Uses(q, b)
    <3>1. pc[q] # "none" /\ ptr[q] = storeAt'[b] /\ b \in Places
      BY <2>1, <1>1, <1>7 DEF Uses, Made, Places
    <3>2. ptr[q] = storeAt[b]
      BY <3>1, <1>5, PlaceKept
    <3>3. CASE pc'[q] = "register"
      BY <3>2, <3>3, <1>7 DEF Uses
    <3>4. CASE pc'[q] \in Made /\ Kept(q)'
      <4>1. pc[q] \in Made /\ idx[q] \in Ids /\ ptr[q] \in Stores
        BY <3>1, <3>2, <3>4, <1>7, StorePlace DEF IInv, TypeOK, Made
      <4>2. Kept(q)
        BY <3>4, <4>1, <1>1, <1>6, DistinctAssumption DEF Kept
      <4> QED
        BY <4>1, <4>2, <3>2 DEF Uses
    <3> QED
      BY <3>3, <3>4, <2>1 DEF Uses
  <2> QED
    BY <2>1, <1>1, <1>4, <1>8, UsersKept
<1>14. PanicNeedsFree' /\ CoroutinesReachNothing'
  <2>1. CoroutinesReachNothing'
    BY <1>1, <1>8 DEF IInv, CoroutinesReachNothing
  <2> QED
    BY <2>1, <1>1, <1>7 DEF IInv, PanicNeedsFree
<1> QED
  BY <1>5, <1>9, <1>10, <1>11, <1>12, <1>13, <1>14 DEF IInv

LEMMA DelPtrStoreStep ==
  ASSUME IInv, NEW c \in Ctxs, DelPtrStore(c)
  PROVE  IInv'
<1> USE DEF proxyVars
<1> PICK a \in Addrs : a = addr[c]
  BY DEF DelPtrStore, IInv, TypeOK
<1> DEFINE s == storeAt[a]
<1>1. /\ phase[c] = "destroyed" /\ phase' = [phase EXCEPT ![c] = "freed"]
      /\ storeAt' = [storeAt EXCEPT ![a] = NULL]
      /\ UNCHANGED <<shared, addr, coOf, reached, calls, reused, cut, late, made>>
      /\ UNCHANGED <<pc, maker, home, ptr, idx>>
  BY DEF DelPtrStore, DropEntry, FreedKey
<1>2. /\ s = NULL => UNCHANGED <<table, nil>>
      /\ s # NULL => table' = [table EXCEPT ![s] = Empty] /\ nil' = nil \cup {s}
  BY DEF DelPtrStore, FreedKey
<1>3. /\ phase'[c] = "freed" /\ (\A d \in Ctxs \ {c} : phase'[d] = phase[d])
      /\ a \in Places /\ storeAt'[a] = NULL
      /\ (\A b \in Places \ {a} : storeAt'[b] = storeAt[b])
      /\ storeAt' \in [Places -> Stores \cup {NULL}]
  BY <1>1 DEF IInv, TypeOK, Places
<1>4. /\ \A d \in Ctxs : Sound(d)' <=> Sound(d)
      /\ \A d \in Ctxs : Sound(d) => d # c /\ addr[d] # a
      /\ \A d \in Ctxs : Held(d)' <=> Held(d)
  BY <1>1, <1>3 DEF IInv, ContextsOK, Sound, Held
<1>5. ContextsOK'
  <2>1. \A b \in Addrs : coOf'[b] # NULL => Held(coOf[b])'
    <3> SUFFICES ASSUME NEW b \in Addrs, coOf'[b] # NULL PROVE Held(coOf[b])'
      OBVIOUS
    <3>1. PICK d \in Ctxs : d = coOf[b] /\ Held(d)
      BY <1>1 DEF IInv, ContextsOK, TypeOK
    <3>2. Held(d)'
      BY <3>1, <1>4
    <3> QED
      BY <3>1, <3>2, <1>1 DEF Held
  <2> QED
    BY <2>1, <1>1, <1>3, <1>4 DEF IInv, ContextsOK
<1>6. \A t \in Places : storeAt[t] # NULL => storeAt[t] \in (1 .. made) \ nil
  BY DEF IInv, RegistryOK
<1>7. /\ table' \in [Stores -> [Ids -> Proxies \cup {NULL}]] /\ nil' \subseteq 1 .. made
      /\ nil \subseteq nil'
      /\ \A t \in Stores, i \in Ids : table'[t][i] # NULL => table'[t][i] = table[t][i]
      /\ \A t \in Stores \ {s} : table'[t] = table[t]
  <2>1. s # NULL => s \in Stores
    BY <1>3 DEF IInv, TypeOK, Places
  <2>2. Empty \in [Ids -> Proxies \cup {NULL}] /\ \A i \in Ids : Empty[i] = NULL
    BY DEF Empty
  <2>3. nil' \subseteq 1 .. made /\ nil \subseteq nil'
    BY <1>2, <1>3, <1>6 DEF IInv, TypeOK
  <2>4. table \in [Stores -> [Ids -> Proxies \cup {NULL}]]
    BY DEF IInv, TypeOK
  <2> HIDE DEF s
  <2>5. table' \in [Stores -> [Ids -> Proxies \cup {NULL}]]
    BY <2>1, <2>2, <2>4, <1>2
  <2>6. \A t \in Stores \ {s} : table'[t] = table[t]
    BY <2>4, <1>2
  <2>7. \A t \in Stores, i \in Ids : table'[t][i] # NULL => table'[t][i] = table[t][i]
    BY <2>1, <2>2, <2>4, <1>2
  <2> QED
    BY <2>3, <2>5, <2>6, <2>7
<1>8. TypeOK'
  <2>1. calls' \subseteq {d \in Ctxs : phase'[d] = "live" \/ (shared'[d] /\ d \in cut' \cup late')}
    BY <1>1, <1>3 DEF IInv, TypeOK
  <2> QED
    BY <2>1, <1>1, <1>3, <1>7 DEF IInv, TypeOK, Places
<1>9. RegistryOK'
  <2>1. \A b, d \in Places : storeAt'[b] # NULL /\ b # d => storeAt'[b] # storeAt'[d]
    BY <1>3 DEF IInv, RegistryOK
  <2>2. \A b \in Places : storeAt'[b] # NULL => storeAt'[b] \in (1 .. made') \ nil'
    BY <1>1, <1>2, <1>3, <1>6 DEF IInv, RegistryOK
  <2> QED
    BY <2>1, <2>2 DEF RegistryOK
<1>10. CountOK'
  <2>1. /\ IsFiniteSet(Occupied) /\ IsFiniteSet(Gone) /\ made \in Nat
        /\ Cardinality(Occupied) \in Nat /\ Cardinality(Gone) \in Nat
    BY <1>3, Room DEF IInv
  <2>2. Gone' = Gone \cup {c} /\ c \notin Gone
    BY <1>1, <1>3 DEF Gone
  <2>3. Occupied' = Occupied \ {a}
    BY <1>3 DEF Occupied
  <2>4. Cardinality(Gone') = Cardinality(Gone) + 1
    BY <2>1, <2>2, FS_AddElement
  <2>5. Cardinality(Occupied') \in {Cardinality(Occupied), Cardinality(Occupied) - 1}
    BY <2>1, <2>3, FS_RemoveElement
  <2> QED
    BY <2>1, <2>4, <2>5, <1>1 DEF IInv, CountOK
\* Who has a store elsewhere keeps it; the store at c's address is cleared.
<1>11. ASSUME NEW q \in Proxies, pc[q] # "none"
       PROVE  /\ home[q] # a => (ptr[q] = storeAt[home[q]] <=> ptr[q] = storeAt'[home[q]])
              /\ home[q] = a => ptr[q] \in nil'
              /\ home[q] \in Places
  <2>1. /\ home[q] \in Places
        /\ ptr[q] \in nil \/ ptr[q] = storeAt[home[q]]
    BY <1>11 DEF IInv, ProxyOK, HomeOK, Places
  <2>2. ptr[q] = storeAt[home[q]] => storeAt[home[q]] # NULL
    BY <2>1, <1>11, StorePlace
  <2>3. home[q] = a => ptr[q] \in nil'
    BY <2>1, <2>2, <1>2, <1>7
  <2> QED
    BY <2>1, <2>3, <1>3
<1>12. \A q \in Proxies : ProxyOK(q)'
  <2> SUFFICES ASSUME NEW q \in Proxies PROVE ProxyOK(q)'
    OBVIOUS
  <2>1. ProxyOK(q)
    BY DEF IInv
  <2>2. CASE pc[q] = "none"
    BY <2>2, <1>1 DEF ProxyOK, HomeOK, PendingOK, ResolvesOK, Made
  <2>3. CASE pc[q] # "none"
    <3>1. PICK d \in Ctxs : d = maker[q] /\ phase[d] # "none"
      BY <2>1, <2>3 DEF ProxyOK, HomeOK
    <3>2. /\ (Sound(maker[q])' <=> Sound(maker[q])) /\ (Held(maker[q])' <=> Held(maker[q]))
          /\ Sound(maker[q]) => maker[q] # c /\ addr[maker[q]] # a
          /\ phase'[d] # "none" /\ (d # c => phase'[d] = phase[d])
      BY <3>1, <1>1, <1>3, <1>4 DEF Sound, Held
    <3>3. HomeOK(q)'
      <4>1. ptr[q] = storeAt'[home[q]] \/ (ptr[q] \in nil' /\ ~Sound(maker[q])')
        <5>1. CASE Sound(maker[q])
          BY <5>1, <3>2, <2>3, <1>11, OwnStore
        <5>2. CASE ~Sound(maker[q])
          BY <5>2, <3>2, <2>1, <2>3, <1>7, <1>11 DEF ProxyOK, HomeOK
        <5> QED
          BY <5>1, <5>2
      <4>2. phase'[maker[q]] = "freed" /\ maker[q] \notin Excused => ptr[q] \in nil'
        <5>1. CASE maker[q] = c
          BY <5>1, <2>1, <2>3, <1>11 DEF ProxyOK, HomeOK, Excused
        <5>2. CASE maker[q] # c
          BY <5>2, <3>1, <3>2, <2>1, <2>3, <1>7 DEF ProxyOK, HomeOK
        <5> QED
          BY <5>1, <5>2
      <4>3. Excused' = Excused
        BY <1>1 DEF Excused
      <4> QED
        BY <4>1, <4>2, <4>3, <3>1, <3>2, <2>1, <2>3, <1>1 DEF ProxyOK, HomeOK
    <3>4. PendingOK(q)'
      BY <2>1, <3>2, <1>1 DEF ProxyOK, PendingOK
    <3>5. ResolvesOK(q)'
      <4> SUFFICES ASSUME pc[q] \in Made, Sound(maker[q])
                   PROVE  Kept(q)' <=> pc[q] # "dead" \/ shared[maker[q]]
        BY <3>2, <1>1 DEF ResolvesOK
      <4>1. /\ addr[maker[q]] \in Places /\ storeAt[addr[maker[q]]] = ptr[q]
            /\ ptr[q] # NULL /\ ptr[q] \in Stores /\ addr[maker[q]] # a
        BY <2>3, <3>2, OwnStore
      <4>2. ptr[q] # s
        BY <4>1, <1>3 DEF IInv, RegistryOK
      <4>3. Kept(q)' <=> Kept(q)
        BY <4>1, <4>2, <1>1, <1>7 DEF Kept
      <4> QED
        BY <4>3, <2>1 DEF ProxyOK, ResolvesOK
    <3> QED
      BY <3>3, <3>4, <3>5 DEF ProxyOK
  <2> QED
    BY <2>2, <2>3
<1>13. EntriesOK' /\ PanicNeedsFree' /\ CoroutinesReachNothing'
  BY <1>1, <1>7 DEF IInv, EntriesOK, PanicNeedsFree, CoroutinesReachNothing
<1>14. UsersOK'
  <2>1. ASSUME NEW q \in Proxies, NEW b \in Addrs, Uses(q, b)'
        PROVE  Uses(q, b)
    <3>1. /\ pc[q] # "none" /\ ptr[q] = storeAt'[b] /\ b \in Places
          /\ ptr[q] \in 1 .. made
      BY <2>1, <1>1 DEF Uses, Made, Places, IInv, ProxyOK, HomeOK
    <3>2. ptr[q] \in Stores /\ ptr[q] # NULL
      BY <3>1, Constants, DistinctAssumption DEF IInv, TypeOK
    <3>3. b # a /\ ptr[q] = storeAt[b]
      BY <3>1, <3>2, <1>3
    <3>4. pc[q] \in Made /\ Kept(q)' => Kept(q)
      <4> SUFFICES ASSUME pc[q] \in Made, Kept(q)' PROVE Kept(q)
        OBVIOUS
      <4>1. idx[q] \in Ids
        BY DEF IInv, TypeOK, Made
      <4>2. table'[ptr[q]][idx[q]] = q /\ q # NULL
        BY <1>1, DistinctAssumption DEF Kept
      <4>3. table'[ptr[q]][idx[q]] = table[ptr[q]][idx[q]]
        BY <3>2, <4>1, <4>2, <1>7
      <4> QED
        BY <4>2, <4>3 DEF Kept
    <3> QED
      BY <3>3, <3>4, <2>1, <1>1 DEF Uses
  <2>2. \A d \in Ctxs : Sound(d)' => Sound(d)
    BY <1>4
  <2> QED
    BY <2>1, <2>2, <1>1, UsersKept
<1> QED
  BY <1>5, <1>8, <1>9, <1>10, <1>12, <1>13, <1>14 DEF IInv

LEMMA StepHolds == IInv /\ [Next]_vars => IInv'
<1> SUFFICES ASSUME IInv, [Next]_vars PROVE IInv'
  OBVIOUS
<1>1. ASSUME NEW c \in Ctxs, NEW g \in BOOLEAN, NEW a \in Addrs, NewContext(c, g, a)
      PROVE  IInv'
  BY <1>1, NewContextStep
<1>2. ASSUME NEW c \in Ctxs, NEW a \in Addrs, NewCoroutine(c, a)
      PROVE  IInv'
  BY <1>2, NewCoroutineStep
<1>3. ASSUME NEW a \in Addrs, FreeCoroutine(a)
      PROVE  IInv'
  BY <1>3, FreeCoroutineStep
<1>4. ASSUME NEW p \in Proxies, NEW c \in Ctxs, NEW a \in Addrs \cup {GlobalHeap},
             MakeProxyObject(p, c, a) \/ Access(p, c, a)
      PROVE  IInv'
  BY <1>4, MakeProxyObjectStep, AccessStep DEF Places
<1>5. ASSUME NEW p \in Proxies,
             \/ RegisterTarget(p) \/ RegisterPanics(p)
             \/ FreeTarget(p) \/ RefuseFinalizer(p)
      PROVE  IInv'
  BY <1>5, RegisterTargetStep, RegisterPanicsStep, FreeTargetStep, RefuseFinalizerStep
<1>6. ASSUME NEW c \in Ctxs, EnterMethod(c) \/ LeaveMethod(c) PROVE IInv'
  BY <1>6, MethodSteps
<1>7. ASSUME NEW c \in Ctxs, LeaveHeap(c) \/ DestroyHeap(c) \/ DelPtrStore(c) PROVE IInv'
  BY <1>7, LeaveHeapStep, DestroyHeapStep, DelPtrStoreStep
<1>8. ASSUME UNCHANGED vars PROVE IInv'
  BY <1>8, CallsFrame DEF vars, storeVars, proxyVars, IInv, TypeOK
<1> QED
  BY <1>1, <1>2, <1>3, <1>4, <1>5, <1>6, <1>7, <1>8 DEF Next

-----------------------------------------------------------------------------
\* The inductive invariant: contexts and coroutines have their addresses,
\* stores (go-ptr-id.go:24-45) and the entries of their stores to themselves,
\* unless they were given an address whose earlier owner was still being freed.
THEOREM Invariant == Spec => []IInv
<1>1. Init => IInv
  BY InitHolds
<1>2. IInv /\ [Next]_vars => IInv'
  BY StepHolds
<1> QED
  BY <1>1, <1>2, PTL DEF Spec

\* The type invariant: register always finds a free id; with one store for
\* each address that a context, a coroutine or globalHeap can have, and one
\* more for each delPtrStore, getPtrStore never runs out of names; and no
\* proxy is ever made on globalHeap's first thread.
THEOREM TypeCorrect == Spec => []TypeOK
<1>1. IInv => TypeOK
  BY DEF IInv
<1> QED
  BY <1>1, Invariant, PTL

\* While its maker lives, a proxy resolves to its own Go value there
\* (getTargetValue), on whatever threads other proxies are used, made and
\* finalized, and a default context's proxies do so even after they were
\* finalized: their ids are given back to the store of globalHeap.
THEOREM ProxiesResolve == Spec => [](OwnProxyResolves /\ SharedKeeps)
<1>1. IInv => OwnProxyResolves /\ SharedKeeps
  <2> SUFFICES ASSUME IInv, NEW p \in Proxies,
                      pc[p] \in Made, phase[maker[p]] = "live",
                      maker[p] \notin reused, pc[p] = "live" \/ shared[maker[p]]
               PROVE  Target(maker[p], p) = p
    BY DEF OwnProxyResolves, SharedKeeps, Made
  <2>1. Sound(maker[p]) /\ pc[p] # "none"
    BY DEF Sound, Made
  <2>2. table[ptr[p]][idx[p]] = p
    BY <2>1 DEF IInv, ProxyOK, ResolvesOK, Kept
  <2> QED
    BY <2>1, <2>2, OwnStore DEF Target, TargetAt
<1> QED
  BY <1>1, Invariant, PTL

\* The store of an isolated context holds its live proxies, those whose
\* finalizer was refused, and nothing else.
THEOREM StoreIsExact == Spec => []IsolatedReclaims
<1>1. IInv => IsolatedReclaims
  <2> SUFFICES ASSUME IInv, NEW c \in Ctxs,
                      Sound(c), ~shared[c], storeAt[addr[c]] # NULL, NEW p \in Proxies
               PROVE  (\E i \in Ids : table[storeAt[addr[c]]][i] = p)
                        <=> maker[p] = c /\ pc[p] \in {"live", "lost"}
    BY DEF IsolatedReclaims, Sound
  <2>1. storeAt[addr[c]] \in Stores /\ addr[c] \in Addrs
    BY SoundPlace DEF IInv, TypeOK, Places
  <2>2. ASSUME NEW i \in Ids, table[storeAt[addr[c]]][i] = p
        PROVE  pc[p] \in {"live", "lost"} /\ maker[p] = c
    <3>1. pc[p] \in Made /\ ptr[p] = storeAt[addr[c]] /\ idx[p] = i
      BY <2>1, <2>2, DistinctAssumption DEF IInv, EntriesOK
    <3>2. Kept(p) /\ Uses(p, addr[c])
      BY <2>2, <3>1 DEF Kept, Uses
    <3>3. maker[p] = c
      BY <3>2, <2>1 DEF IInv, UsersOK
    <3> QED
      BY <3>1, <3>2, <3>3 DEF IInv, ProxyOK, ResolvesOK, Made
  <2>3. ASSUME pc[p] \in {"live", "lost"}, maker[p] = c
        PROVE  idx[p] \in Ids /\ table[storeAt[addr[c]]][idx[p]] = p
    <3>1. Kept(p) /\ pc[p] # "none"
      BY <2>3 DEF IInv, ProxyOK, ResolvesOK, Made
    <3> QED
      BY <3>1, <2>3, OwnStore DEF IInv, TypeOK, Kept
  <2> QED
    BY <2>2, <2>3
<1> QED
  BY <1>1, Invariant, PTL

\* No lookup in a coroutine, nor in a JS finalizer of a default context, finds
\* a Go value, so that no proxy is made there either.
THEOREM NothingInCoroutines == Spec => []CoroutinesReachNothing
<1>1. IInv => CoroutinesReachNothing
  BY DEF IInv
<1> QED
  BY <1>1, Invariant, PTL

\* A store that no freeJsContext will delete any more holds no Go value, but
\* those of contexts freed while in use, used afterwards, or given the address
\* of one still being freed.
THEOREM NoValueLeaks == Spec => []LeftStoresAreEmpty
<1>1. IInv => LeftStoresAreEmpty
  <2> SUFFICES ASSUME IInv, NEW a \in Places, NEW i \in Ids,
                      storeAt[a] # NULL, table[storeAt[a]][i] # NULL,
                      maker[table[storeAt[a]][i]] \notin Excused
               PROVE  \E c \in Ctxs : addr[c] = a /\ phase[c] \in {"live", "destroyed"}
    BY DEF LeftStoresAreEmpty, Places, Excused
  <2>1. storeAt[a] \in Stores /\ storeAt[a] \notin nil
    BY DEF IInv, TypeOK, RegistryOK, Places
  <2>2. PICK q \in Proxies : q = table[storeAt[a]][i]
    BY <2>1 DEF IInv, TypeOK
  <2>3. pc[q] # "none" /\ ptr[q] = storeAt[a] /\ maker[q] \notin reused
    BY <2>1, <2>2 DEF IInv, EntriesOK, Made, Excused
  <2>4. a = home[q]
    BY <2>3, StorePlace
  <2>5. /\ maker[q] \in Ctxs /\ a = addr[maker[q]]
        /\ phase[maker[q]] \in {"live", "destroyed", "freed"}
    BY <2>3, <2>4 DEF IInv, ProxyOK, HomeOK, TypeOK
  <2>6. phase[maker[q]] # "freed"
    BY <2>1, <2>2, <2>3 DEF IInv, ProxyOK, HomeOK
  <2> QED
    BY <2>5, <2>6
<1> QED
  BY <1>1, Invariant, PTL

\* A registration meets a cleared store only on a context that was freed
\* while its method ran, used afterwards, or given an address still in use.
THEOREM RegisterIsSafe == Spec => []PanicNeedsFree
<1>1. IInv => PanicNeedsFree
  BY DEF IInv
<1> QED
  BY <1>1, Invariant, PTL

\* Until its context is freed, every proxy of a default context resolves, also
\* after its finalizer (freeTarget) has given an id back to globalHeap's store.
THEOREM SharedObjectsKeep == Spec => []SharedKeeps
BY ProxiesResolve, PTL
=============================================================================
