--------------------------- MODULE CtxLocksProofs ---------------------------
(***************************************************************************)
(* CtxLocks for every set of goroutines, number of contexts and depth of   *)
(* nesting: the inductive invariant, what the mutexes exclude, and which   *)
(* programs cannot deadlock.                                               *)
(***************************************************************************)
EXTENDS CtxLocks, FiniteSetTheorems, SequenceTheorems, WellFoundedInduction, TLAPS

\* The mutex and the stages of a call are those of its kind.
FrameOK(f, exist) ==
  /\ f.kind = "load" =>
       f.mutex = Cache /\ f.stage \in {"lock", "find", "eval"} /\ (f.stage = "eval" => f.new \in exist)
  /\ f.kind = "method" => f.mutex \in exist /\ f.stage \in {"lock", "script"}
  /\ f.kind = "closure" => f.mutex \in exist /\ f.stage = "script"

FramesOK == \A t \in Threads : \A k \in Calls(t) : FrameOK(stack[t][k], made)

\* Only the innermost call waits; the others run a script, or are a load
\* whose EvalFile is the next call.
OuterCalls ==
  \A t \in Threads : \A k \in Calls(t) :
    k < Len(stack[t]) =>
      /\ stack[t][k].stage \in {"eval", "script"}
      /\ stack[t][k].stage = "eval" => stack[t][k + 1].kind = "method"

\* No goroutine has locked a mutex twice.
LockedOnce ==
  \A t \in Threads : \A j, k \in Calls(t) :
    Holds(stack[t][j]) /\ Holds(stack[t][k]) /\ stack[t][j].mutex = stack[t][k].mutex => j = k

IInv == TypeOK /\ FramesOK /\ OuterCalls /\ LockedOnce

-----------------------------------------------------------------------------
(* The stacks of calls: pushing, popping and replacing the innermost call. *)
LEMMA PushFacts ==
  ASSUME NEW s \in Seq(Frames), NEW f \in Frames
  PROVE  /\ Append(s, f) \in Seq(Frames)
         /\ Len(Append(s, f)) = Len(s) + 1
         /\ \A k \in 1 .. Len(s) : Append(s, f)[k] = s[k]
         /\ Append(s, f)[Len(s) + 1] = f
  OBVIOUS

LEMMA PopFacts ==
  ASSUME NEW s \in Seq(Frames), s # <<>>
  PROVE  /\ Len(s) \in Nat \ {0}
         /\ SubSeq(s, 1, Len(s) - 1) \in Seq(Frames)
         /\ Len(SubSeq(s, 1, Len(s) - 1)) = Len(s) - 1
         /\ \A k \in 1 .. Len(s) - 1 : SubSeq(s, 1, Len(s) - 1)[k] = s[k]
  <1>1. Len(s) \in Nat \ {0}
    BY EmptySeq
  <1>2. \A k \in 1 .. Len(s) - 1 : s[k] \in Frames
    BY <1>1, ElementOfSeq
  <1> DEFINE n == Len(s) - 1
  <1>3. n \in Int /\ 1 \in Int /\ n \in Nat
    BY <1>1
  <1>4. /\ SubSeq(s, 1, n) \in Seq(Frames)
        /\ Len(SubSeq(s, 1, n)) = IF 1 <= n THEN n - 1 + 1 ELSE 0
        /\ \A i \in 1 .. n - 1 + 1 : SubSeq(s, 1, n)[i] = s[1 + i - 1]
    <2> HIDE DEF n
    <2>1. \A i \in 1 .. n : s[i] \in Frames
      BY <1>2 DEF n
    <2>2. QED
      BY <1>3, <2>1, SubSeqProperties
  <1>5. Len(SubSeq(s, 1, n)) = n
    <2> HIDE DEF n
    <2> QED
      BY <1>3, <1>4
  <1>6. ASSUME NEW k \in 1 .. n PROVE SubSeq(s, 1, n)[k] = s[k]
    <2> HIDE DEF n
    <2>1. k \in 1 .. n - 1 + 1 /\ 1 + k - 1 = k
      BY <1>3
    <2>2. SubSeq(s, 1, n)[k] = s[1 + k - 1]
      BY <1>4, <2>1
    <2>3. QED
      BY <2>1, <2>2
  <1>7. QED
    BY <1>1, <1>4, <1>5, <1>6

(* A call that stands on the stack of t. *)
LEMMA CallFacts ==
  ASSUME TypeOK, NEW t \in Threads
  PROVE  /\ stack[t] \in Seq(Frames)
         /\ Len(stack[t]) \in Nat
         /\ \A k \in Calls(t) : stack[t][k] \in Frames
         /\ stack[t] # <<>> => Len(stack[t]) \in Calls(t) /\ Top(t) \in Frames
  <1>1. stack[t] \in Seq(Frames)
    BY DEF TypeOK
  <1>2. Len(stack[t]) \in Nat /\ (stack[t] # <<>> => Len(stack[t]) # 0)
    BY <1>1, EmptySeq, LenProperties
  <1>3. \A k \in Calls(t) : stack[t][k] \in Frames
    BY <1>1, ElementOfSeq DEF Calls
  <1>4. QED
    BY <1>1, <1>2, <1>3 DEF Calls, Top

-----------------------------------------------------------------------------
LEMMA InitIInv == Init => IInv
  <1> SUFFICES ASSUME Init PROVE IInv
    OBVIOUS
  <1>1. \A t \in Threads : stack[t] = <<>> /\ Calls(t) = {}
    <2>1. \A t \in Threads : stack[t] = <<>>
      BY DEF Init
    <2>2. 1 .. Len(<<>>) = {}
      OBVIOUS
    <2>3. QED
      BY <2>1, <2>2 DEF Calls
  <1>2. TypeOK
    <2>1. stack \in [Threads -> Seq(Frames)]
      BY DEF Init
    <2>2. QED
      BY <1>1, <2>1, CtxAssumption, ThreadsAssumption DEF Init, TypeOK
  <1>3. QED
    BY <1>1, <1>2 DEF IInv, FramesOK, OuterCalls, LockedOnce

(* A call is made: its frame comes above one that runs a script. *)
LEMMA PushStep ==
  ASSUME IInv, NEW t \in Threads, NEW f \in Frames,
         InGo(t), Push(t, f), FrameOK(f, made), ~Holds(f),
         UNCHANGED <<holder, known, made, escaped>>
  PROVE  IInv'
  <1> DEFINE n == Len(stack[t])
  <1>1. stack[t] \in Seq(Frames) /\ n \in Nat
    BY CallFacts DEF IInv
  <1>2. stack' \in [Threads -> Seq(Frames)] /\ stack'[t] = Append(stack[t], f)
    BY <1>1, PushFacts DEF IInv, TypeOK, Push
  <1>3. \A u \in Threads : u # t => stack'[u] = stack[u]
    BY DEF IInv, TypeOK, Push
  <1>4. Len(stack'[t]) = n + 1 /\ stack'[t][n + 1] = f
        /\ \A k \in 1 .. n : stack'[t][k] = stack[t][k]
    BY <1>1, <1>2, PushFacts
  <1>5. n # 0 => stack[t][n].stage = "script"
    BY <1>1, EmptySeq DEF InGo, Top
  <1> HIDE DEF n
  <1>6. Calls(t) = 1 .. n /\ Calls(t)' = 1 .. n + 1
        /\ \A u \in Threads : u # t => Calls(u)' = Calls(u)
    BY <1>3, <1>4 DEF Calls, n
  <1>7. TypeOK'
    <2>1. ASSUME NEW u \in Threads, NEW m \in Mutexes
          PROVE  holder'[m] = u <=> \E k \in Calls(u)' : stack'[u][k].mutex = m /\ Holds(stack'[u][k])
      <3>1. holder[m] = u <=> \E k \in Calls(u) : stack[u][k].mutex = m /\ Holds(stack[u][k])
        BY DEF IInv, TypeOK
      <3>2. CASE u = t
        <4>1. Calls(u) = 1 .. n /\ Calls(u)' = 1 .. n + 1
          BY <1>4, <3>2 DEF Calls, n
        <4>2. \A k \in 1 .. n : stack'[u][k] = stack[u][k]
          BY <1>4, <3>2
        <4>3. n + 1 \in 1 .. n + 1 /\ ~Holds(stack'[u][n + 1])
          BY <1>1, <1>4, <3>2
        <4>4. QED
          BY <1>1, <3>1, <4>1, <4>2, <4>3
      <3>3. CASE u # t
        BY <1>3, <1>6, <3>1, <3>3
      <3>4. QED
        BY <3>2, <3>3
    <2>2. QED
      BY <1>2, <2>1 DEF IInv, TypeOK
  <1>8. FramesOK'
    <2>1. ASSUME NEW u \in Threads, NEW k \in Calls(u)' PROVE FrameOK(stack'[u][k], made')
      BY <1>1, <1>3, <1>4, <1>6 DEF IInv, FramesOK
    <2>2. QED
      BY <2>1 DEF FramesOK
  <1>9. OuterCalls'
    <2>1. ASSUME NEW u \in Threads, NEW k \in Calls(u)', k < Len(stack'[u])
          PROVE  /\ stack'[u][k].stage \in {"eval", "script"}
                 /\ stack'[u][k].stage = "eval" => stack'[u][k + 1].kind = "method"
      <3>1. CASE u = t /\ k = n
        BY <1>1, <1>4, <1>5, <1>6, <3>1
      <3>2. CASE u = t /\ k # n
        <4>1. k \in Calls(t) /\ k + 1 \in 1 .. n /\ k < n
          BY <1>1, <1>4, <1>6, <2>1, <3>2
        <4>2. QED
          BY <1>4, <1>6, <3>2, <4>1 DEF IInv, OuterCalls, n
      <3>3. CASE u # t
        BY <1>3, <1>6, <2>1, <3>3 DEF IInv, OuterCalls
      <3>4. QED
        BY <3>1, <3>2, <3>3
    <2>2. QED
      BY <2>1 DEF OuterCalls
  <1>10. LockedOnce'
    <2>1. ASSUME NEW u \in Threads, NEW k \in Calls(u)', Holds(stack'[u][k])
          PROVE  k \in Calls(u) /\ stack'[u][k] = stack[u][k]
      <3>1. CASE u = t
        <4>1. k \in 1 .. n + 1 /\ Calls(u) = 1 .. n
          BY <1>4, <3>1 DEF Calls, n
        <4>2. k # n + 1
          BY <1>4, <2>1, <3>1
        <4>3. k \in 1 .. n
          BY <1>1, <4>1, <4>2
        <4>4. QED
          BY <1>4, <3>1, <4>1, <4>3
      <3>2. CASE u # t
        BY <1>3, <1>6, <3>2
      <3>3. QED
        BY <3>1, <3>2
    <2>2. ASSUME NEW u \in Threads, NEW j \in Calls(u)', NEW k \in Calls(u)',
                 Holds(stack'[u][j]), Holds(stack'[u][k]), stack'[u][j].mutex = stack'[u][k].mutex
          PROVE  j = k
      BY <2>1, <2>2 DEF IInv, LockedOnce
    <2>3. QED
      BY <2>2 DEF LockedOnce
  <1>11. QED
    BY <1>7, <1>8, <1>9, <1>10 DEF IInv

(* A call returns, and unlocks what it has locked. *)
LEMMA PopStep ==
  ASSUME IInv, NEW t \in Threads, stack[t] # <<>>, Pop(t),
         holder' = IF Holds(Top(t)) THEN Unlock(Top(t).mutex) ELSE holder,
         known' \subseteq made, made' = made, escaped' = escaped
  PROVE  IInv'
  <1> DEFINE n == Len(stack[t])
  <1> DEFINE M == Top(t).mutex
  <1>1. /\ stack[t] \in Seq(Frames) /\ n \in Nat \ {0} /\ n \in Calls(t)
        /\ Top(t) = stack[t][n] /\ Top(t) \in Frames
    BY CallFacts, PopFacts DEF IInv, Top, Calls
  <1>2. stack' \in [Threads -> Seq(Frames)] /\ stack'[t] = SubSeq(stack[t], 1, n - 1)
    BY <1>1, PopFacts DEF IInv, TypeOK, Pop, Below
  <1>3. \A u \in Threads : u # t => stack'[u] = stack[u]
    BY DEF IInv, TypeOK, Pop
  <1>4. Len(stack'[t]) = n - 1 /\ \A k \in 1 .. n - 1 : stack'[t][k] = stack[t][k]
    BY <1>1, <1>2, PopFacts
  <1>5. Calls(t) = 1 .. n /\ Calls(t)' = 1 .. n - 1
        /\ \A u \in Threads : u # t => Calls(u)' = Calls(u)
    BY <1>3, <1>4 DEF Calls
  <1>6. M \in Mutexes
    BY <1>1 DEF Frames
  <1> HIDE DEF n, M
  <1>7. ASSUME NEW u \in Threads, NEW k \in Calls(u)'
         PROVE  k \in Calls(u) /\ stack'[u][k] = stack[u][k]
    <2>1. CASE u = t
      <3>1. k \in 1 .. n - 1
        BY <1>4, <2>1 DEF Calls
      <3>2. QED
        BY <1>1, <1>4, <1>5, <2>1, <3>1
    <2>2. QED
      BY <1>3, <1>5, <2>1
  <1>8. TypeOK'
    <2>1. ASSUME NEW u \in Threads, NEW m \in Mutexes
          PROVE  holder'[m] = u <=> \E k \in Calls(u)' : stack'[u][k].mutex = m /\ Holds(stack'[u][k])
      <3>1. holder[m] = u <=> \E k \in Calls(u) : stack[u][k].mutex = m /\ Holds(stack[u][k])
        BY DEF IInv, TypeOK
      <3>2. Holds(Top(t)) /\ m = M => holder[m] = t /\ holder'[m] = NULL
        BY <1>1 DEF IInv, TypeOK, Unlock, M
      <3>3. ~(Holds(Top(t)) /\ m = M) => holder'[m] = holder[m]
        BY DEF IInv, TypeOK, Unlock, M
      <3>4. CASE u = t
        <4>1. Calls(u) = 1 .. n /\ Calls(u)' = 1 .. n - 1
          BY <1>4, <3>4 DEF Calls, n
        <4>2. \A k \in 1 .. n - 1 : stack'[u][k] = stack[u][k]
          BY <1>4, <3>4
        <4>3. CASE Holds(Top(t)) /\ m = M
          <5>1. ASSUME NEW k \in 1 .. n - 1 PROVE ~(stack[u][k].mutex = m /\ Holds(stack[u][k]))
            <6>1. k \in Calls(t) /\ k # n
              BY <1>1, <1>5
            <6>2. QED
              BY <1>1, <3>4, <4>3, <6>1 DEF IInv, LockedOnce, M
          <5>2. QED
            BY <3>2, <4>1, <4>2, <4>3, <5>1, ThreadsAssumption
        <4>4. CASE ~(Holds(Top(t)) /\ m = M)
          <5>1. ~(stack[u][n].mutex = m /\ Holds(stack[u][n]))
            BY <1>1, <3>4, <4>4 DEF M
          <5>2. QED
            BY <1>1, <3>1, <3>3, <4>1, <4>2, <4>4, <5>1
        <4>5. QED
          BY <4>3, <4>4
      <3>5. CASE u # t
        BY <1>3, <1>5, <3>1, <3>2, <3>3, <3>5, ThreadsAssumption
      <3>6. QED
        BY <3>4, <3>5
    <2>2. holder' \in [Mutexes -> Threads \cup {NULL}]
      BY <1>6 DEF IInv, TypeOK, Unlock, M
    <2>3. QED
      BY <1>2, <2>1, <2>2 DEF IInv, TypeOK
  <1>9. FramesOK'
    <2>1. ASSUME NEW u \in Threads, NEW k \in Calls(u)' PROVE FrameOK(stack'[u][k], made')
      BY <1>7 DEF IInv, FramesOK
    <2>2. QED
      BY <2>1 DEF FramesOK
  <1>10. OuterCalls'
    <2>1. ASSUME NEW u \in Threads, NEW k \in Calls(u)', k < Len(stack'[u])
          PROVE  /\ stack'[u][k].stage \in {"eval", "script"}
                 /\ stack'[u][k].stage = "eval" => stack'[u][k + 1].kind = "method"
      <3>1. CASE u = t
        <4>1. k \in Calls(t) /\ k \in 1 .. n - 1 /\ k + 1 \in 1 .. n - 1 /\ k < n
          BY <1>1, <1>4, <1>5, <2>1, <3>1
        <4>2. QED
          BY <1>4, <3>1, <4>1 DEF IInv, OuterCalls, n
      <3>2. CASE u # t
        BY <1>3, <1>5, <2>1, <3>2 DEF IInv, OuterCalls
      <3>3. QED
        BY <3>1, <3>2
    <2>2. QED
      BY <2>1 DEF OuterCalls
  <1>11. LockedOnce'
    <2>1. ASSUME NEW u \in Threads, NEW j \in Calls(u)', NEW k \in Calls(u)',
                 Holds(stack'[u][j]), Holds(stack'[u][k]), stack'[u][j].mutex = stack'[u][k].mutex
          PROVE  j = k
      BY <1>7, <2>1 DEF IInv, LockedOnce
    <2>2. QED
      BY <2>1 DEF LockedOnce
  <1>12. QED
    BY <1>8, <1>9, <1>10, <1>11 DEF IInv

(* A mutex is granted to the innermost call of t. *)
LEMMA LockStep ==
  ASSUME IInv, NEW t \in Threads, Lock(t)
  PROVE  IInv'
  <1> DEFINE n == Len(stack[t])
  <1> DEFINE M == Top(t).mutex
  <1> DEFINE g == [Top(t) EXCEPT !.stage = IF Top(t).kind = "load" THEN "find" ELSE "script"]
  <1>1. /\ stack[t] \in Seq(Frames) /\ stack[t] # <<>> /\ n \in Nat \ {0} /\ n \in Calls(t)
        /\ Top(t) = stack[t][n] /\ Top(t) \in Frames
    BY CallFacts, PopFacts DEF IInv, Top, Calls, Lock
  <1>2. g \in Frames /\ g.mutex = M /\ g.kind = Top(t).kind /\ Holds(g) /\ ~Holds(Top(t))
    <2>1. FrameOK(Top(t), made) /\ Top(t).stage = "lock"
      BY <1>1 DEF IInv, FramesOK, Lock
    <2>2. QED
      BY <1>1, <2>1 DEF Frames, FrameOK, Holds
  <1>3. FrameOK(g, made)
    <2>1. FrameOK(Top(t), made) /\ Top(t).stage = "lock"
      BY <1>1 DEF IInv, FramesOK, Lock
    <2>2. QED
      BY <1>1, <2>1 DEF Frames, FrameOK
  <1>4. M \in Mutexes /\ holder[M] = NULL /\ holder' = [holder EXCEPT ![M] = t]
    BY <1>1 DEF Frames, Lock, Free
  <1> HIDE DEF g
  <1>5. stack' = [stack EXCEPT ![t] = Append(SubSeq(stack[t], 1, n - 1), g)]
    BY DEF Lock, Stage, Below, g
  <1> HIDE DEF n, M
  <1>6. stack' \in [Threads -> Seq(Frames)] /\ Len(stack'[t]) = n /\ stack'[t][n] = g
        /\ \A k \in 1 .. n - 1 : stack'[t][k] = stack[t][k]
    <2> DEFINE b == SubSeq(stack[t], 1, n - 1)
    <2>1. b \in Seq(Frames) /\ Len(b) = n - 1 /\ \A k \in 1 .. n - 1 : b[k] = stack[t][k]
      BY <1>1, PopFacts DEF n
    <2> HIDE DEF b
    <2>2. /\ Append(b, g) \in Seq(Frames)
          /\ Len(Append(b, g)) = n - 1 + 1
          /\ \A k \in 1 .. n - 1 : Append(b, g)[k] = b[k]
          /\ Append(b, g)[n - 1 + 1] = g
      BY <1>2, <2>1, PushFacts
    <2>3. n - 1 + 1 = n
      BY <1>1
    <2>4. stack' = [stack EXCEPT ![t] = Append(b, g)]
      BY <1>5 DEF b
    <2>5. stack'[t] = Append(b, g) /\ stack' \in [Threads -> Seq(Frames)]
      BY <2>2, <2>4 DEF IInv, TypeOK
    <2>6. QED
      BY <2>1, <2>2, <2>3, <2>5
  <1>7. \A u \in Threads : u # t => stack'[u] = stack[u]
    BY <1>5 DEF IInv, TypeOK
  <1>8. ASSUME NEW u \in Threads
        PROVE  /\ Calls(u)' = Calls(u) /\ Len(stack'[u]) = Len(stack[u])
               /\ \A k \in Calls(u) : ~(u = t /\ k = n) => stack'[u][k] = stack[u][k]
    <2>1. CASE u = t
      BY <1>1, <1>6, <2>1 DEF Calls, n
    <2>2. QED
      BY <1>7, <2>1 DEF Calls
  <1>9. ASSUME NEW u \in Threads, NEW k \in Calls(u), stack[u][k].mutex = M
        PROVE  ~Holds(stack[u][k])
    BY <1>4, <1>9, ThreadsAssumption DEF IInv, TypeOK
  <1>10. TypeOK'
    <2>1. ASSUME NEW u \in Threads, NEW m \in Mutexes
          PROVE  holder'[m] = u <=> \E k \in Calls(u)' : stack'[u][k].mutex = m /\ Holds(stack'[u][k])
      <3>1. holder[m] = u <=> \E k \in Calls(u) : stack[u][k].mutex = m /\ Holds(stack[u][k])
        BY DEF IInv, TypeOK
      <3>2. holder'[m] = IF m = M THEN t ELSE holder[m]
        BY <1>4 DEF IInv, TypeOK
      <3>3. CASE u = t
        <4>1. n \in Calls(u)' /\ stack'[u][n] = g /\ stack[u][n] = Top(t)
          BY <1>1, <1>6, <1>8, <3>3
        <4>2. QED
          BY <1>2, <1>8, <1>9, <3>1, <3>2, <3>3, <4>1 DEF M
      <3>4. CASE u # t
        BY <1>8, <1>9, <3>1, <3>2, <3>4
      <3>5. QED
        BY <3>3, <3>4
    <2>2. holder' \in [Mutexes -> Threads \cup {NULL}]
      BY <1>4 DEF IInv, TypeOK
    <2>3. QED
      BY <1>6, <2>1, <2>2 DEF IInv, TypeOK, Lock
  <1>11. FramesOK'
    <2>1. ASSUME NEW u \in Threads, NEW k \in Calls(u)' PROVE FrameOK(stack'[u][k], made')
      BY <1>3, <1>6, <1>8 DEF IInv, FramesOK, Lock
    <2>2. QED
      BY <2>1 DEF FramesOK
  <1>12. OuterCalls'
    <2>1. ASSUME NEW u \in Threads, NEW k \in Calls(u)', k < Len(stack'[u])
          PROVE  /\ stack'[u][k].stage \in {"eval", "script"}
                 /\ stack'[u][k].stage = "eval" => stack'[u][k + 1].kind = "method"
      <3>1. k \in Calls(u) /\ k < Len(stack[u]) /\ ~(u = t /\ k = n)
        BY <1>8, <2>1 DEF n, Calls
      <3>2. k + 1 \in Calls(u) /\ stack'[u][k] = stack[u][k]
        <4>1. Len(stack[u]) \in Nat
          BY CallFacts DEF IInv
        <4>2. QED
          BY <1>8, <3>1, <4>1 DEF Calls
      <3>3. stack'[u][k + 1].kind = stack[u][k + 1].kind
        BY <1>1, <1>2, <1>6, <1>8, <3>2
      <3>4. QED
        BY <3>1, <3>2, <3>3 DEF IInv, OuterCalls
    <2>2. QED
      BY <2>1 DEF OuterCalls
  <1>13. LockedOnce'
    <2>1. ASSUME NEW u \in Threads, NEW j \in Calls(u)', NEW k \in Calls(u)',
                 Holds(stack'[u][j]), Holds(stack'[u][k]), stack'[u][j].mutex = stack'[u][k].mutex
          PROVE  j = k
      <3>1. j \in Calls(u) /\ k \in Calls(u)
        BY <1>8
      <3>2. CASE u = t /\ (j = n \/ k = n)
        BY <1>2, <1>6, <1>8, <1>9, <2>1, <3>1, <3>2
      <3>3. CASE ~(u = t /\ (j = n \/ k = n))
        BY <1>8, <2>1, <3>1, <3>3 DEF IInv, LockedOnce
      <3>4. QED
        BY <3>2, <3>3
    <2>2. QED
      BY <2>1 DEF LockedOnce
  <1>14. QED
    BY <1>10, <1>11, <1>12, <1>13 DEF IInv

(* A load makes context c and calls its EvalFile. *)
LEMMA CreateStep ==
  ASSUME IInv, NEW t \in Threads, NEW c \in Ctxs, CreateContext(t, c)
  PROVE  IInv'
  <1> DEFINE n == Len(stack[t])
  <1> DEFINE e == [Top(t) EXCEPT !.stage = "eval", !.new = c]
  <1> DEFINE f == Frame("method", c, "lock")
  <1>1. /\ stack[t] \in Seq(Frames) /\ stack[t] # <<>> /\ n \in Nat \ {0} /\ n \in Calls(t)
        /\ Top(t) = stack[t][n] /\ Top(t) \in Frames
        /\ Top(t).kind = "load" /\ Top(t).stage = "find"
    BY CallFacts, PopFacts DEF IInv, Top, Calls, CreateContext, At
  <1>2. /\ e \in Frames /\ e.kind = "load" /\ e.stage = "eval" /\ e.new = c
        /\ e.mutex = Top(t).mutex /\ Holds(e) /\ Holds(Top(t))
    BY <1>1 DEF Frames, Holds
  <1>3. /\ f \in Frames /\ f.kind = "method" /\ f.stage = "lock" /\ f.mutex = c /\ ~Holds(f)
    BY DEF Frames, Frame, Holds, Mutexes
  <1>4. made' = made \cup {c} /\ UNCHANGED <<holder, known, escaped>>
    BY DEF CreateContext
  <1> HIDE DEF e, f
  <1>5. stack' = [stack EXCEPT ![t] = SubSeq(stack[t], 1, n - 1) \o <<e, f>>]
    BY DEF CreateContext, Below, e, f
  <1> HIDE DEF n
  <1>6. stack' \in [Threads -> Seq(Frames)] /\ Len(stack'[t]) = n + 1
        /\ stack'[t][n] = e /\ stack'[t][n + 1] = f
        /\ \A k \in 1 .. n - 1 : stack'[t][k] = stack[t][k]
    <2> DEFINE b == SubSeq(stack[t], 1, n - 1)
    <2>1. b \in Seq(Frames) /\ Len(b) = n - 1 /\ \A k \in 1 .. n - 1 : b[k] = stack[t][k]
      BY <1>1, PopFacts DEF n
    <2> HIDE DEF b
    <2> DEFINE x == <<e, f>>
    <2>2. x \in Seq(Frames) /\ Len(x) = 2 /\ x[1] = e /\ x[2] = f
      BY <1>2, <1>3
    <2> HIDE DEF x
    <2> DEFINE r == b \o x
    <2>3. /\ r \in Seq(Frames)
          /\ Len(r) = Len(b) + Len(x)
          /\ \A i \in 1 .. Len(b) + Len(x) : r[i] = IF i <= Len(b) THEN b[i] ELSE x[i - Len(b)]
      BY <2>1, <2>2, ConcatProperties
    <2> HIDE DEF r
    <2>4. Len(r) = n + 1 /\ \A i \in 1 .. n + 1 : r[i] = IF i <= n - 1 THEN b[i] ELSE x[i - (n - 1)]
      <3>1. Len(b) + Len(x) = n + 1
        BY <1>1, <2>1, <2>2
      <3>2. QED
        BY <2>1, <2>3, <3>1
    <2>5. r[n] = e /\ r[n + 1] = f /\ \A k \in 1 .. n - 1 : r[k] = b[k]
      <3>1. /\ n \in 1 .. n + 1 /\ n + 1 \in 1 .. n + 1
            /\ ~(n <= n - 1) /\ ~(n + 1 <= n - 1)
            /\ n - (n - 1) = 1 /\ n + 1 - (n - 1) = 2
            /\ \A k \in 1 .. n - 1 : k \in 1 .. n + 1 /\ k <= n - 1
        BY <1>1
      <3>2. r[n] = x[n - (n - 1)]
        BY <2>4, <3>1
      <3>3. r[n + 1] = x[n + 1 - (n - 1)]
        BY <2>4, <3>1
      <3>4. \A k \in 1 .. n - 1 : r[k] = b[k]
        BY <2>4, <3>1
      <3>5. QED
        BY <2>2, <3>1, <3>2, <3>3, <3>4
    <2>6. stack' = [stack EXCEPT ![t] = r]
      BY <1>5 DEF b, x, r
    <2>7. stack'[t] = r /\ stack' \in [Threads -> Seq(Frames)]
      BY <2>3, <2>6 DEF IInv, TypeOK
    <2>8. QED
      BY <2>1, <2>4, <2>5, <2>7
  <1>7. \A u \in Threads : u # t => stack'[u] = stack[u]
    BY <1>5 DEF IInv, TypeOK
  <1>8. ASSUME NEW u \in Threads
        PROVE  /\ Calls(u)' = IF u = t THEN Calls(u) \cup {n + 1} ELSE Calls(u)
               /\ \A k \in Calls(u) : ~(u = t /\ k = n) => stack'[u][k] = stack[u][k]
               /\ u = t => n \in Calls(u) /\ n + 1 \notin Calls(u)
    <2>1. CASE u = t
      <3>1. Calls(u)' = 1 .. n + 1 /\ Calls(u) = 1 .. n
        BY <1>6, <2>1 DEF Calls, n
      <3>2. \A k \in 1 .. n : k # n => k \in 1 .. n - 1
        BY <1>1
      <3>3. 1 .. n + 1 = (1 .. n) \cup {n + 1} /\ n + 1 \notin 1 .. n
        BY <1>1
      <3>4. QED
        BY <1>1, <1>6, <2>1, <3>1, <3>2, <3>3
    <2>2. QED
      BY <1>7, <2>1 DEF Calls
  <1>9. TypeOK'
    <2>1. ASSUME NEW u \in Threads, NEW m \in Mutexes
          PROVE  holder'[m] = u <=> \E k \in Calls(u)' : stack'[u][k].mutex = m /\ Holds(stack'[u][k])
      <3>1. holder[m] = u <=> \E k \in Calls(u) : stack[u][k].mutex = m /\ Holds(stack[u][k])
        BY DEF IInv, TypeOK
      <3>2. CASE u = t
        <4>1. stack'[u][n] = e /\ stack'[u][n + 1] = f /\ stack[u][n] = Top(t)
          BY <1>1, <1>6, <3>2
        <4>2. Calls(u)' = Calls(u) \cup {n + 1} /\ n \in Calls(u)
              /\ \A k \in Calls(u) : k # n => stack'[u][k] = stack[u][k]
          BY <1>8, <3>2
        <4>3. QED
          BY <1>2, <1>3, <1>4, <3>1, <4>1, <4>2
      <3>3. CASE u # t
        BY <1>4, <1>7, <1>8, <3>1, <3>3
      <3>4. QED
        BY <3>2, <3>3
    <2>2. QED
      BY <1>4, <1>6, <2>1 DEF IInv, TypeOK
  <1>10. FramesOK'
    <2>1. FrameOK(e, made') /\ FrameOK(f, made')
      <3>1. FrameOK(Top(t), made)
        BY <1>1 DEF IInv, FramesOK
      <3>2. c \in made'
        BY <1>4
      <3>3. QED
        BY <1>1, <1>2, <1>3, <3>1, <3>2 DEF FrameOK
    <2>2. ASSUME NEW u \in Threads, NEW k \in Calls(u)' PROVE FrameOK(stack'[u][k], made')
      <3>1. CASE u = t /\ k \in {n, n + 1}
        BY <1>6, <2>1, <3>1
      <3>2. CASE ~(u = t /\ k \in {n, n + 1})
        <4>1. k \in Calls(u) /\ stack'[u][k] = stack[u][k]
          BY <1>8, <2>2, <3>2
        <4>2. FrameOK(stack[u][k], made) /\ made \subseteq made'
          BY <1>4, <4>1 DEF IInv, FramesOK
        <4>3. QED
          BY <4>1, <4>2 DEF FrameOK
      <3>3. QED
        BY <3>1, <3>2
    <2>3. QED
      BY <2>2 DEF FramesOK
  <1>11. OuterCalls'
    <2>1. ASSUME NEW u \in Threads, NEW k \in Calls(u)', k < Len(stack'[u])
          PROVE  /\ stack'[u][k].stage \in {"eval", "script"}
                 /\ stack'[u][k].stage = "eval" => stack'[u][k + 1].kind = "method"
      <3>1. CASE u = t /\ k = n
        BY <1>2, <1>3, <1>6, <3>1
      <3>2. CASE u = t /\ k # n
        <4>1. k \in 1 .. n - 1 /\ k \in 1 .. n /\ k < n /\ k + 1 \in 1 .. n
          <5>1. k \in 1 .. n + 1 /\ k < n + 1
            BY <1>6, <2>1, <3>2 DEF Calls
          <5>2. QED
            BY <1>1, <3>2, <5>1
        <4>2. Calls(t) = 1 .. n
          BY DEF Calls, n
        <4>3. stack[t][k].stage \in {"eval", "script"}
              /\ (stack[t][k].stage = "eval" => stack[t][k + 1].kind = "method")
          BY <4>1, <4>2 DEF IInv, OuterCalls, n
        <4>4. CASE k + 1 = n
          BY <1>1, <1>6, <3>2, <4>1, <4>3, <4>4
        <4>5. CASE k + 1 # n
          <5>1. k + 1 \in 1 .. n - 1
            BY <1>1, <4>1, <4>5
          <5>2. QED
            BY <1>6, <3>2, <4>1, <4>3, <5>1
        <4>6. QED
          BY <4>4, <4>5
      <3>3. CASE u # t
        BY <1>7, <1>8, <2>1, <3>3 DEF IInv, OuterCalls
      <3>4. QED
        BY <3>1, <3>2, <3>3
    <2>2. QED
      BY <2>1 DEF OuterCalls
  <1>12. LockedOnce'
    <2>1. ASSUME NEW u \in Threads, NEW j \in Calls(u)', Holds(stack'[u][j])
          PROVE  j \in Calls(u) /\ Holds(stack[u][j]) /\ stack'[u][j].mutex = stack[u][j].mutex
      <3>1. CASE u = t /\ j = n + 1
        BY <1>3, <1>6, <2>1, <3>1
      <3>2. CASE u = t /\ j = n
        BY <1>1, <1>2, <1>6, <1>8, <3>2
      <3>3. QED
        BY <1>8, <2>1, <3>1, <3>2
    <2>2. ASSUME NEW u \in Threads, NEW j \in Calls(u)', NEW k \in Calls(u)',
                 Holds(stack'[u][j]), Holds(stack'[u][k]), stack'[u][j].mutex = stack'[u][k].mutex
          PROVE  j = k
      BY <2>1, <2>2 DEF IInv, LockedOnce
    <2>3. QED
      BY <2>2 DEF LockedOnce
  <1>13. QED
    BY <1>9, <1>10, <1>11, <1>12 DEF IInv

(* A script hands a function of its context to Go. *)
LEMMA EscapeStep ==
  ASSUME IInv, NEW t \in Threads, Escape(t)
  PROVE  IInv'
  <1>1. UNCHANGED <<holder, stack, known, made>> /\ escaped' = escaped \cup {Top(t).mutex}
    BY DEF Escape
  <1>2. Top(t).mutex \in made
    <2>1. stack[t] # <<>> /\ Top(t).kind \in {"method", "closure"}
      BY DEF Escape, At
    <2>2. FrameOK(Top(t), made)
      BY <2>1, CallFacts DEF IInv, FramesOK, Top
    <2>3. QED
      BY <2>1, <2>2 DEF FrameOK
  <1>3. \A u \in Threads : Calls(u)' = Calls(u)
    BY <1>1 DEF Calls
  <1>4. TypeOK'
    BY <1>1, <1>2, <1>3 DEF IInv, TypeOK
  <1>5. FramesOK' /\ OuterCalls' /\ LockedOnce'
    BY <1>1, <1>3 DEF IInv, FramesOK, OuterCalls, LockedOnce
  <1>6. QED
    BY <1>4, <1>5 DEF IInv

LEMMA InductiveStep == IInv /\ [Next]_vars => IInv'
  <1> SUFFICES ASSUME IInv, [Next]_vars PROVE IInv'
    OBVIOUS
  <1>1. ASSUME NEW t \in Threads, NEW c \in Ctxs, CallMethod(t, c) PROVE IInv'
    <2> DEFINE f == Frame("method", c, "lock")
    <2>1. f \in Frames /\ ~Holds(f)
      BY DEF Frame, Frames, Holds, Mutexes
    <2>2. c \in made
      BY <1>1 DEF IInv, TypeOK, CallMethod
    <2>3. FrameOK(f, made)
      BY <2>2 DEF Frame, FrameOK
    <2>4. QED
      BY <1>1, <2>1, <2>3, PushStep DEF CallMethod
  <1>2. ASSUME NEW t \in Threads, NEW c \in Ctxs, CallClosure(t, c) PROVE IInv'
    <2> DEFINE f == Frame("closure", c, "script")
    <2>1. f \in Frames /\ ~Holds(f)
      BY DEF Frame, Frames, Holds, Mutexes
    <2>2. c \in made
      BY <1>2 DEF IInv, TypeOK, CallClosure
    <2>3. FrameOK(f, made)
      BY <2>2 DEF Frame, FrameOK
    <2>4. QED
      BY <1>2, <2>1, <2>3, PushStep DEF CallClosure
  <1>3. ASSUME NEW t \in Threads, CallLoad(t) PROVE IInv'
    <2> DEFINE f == Frame("load", Cache, "lock")
    <2>1. f \in Frames /\ ~Holds(f) /\ FrameOK(f, made)
      BY DEF Frame, Frames, Holds, Mutexes, FrameOK
    <2>2. QED
      BY <1>3, <2>1, PushStep DEF CallLoad
  <1>4. ASSUME NEW t \in Threads, Return(t) PROVE IInv'
    <2> SUFFICES /\ stack[t] # <<>> /\ Pop(t)
                 /\ holder' = IF Holds(Top(t)) THEN Unlock(Top(t).mutex) ELSE holder
                 /\ known' \subseteq made /\ made' = made /\ escaped' = escaped
      BY PopStep
    <2>1. stack[t] # <<>>
      BY <1>4 DEF Return, ReturnMethod, ReturnClosure, ReturnCached, ReturnCreated, At
    <2>2. FrameOK(Top(t), made)
      BY <2>1, CallFacts DEF IInv, FramesOK, Top
    <2>3. CASE ReturnMethod(t)
      BY <2>1, <2>3 DEF ReturnMethod, At, Holds, IInv, TypeOK
    <2>4. CASE ReturnClosure(t)
      BY <2>1, <2>4 DEF ReturnClosure, At, Holds, IInv, TypeOK
    <2>5. CASE ReturnCached(t)
      BY <2>1, <2>2, <2>5 DEF ReturnCached, At, Holds, FrameOK, IInv, TypeOK
    <2>6. CASE ReturnCreated(t)
      BY <2>1, <2>2, <2>6 DEF ReturnCreated, At, Holds, FrameOK, IInv, TypeOK
    <2>7. QED
      BY <1>4, <2>3, <2>4, <2>5, <2>6 DEF Return
  <1>5. CASE UNCHANGED vars
    <2>1. \A u \in Threads : Calls(u)' = Calls(u)
      BY <1>5 DEF Calls, vars
    <2>2. QED
      BY <1>5, <2>1 DEF IInv, TypeOK, FramesOK, OuterCalls, LockedOnce, vars
  <1>6. QED
    BY <1>1, <1>2, <1>3, <1>4, <1>5, LockStep, CreateStep, EscapeStep DEF Next

-----------------------------------------------------------------------------
(* A natural number below all the others of a set. *)
LEMMA LeastNat ==
  ASSUME NEW S \in SUBSET Nat, S # {}
  PROVE  \E x \in S : \A y \in S : x <= y
  <1> DEFINE T == {0 .. x : x \in S}
  <1>1. T \subseteq FiniteSubsetsOf(Nat) /\ T # {}
    <2>1. ASSUME NEW x \in S PROVE 0 .. x \in FiniteSubsetsOf(Nat)
      <3>1. IsFiniteSet(0 .. x)
        BY FS_Interval
      <3>2. 0 .. x \in SUBSET Nat
        OBVIOUS
      <3>3. QED
        BY <3>1, <3>2, Zenon DEF FiniteSubsetsOf
    <2>2. QED
      BY <2>1
  <1>2. PICK X \in T : \A Y \in T : ~ (<<Y, X>> \in StrictSubsetOrdering(Nat))
    <2> HIDE DEF T
    <2>1. QED
      BY <1>1, FS_StrictSubsetOrderingWellFounded, WFMin
  <1>3. PICK x \in S : X = 0 .. x
    OBVIOUS
  <1>4. ASSUME NEW y \in S, ~(x <= y) PROVE FALSE
    <2>1. 0 .. y \in SUBSET Nat /\ 0 .. x \in SUBSET Nat /\ 0 .. y \subseteq 0 .. x
      BY <1>4
    <2>2. x \in 0 .. x /\ x \notin 0 .. y
      BY <1>4
    <2>3. <<0 .. y, 0 .. x>> \in StrictSubsetOrdering(Nat)
      BY <2>1, <2>2 DEF StrictSubsetOrdering
    <2>4. 0 .. y \in T
      OBVIOUS
    <2>5. QED
      BY <1>2, <1>3, <2>3, <2>4
  <1>5. QED
    BY <1>4

(* In a deadlock every goroutine waits with its innermost call for a mutex *)
(* that an outer call of another one of them, or of itself, has locked.    *)
LEMMA HolderFacts ==
  ASSUME IInv, NEW S \in SUBSET Threads, Deadlocked(S), NEW t \in S
  PROVE  /\ Len(stack[t]) \in Calls(t) /\ Top(t) = stack[t][Len(stack[t])]
         /\ Top(t).kind # "closure" /\ Top(t).mutex \in Mutexes
         /\ \E u \in S : \E k \in Calls(u) :
              k < Len(stack[u]) /\ stack[u][k].mutex = Top(t).mutex /\ Holds(stack[u][k])
  <1>1. ASSUME NEW v \in S
        PROVE  /\ Len(stack[v]) \in Nat /\ Len(stack[v]) \in Calls(v)
               /\ Top(v) = stack[v][Len(stack[v])] /\ Top(v).stage = "lock"
               /\ FrameOK(Top(v), made) /\ Top(v) \in Frames
    <2>1. stack[v] # <<>> /\ Top(v).stage = "lock"
      BY DEF Deadlocked, Waits
    <2>2. QED
      BY <2>1, CallFacts DEF IInv, FramesOK, Top
  <1>2. Top(t).kind # "closure" /\ Top(t).mutex \in Mutexes
    BY <1>1 DEF FrameOK, Frames
  <1>3. PICK u \in S : holder[Top(t).mutex] = u
    BY DEF Deadlocked
  <1>4. PICK k \in Calls(u) : stack[u][k].mutex = Top(t).mutex /\ Holds(stack[u][k])
    BY <1>2, <1>3 DEF IInv, TypeOK
  <1>5. k # Len(stack[u])
    BY <1>1, <1>4 DEF Holds
  <1>6. k < Len(stack[u])
    BY <1>1, <1>4, <1>5 DEF Calls
  <1>7. QED
    BY <1>1, <1>2, <1>4, <1>6

LEMMA AscendingFromIInv == IInv => AscendingIsSafe
  <1> SUFFICES ASSUME IInv, Ascending, NEW S \in SUBSET Threads, Deadlocked(S) PROVE FALSE
    BY DEF AscendingIsSafe
  <1> DEFINE V == {MaxCtx - Top(t).mutex : t \in S}
  <1>1. \A t \in S : Top(t).mutex \in 0 .. MaxCtx
    <2>1. \A t \in S : Top(t).mutex \in Mutexes
      BY HolderFacts
    <2>2. QED
      BY <2>1, CtxAssumption DEF Mutexes, Ctxs, Cache
  <1>2. V \in SUBSET Nat /\ V # {}
    BY <1>1, CtxAssumption DEF Deadlocked
  <1>3. PICK x \in V : \A y \in V : x <= y
    <2> HIDE DEF V
    <2>1. QED
      BY <1>2, LeastNat
  <1>4. PICK t \in S : x = MaxCtx - Top(t).mutex
    BY <1>3
  <1>5. ASSUME NEW u \in S PROVE ~(Top(t).mutex < Top(u).mutex)
    <2>1. MaxCtx - Top(t).mutex <= MaxCtx - Top(u).mutex
      BY <1>3, <1>4
    <2>2. QED
      BY <1>1, <2>1, CtxAssumption
  <1> DEFINE Locked(u, k) ==
        k < Len(stack[u]) /\ stack[u][k].mutex = Top(t).mutex /\ Holds(stack[u][k])
  <1>6. PICK u \in S : \E k \in Calls(u) : Locked(u, k)
    BY HolderFacts
  <1>7. PICK k \in Calls(u) : Locked(u, k)
    BY <1>6
  <1>8. Top(t).mutex < Top(u).mutex
    <2>1. Len(stack[u]) \in Calls(u) /\ Top(u) = stack[u][Len(stack[u])] /\ Top(u).kind # "closure"
      BY HolderFacts
    <2>2. stack[u][k].kind # "closure"
      BY <1>7 DEF Holds
    <2>3. QED
      BY <1>7, <2>1, <2>2 DEF Ascending
  <1>9. QED
    BY <1>5, <1>8

LEMMA CallbackFromIInv == IInv => DeadlockNeedsCallback
  <1> SUFFICES ASSUME IInv, NEW S \in SUBSET Threads, Deadlocked(S),
                      \A t \in S : \A k \in Calls(t) :
                        k < Len(stack[t]) => stack[t][k].stage # "script"
               PROVE  FALSE
    BY DEF DeadlockNeedsCallback
  <1>1. ASSUME NEW t \in S, NEW k \in Calls(t), k < Len(stack[t])
        PROVE  stack[t][k].mutex = Cache /\ stack[t][k + 1].kind = "method"
    <2>1. stack[t][k].stage = "eval" /\ stack[t][k + 1].kind = "method"
      BY <1>1 DEF IInv, OuterCalls
    <2>2. FrameOK(stack[t][k], made) /\ stack[t][k] \in Frames
      BY CallFacts DEF IInv, FramesOK
    <2>3. QED
      BY <2>1, <2>2 DEF FrameOK, Frames
  <1>2. \A t \in S : Top(t).mutex = Cache
    BY <1>1, HolderFacts
  <1>3. PICK t \in S : \E k \in Calls(t) : k < Len(stack[t])
    BY HolderFacts DEF Deadlocked
  <1>4. PICK k \in Calls(t) : k < Len(stack[t])
    BY <1>3
  <1>5. Len(stack[t]) \in Nat /\ k + 1 \in Calls(t) /\ FrameOK(stack[t][k + 1], made)
    <2>1. Len(stack[t]) \in Nat
      BY CallFacts DEF IInv
    <2>2. k + 1 \in Calls(t)
      BY <1>4, <2>1 DEF Calls
    <2>3. QED
      BY <2>1, <2>2 DEF IInv, FramesOK
  <1>6. stack[t][k + 1].kind = "method"
    BY <1>1, <1>4
  <1>7. k + 1 = Len(stack[t])
    <2>1. k + 1 < Len(stack[t]) => stack[t][k + 1].stage = "eval"
      BY <1>5 DEF IInv, OuterCalls
    <2>2. ~(k + 1 < Len(stack[t]))
      BY <1>5, <1>6, <2>1 DEF FrameOK
    <2>3. QED
      BY <1>4, <1>5, <2>2 DEF Calls
  <1>8. Top(t).mutex \in made /\ made \subseteq Ctxs
    BY <1>5, <1>6, <1>7 DEF FrameOK, Top, IInv, TypeOK
  <1>9. QED
    BY <1>2, <1>8, CtxAssumption DEF Ctxs, Cache

LEMMA ExclusiveFromIInv == IInv => EngineExclusive
  <1> SUFFICES ASSUME IInv,
                      NEW t \in Threads, NEW u \in Threads, NEW j \in Calls(t), NEW k \in Calls(u),
                      stack[t][j].mutex = stack[u][k].mutex,
                      stack[t][j].stage = "script", stack[u][k].stage = "script",
                      stack[t][j].kind # "closure", stack[u][k].kind # "closure"
               PROVE  t = u
    BY DEF EngineExclusive
  <1>1. Holds(stack[t][j]) /\ Holds(stack[u][k]) /\ stack[t][j].mutex \in Mutexes
    BY CallFacts DEF Holds, IInv, Frames
  <1>2. holder[stack[t][j].mutex] = t /\ holder[stack[u][k].mutex] = u
    BY <1>1 DEF IInv, TypeOK
  <1>3. QED
    BY <1>2

-----------------------------------------------------------------------------
(* In every state the stacks are well formed, and holder is what the calls *)
(* that have locked and not yet unlocked say (mu.Lock and the deferred     *)
(* mu.Unlock of context.go, js-func.go and helper.go).                     *)
THEOREM Invariant == Spec => []IInv
  BY InitIInv, InductiveStep, PTL DEF Spec

THEOREM TypeCorrect == Spec => []TypeOK
  <1>1. IInv => TypeOK
    BY DEF IInv
  <1>2. QED
    BY <1>1, Invariant, PTL

(* ctx.mu keeps all but the closures of fromJsFunc out of an engine that   *)
(* another goroutine runs.                                                 *)
THEOREM MethodsExclude == Spec => []EngineExclusive
  BY Invariant, ExclusiveFromIInv, PTL

(* Programs that lock in ascending order do not deadlock, with any number  *)
(* of goroutines and contexts.                                             *)
THEOREM OrderIsSafe == Spec => []AscendingIsSafe
  BY Invariant, AscendingFromIInv, PTL

(* LoadFileFromCache's own nesting of two mutexes cannot deadlock: that    *)
(* takes a script that calls Go code that calls the package.               *)
THEOREM NestingIsSafe == Spec => []DeadlockNeedsCallback
  BY Invariant, CallbackFromIInv, PTL
=============================================================================
