---------------------------- MODULE CallsProofs ----------------------------
(***************************************************************************)
(* Proofs about Calls, for every set of threads and all limits.  First the *)
(* C stack: what it accounts for while code runs, and which errors can get *)
(* past all protected calls; nothing of the threads is needed for it, as a *)
(* frame restores what it has saved, in whichever way it is left.  Then    *)
(* the threads: where the activations of coroutines may stand, who may be  *)
(* in control of which part of the C stack, and what follows from it.      *)
(***************************************************************************)
EXTENDS Calls, SequenceTheorems, FiniteSetTheorems, TLAPS

\* The C stack is a sequence; of what matters only below.
IsStack == \E S : cstack \in Seq(S)

\* j is the innermost of the first n frames of s that catches, or 0 if none does.
Innermost(s, j, n) ==
  /\ j = 0 \/ (j \in 1 .. n /\ s[j].kind \in Jmpbufs)
  /\ \A i \in 1 .. n : i > j => s[i].kind \notin Jmpbufs

\* What the frames have saved.
FramesOK ==
  \A i \in 1 .. Len(cstack) :
    cstack[i].depth = i - 1 /\ Innermost(cstack, cstack[i].jmpbuf, i - 1)

\* Go or a Go function has been entered inside of every protected call.
Unprotected ==
  \A j \in DOMAIN cstack :
    cstack[j].kind \in Protected => \E i \in GoEntries : i > j

IsFin(i) == cstack[i].kind = "finalizer"
Fin == IF \E i \in 1 .. Len(cstack) : IsFin(i) THEN 1 ELSE 0
FinOnce == \A i, j \in 1 .. Len(cstack) : IsFin(i) /\ IsFin(j) => i = j

Top == cstack[Len(cstack)]

\* What the C code is at, and what it relies on there.
RunOK == Innermost(cstack, jmpbuf_ptr, Len(cstack)) /\ pf = Fin /\ depth = Len(cstack)
EnterOK ==
  /\ Len(cstack) > 0 /\ Top.kind \in Protected
  /\ jmpbuf_ptr = Len(cstack) /\ pf = Fin /\ depth = Len(cstack) - 1
LandedOK ==
  /\ Len(cstack) > 0 /\ Top.kind \in Jmpbufs
  /\ jmpbuf_ptr = Len(cstack) /\ pf = Fin + 1
HandleOK ==
  /\ Len(cstack) > 0 /\ Top.kind = "ecma"
  /\ jmpbuf_ptr = Top.jmpbuf /\ pf = Fin + 1 /\ depth = Len(cstack)

ModeOK ==
  \/ mode = "run" /\ RunOK
  \/ mode = "enter" /\ EnterOK
  \/ mode = "landed" /\ LandedOK
  \/ mode = "handle" /\ HandleOK
  \/ mode \in {"fatal", "undefined"} /\ Unprotected

IInv == IsStack /\ FramesOK /\ FinOnce /\ ModeOK

-----------------------------------------------------------------------------
(* The C stack: pushing a frame, and cutting the stack off. *)

LEMMA StackLen ==
  ASSUME IsStack
  PROVE  /\ Len(cstack) \in Nat
         /\ DOMAIN cstack = 1 .. Len(cstack)
         /\ cstack = <<>> <=> Len(cstack) = 0
BY DEF IsStack

LEMMA Push ==
  ASSUME IsStack, NEW f, cstack' = Append(cstack, f)
  PROVE  /\ IsStack'
         /\ Len(cstack') = Len(cstack) + 1
         /\ cstack'[Len(cstack) + 1] = f
         /\ \A i \in 1 .. Len(cstack) : cstack'[i] = cstack[i]
<1>1. PICK S : cstack \in Seq(S)
  BY DEF IsStack
<1> DEFINE T == S \cup {f}
<1>2. cstack \in Seq(T) /\ f \in T
  <2>1. \A i \in 1 .. Len(cstack) : cstack[i] \in T
    BY <1>1
  <2> QED
    BY <1>1, <2>1, IsASeq
<1>3. Append(cstack, f) \in Seq(T)
  BY <1>2, AppendProperties
<1> QED
  BY <1>1, <1>2, <1>3, AppendProperties DEF IsStack

LEMMA Cut ==
  ASSUME IsStack, NEW n \in 0 .. Len(cstack), cstack' = SubSeq(cstack, 1, n)
  PROVE  /\ IsStack'
         /\ Len(cstack') = n
         /\ \A i \in 1 .. n : cstack'[i] = cstack[i]
<1>1. PICK S : cstack \in Seq(S)
  BY DEF IsStack
<1>2. n \in Nat /\ Len(cstack) \in Nat /\ \A i \in 1 .. n : cstack[i] \in S
  BY <1>1
<1>3. cstack' \in Seq(S) /\ Len(cstack') = IF 1 <= n THEN n - 1 + 1 ELSE 0
  BY <1>1, <1>2, SubSeqProperties
<1>4. \A i \in 1 .. n : SubSeq(cstack, 1, n)[i] = cstack[i]
  BY <1>1, <1>2
<1>5. Len(cstack') = n
  BY <1>2, <1>3
<1>6. IsStack'
  BY <1>3 DEF IsStack
<1> QED
  BY <1>4, <1>5, <1>6

-----------------------------------------------------------------------------
(* Frames of a prefix of the C stack keep what they have saved. *)

LEMMA PrefixFrames ==
  ASSUME IsStack, FramesOK, FinOnce, IsStack', NEW n \in 0 .. Len(cstack),
         Len(cstack') = n, \A i \in 1 .. n : cstack'[i] = cstack[i]
  PROVE  /\ FramesOK' /\ FinOnce'
         /\ Fin' = IF \E i \in 1 .. n : IsFin(i) THEN 1 ELSE 0
         /\ \A j \in 0 .. n : Innermost(cstack, j, n) => Innermost(cstack', j, n)
<1>1. Len(cstack) \in Nat /\ n \in Nat
  BY StackLen
<1>2. ASSUME NEW j, NEW m \in 0 .. n, Innermost(cstack, j, m)
      PROVE  Innermost(cstack', j, m)
  <2>1. \A i \in 1 .. m : cstack'[i] = cstack[i]
    BY <1>1
  <2> QED
    BY <1>1, <1>2, <2>1 DEF Innermost
<1>3. ASSUME NEW i \in 1 .. n
      PROVE  cstack'[i].depth = i - 1 /\ Innermost(cstack', cstack'[i].jmpbuf, i - 1)
  <2> DEFINE j == cstack[i].jmpbuf
  <2>1. i \in 1 .. Len(cstack) /\ i - 1 \in 0 .. n
    BY <1>1
  <2>2. cstack[i].depth = i - 1 /\ Innermost(cstack, j, i - 1)
    BY <2>1 DEF FramesOK
  <2>3. j \in 0 .. n
    BY <2>1, <2>2, <1>1 DEF Innermost
  <2>4. Innermost(cstack', j, i - 1)
    BY <2>1, <2>2, <2>3, <1>2
  <2> QED
    BY <2>2, <2>4
<1>4. FramesOK'
  BY <1>3 DEF FramesOK
<1>5. FinOnce' /\ Fin' = IF \E i \in 1 .. n : IsFin(i) THEN 1 ELSE 0
  BY <1>1 DEF FinOnce, Fin, IsFin
<1> QED
  BY <1>2, <1>4, <1>5

\* An error jumps to the innermost frame that catches, over frames that do
\* not; n is the number of frames the jump is made from.
LEMMA LongjmpHolds ==
  ASSUME IInv, NEW n \in 0 .. Len(cstack), Innermost(cstack, jmpbuf_ptr, n),
         \A i \in n + 1 .. Len(cstack) : cstack[i].kind \notin Protected,
         NEW l, NEW p, p = Fin, Longjmp(l, p), UNCHANGED jmpbuf_ptr
  PROVE  IInv'
<1>1. IsStack /\ FramesOK /\ FinOnce /\ Len(cstack) \in Nat /\ DOMAIN cstack = 1 .. Len(cstack)
  BY StackLen DEF IInv
<1>2. jmpbuf_ptr \in 0 .. n
  BY <1>1 DEF Innermost
<1>3. \A i \in 1 .. Len(cstack) : i > jmpbuf_ptr => cstack[i].kind \notin Protected
  BY <1>1, <1>2 DEF Innermost, Jmpbufs
<1>4. CASE mode' \in {"fatal", "undefined"} /\ UNCHANGED cstack
  <2>1. jmpbuf_ptr = 0 \/ \E k \in jmpbuf_ptr + 1 .. Len(cstack) : cstack[k].kind = "go"
    BY <1>4 DEF Longjmp, LongjmpFrom
  <2>2. ASSUME NEW i \in 1 .. Len(cstack), cstack[i].kind \in Protected
        PROVE  \E k \in GoEntries : k > i
    <3>1. i <= jmpbuf_ptr /\ jmpbuf_ptr # 0
      BY <1>1, <1>2, <1>3, <2>2
    <3>2. PICK k \in jmpbuf_ptr + 1 .. Len(cstack) : cstack[k].kind = "go"
      BY <2>1, <3>1
    <3>3. k \in GoEntries /\ k > i
      BY <1>1, <1>2, <3>1, <3>2 DEF GoEntries
    <3> QED
      BY <3>3
  <2>3. Unprotected
    BY <1>1, <2>2 DEF Unprotected
  <2>4. IsStack' /\ FramesOK' /\ FinOnce' /\ Unprotected'
    BY <1>1, <1>4, <2>3 DEF IsStack, FramesOK, Innermost, FinOnce, IsFin, Unprotected, GoEntries
  <2> QED
    BY <1>4, <2>4 DEF IInv, ModeOK
<1>5. CASE /\ jmpbuf_ptr # 0 /\ mode' = "landed"
           /\ cstack' = SubSeq(cstack, 1, jmpbuf_ptr)
  <2> DEFINE j == jmpbuf_ptr
  <2>1. j \in 1 .. Len(cstack) /\ cstack[j].kind \in Jmpbufs
    BY <1>1, <1>2, <1>5 DEF Innermost
  <2>2. IsStack' /\ Len(cstack') = j /\ \A i \in 1 .. j : cstack'[i] = cstack[i]
    BY <1>1, <1>5, <2>1, Cut
  <2>3. FramesOK' /\ FinOnce' /\ Fin' = IF \E i \in 1 .. j : IsFin(i) THEN 1 ELSE 0
    BY <1>1, <2>1, <2>2, PrefixFrames
  <2>4. \A i \in 1 .. Len(cstack) : IsFin(i) => i \in 1 .. j
    BY <1>1, <1>2, <1>3 DEF IsFin, Protected
  <2>5. Fin' = Fin
    BY <2>1, <2>3, <2>4, <1>1 DEF Fin
  <2>6. LandedOK'
    BY <1>5, <2>1, <2>2, <2>5 DEF LandedOK, Top, Longjmp, LongjmpFrom
  <2> QED
    BY <1>5, <2>2, <2>3, <2>6 DEF IInv, ModeOK
<1> QED
  BY <1>4, <1>5 DEF Longjmp, LongjmpFrom

\* The same from running code, from an entry that is refused, and from an
\* executor that does not catch.
LEMMA ErrorHolds ==
  ASSUME IInv, NEW l, NEW p, Longjmp(l, p), UNCHANGED jmpbuf_ptr,
         \/ mode \in {"run", "enter"} /\ p = pf
         \/ mode = "handle" /\ p = pf - 1
  PROVE  IInv'
<1>1. IsStack /\ FramesOK /\ Len(cstack) \in Nat /\ Fin \in Nat
  BY StackLen DEF IInv, Fin
<1>2. CASE mode \in {"run", "enter"} /\ p = pf
  <2>1. Innermost(cstack, jmpbuf_ptr, Len(cstack)) /\ pf = Fin
    BY <1>1, <1>2 DEF IInv, ModeOK, RunOK, EnterOK, Innermost, Jmpbufs, Top
  <2> QED
    BY <1>1, <1>2, <2>1, LongjmpHolds
<1>3. CASE mode = "handle" /\ p = pf - 1
  <2>1. HandleOK
    BY <1>3 DEF IInv, ModeOK
  <2>2. Len(cstack) - 1 \in 0 .. Len(cstack) /\ Innermost(cstack, jmpbuf_ptr, Len(cstack) - 1)
    BY <1>1, <2>1 DEF FramesOK, HandleOK, Top
  <2>3. \A i \in Len(cstack) - 1 + 1 .. Len(cstack) : cstack[i].kind \notin Protected
    BY <1>1, <2>1 DEF HandleOK, Top, Protected
  <2>4. p = Fin
    BY <1>1, <1>3, <2>1 DEF HandleOK
  <2> QED
    BY <2>2, <2>3, <2>4, LongjmpHolds
<1> QED
  BY <1>2, <1>3

\* What holds of the frame in control.
LEMMA InControl ==
  ASSUME IInv, mode \in {"run", "landed", "handle"}, cstack # <<>>
  PROVE  /\ IsStack /\ FramesOK /\ Len(cstack) \in Nat \ {0}
         /\ Frame = Top /\ Fin \in {0, 1}
         /\ Frame.depth = Len(cstack) - 1
         /\ Innermost(cstack, Frame.jmpbuf, Len(cstack) - 1)
         /\ IsFin(Len(cstack)) <=> Frame.kind = "finalizer"
         /\ mode = "run" => RunOK
         /\ mode = "landed" => LandedOK
         /\ mode = "handle" => HandleOK
<1>1. IsStack /\ FramesOK /\ Len(cstack) \in Nat \ {0} /\ Frame = Top
  BY StackLen DEF IInv, Frame, Top, Last
<1>2. Frame.depth = Len(cstack) - 1 /\ Innermost(cstack, Frame.jmpbuf, Len(cstack) - 1)
  BY <1>1 DEF FramesOK, Top
<1> QED
  BY <1>1, <1>2 DEF IInv, ModeOK, IsFin, Top, Fin

\* A Go function that fails has left its C frame, the last one.
LEMMA FailedFrom ==
  ASSUME IInv, GoFails, NEW n, n = Len(cstack) - 1
  PROVE  /\ n \in Nat /\ Len(cstack) = n + 1
         /\ IsStack /\ FramesOK /\ FinOnce /\ Top = cstack[n + 1] /\ Top.kind = "go"
         /\ Innermost(cstack, jmpbuf_ptr, n) /\ jmpbuf_ptr \in 0 .. n
         /\ Len(Front(cstack)) = n /\ \A i \in 1 .. n : Front(cstack)[i] = cstack[i]
         /\ \A j \in 0 .. n : SubSeq(Front(cstack), 1, j) = SubSeq(cstack, 1, j)
         /\ LongjmpFrom(Front(cstack), Error, pf) /\ UNCHANGED jmpbuf_ptr
         /\ mode = "run" /\ pf = Fin /\ depth = n + 1
<1>1. /\ mode = "run" /\ cstack # <<>> /\ Frame.kind = "go"
      /\ LongjmpFrom(Front(cstack), Error, pf) /\ UNCHANGED jmpbuf_ptr
  BY DEF GoFails, In
<1>2. /\ IsStack /\ FramesOK /\ Len(cstack) \in Nat \ {0} /\ Frame = Top /\ RunOK
      /\ FinOnce
  BY <1>1, InControl DEF IInv
<1>3. n \in Nat /\ Len(cstack) = n + 1
  BY <1>2
<1>4. Len(cstack) = n + 1 /\ Top = cstack[n + 1] /\ Top.kind = "go"
  BY <1>1, <1>2, <1>3 DEF Top
<1>5. Innermost(cstack, jmpbuf_ptr, n + 1)
  BY <1>2, <1>4 DEF RunOK
<1>6. jmpbuf_ptr # n + 1
  <2>1. jmpbuf_ptr = 0 \/ cstack[jmpbuf_ptr].kind \in Jmpbufs
    BY <1>5 DEF Innermost
  <2>2. cstack[n + 1].kind \notin Jmpbufs
    BY <1>4 DEF Jmpbufs, Protected
  <2> QED
    BY <1>3, <2>1, <2>2
<1>7. Innermost(cstack, jmpbuf_ptr, n) /\ jmpbuf_ptr \in 0 .. n
  BY <1>5, <1>6 DEF Innermost
<1>8. PICK S : cstack \in Seq(S)
  BY <1>2 DEF IsStack
<1>9. Front(cstack) = SubSeq(cstack, 1, n)
  BY <1>3, <1>4 DEF Front
<1>10. Len(Front(cstack)) = n /\ \A i \in 1 .. n : Front(cstack)[i] = cstack[i]
  <2>1. \A i \in 1 .. n : cstack[i] \in S
    BY <1>3, <1>8
  <2>2. /\ Len(SubSeq(cstack, 1, n)) = IF 1 <= n THEN n - 1 + 1 ELSE 0
        /\ \A i \in 1 .. n - 1 + 1 : SubSeq(cstack, 1, n)[i] = cstack[1 + i - 1]
    BY <1>3, <2>1, SubSeqProperties
  <2> QED
    BY <1>3, <1>9, <2>2
<1>11. ASSUME NEW j \in 0 .. n
       PROVE  SubSeq(Front(cstack), 1, j) = SubSeq(cstack, 1, j)
  <2>1. Front(cstack) \in Seq(S)
    <3>1. \A i \in 1 .. n : cstack[i] \in S
      BY <1>4, <1>8
    <3> QED
      BY <1>4, <1>8, <1>9, <3>1, SubSeqProperties
  <2> DEFINE A == SubSeq(Front(cstack), 1, j)
             B == SubSeq(cstack, 1, j)
  <2>2. A \in Seq(S) /\ B \in Seq(S) /\ Len(A) = j /\ Len(B) = j
    <3>1. j \in Nat /\ \A i \in 1 .. j : Front(cstack)[i] \in S /\ cstack[i] \in S
      BY <1>3, <1>8, <1>10
    <3>2. A \in Seq(S) /\ Len(A) = IF 1 <= j THEN j - 1 + 1 ELSE 0
      BY <3>1, SubSeqProperties
    <3>3. B \in Seq(S) /\ Len(B) = IF 1 <= j THEN j - 1 + 1 ELSE 0
      BY <3>1, SubSeqProperties
    <3> QED
      BY <3>1, <3>2, <3>3
  <2>3. ASSUME NEW i \in 1 .. j PROVE A[i] = B[i]
    <3>1. i \in 1 .. n
      OBVIOUS
    <3>2. A[i] = Front(cstack)[i] /\ B[i] = cstack[i]
      BY <1>4, <1>8, <1>10, <2>1, <3>1
    <3> QED
      BY <1>10, <3>1, <3>2
  <2> HIDE DEF A, B
  <2>4. A = B
    BY <2>2, <2>3, SeqEqual
  <2> QED
    BY <2>4 DEF A, B
<1>12. pf = Fin /\ depth = n + 1
  BY <1>2, <1>4 DEF RunOK
<1> QED
  BY <1>1, <1>2, <1>3, <1>4, <1>7, <1>10, <1>11, <1>12

LEMMA GoFailsHolds ==
  ASSUME IInv, GoFails
  PROVE  IInv'
<1> DEFINE n == Len(cstack) - 1
<1>1. /\ n \in Nat /\ Len(cstack) = n + 1
      /\ IsStack /\ FramesOK /\ FinOnce /\ Top = cstack[n + 1] /\ Top.kind = "go"
      /\ Innermost(cstack, jmpbuf_ptr, n) /\ jmpbuf_ptr \in 0 .. n
      /\ Len(Front(cstack)) = n /\ \A i \in 1 .. n : Front(cstack)[i] = cstack[i]
      /\ \A j \in 0 .. n : SubSeq(Front(cstack), 1, j) = SubSeq(cstack, 1, j)
      /\ LongjmpFrom(Front(cstack), Error, pf) /\ UNCHANGED jmpbuf_ptr
      /\ mode = "run" /\ pf = Fin /\ depth = n + 1
  BY FailedFrom
<1> HIDE DEF n
<1>2. \A i \in 1 .. n + 1 : i > jmpbuf_ptr => cstack[i].kind \notin Protected
  <2>1. cstack[n + 1].kind \notin Protected
    BY <1>1 DEF Protected
  <2> QED
    BY <1>1, <2>1 DEF Innermost, Jmpbufs
<1>3. ASSUME NEW k \in 0 .. n, k >= jmpbuf_ptr, cstack' = SubSeq(cstack, 1, k)
      PROVE  /\ IsStack' /\ Len(cstack') = k /\ \A i \in 1 .. k : cstack'[i] = cstack[i]
             /\ FramesOK' /\ FinOnce' /\ Fin' = Fin
  <2>1. k \in 0 .. Len(cstack)
    BY <1>1
  <2>2. IsStack' /\ Len(cstack') = k /\ \A i \in 1 .. k : cstack'[i] = cstack[i]
    BY <1>1, <1>3, <2>1, Cut
  <2>3. FramesOK' /\ FinOnce' /\ Fin' = IF \E i \in 1 .. k : IsFin(i) THEN 1 ELSE 0
    BY <1>1, <2>1, <2>2, PrefixFrames
  <2>4. \A i \in 1 .. Len(cstack) : IsFin(i) => i \in 1 .. k
    BY <1>1, <1>2, <1>3 DEF IsFin, Protected
  <2>5. Fin' = Fin
    BY <2>1, <2>3, <2>4, <1>1 DEF Fin
  <2> QED
    BY <2>2, <2>3, <2>5
<1>4. CASE mode' \in {"fatal", "undefined"} /\ cstack' = Front(cstack)
  <2>1. jmpbuf_ptr = 0 \/ \E k \in jmpbuf_ptr + 1 .. n : cstack[k].kind = "go"
    BY <1>1, <1>4 DEF LongjmpFrom
  <2>2. cstack' = SubSeq(cstack, 1, n) /\ n \in 0 .. n /\ n >= jmpbuf_ptr
    BY <1>1, <1>4 DEF Front
  <2>3. /\ IsStack' /\ Len(cstack') = n /\ \A i \in 1 .. n : cstack'[i] = cstack[i]
        /\ FramesOK' /\ FinOnce'
    BY <1>3, <2>2
  <2>4. DOMAIN cstack' = 1 .. n
    BY <2>3 DEF IsStack
  <2>5. ASSUME NEW i \in 1 .. n, cstack'[i].kind \in Protected
        PROVE  \E k \in GoEntries' : k > i
    <3>1. cstack[i].kind \in Protected /\ i \in 1 .. n + 1
      BY <2>3, <2>5
    <3>2. i <= jmpbuf_ptr /\ jmpbuf_ptr # 0
      BY <1>1, <1>2, <3>1
    <3>3. PICK k \in jmpbuf_ptr + 1 .. n : cstack[k].kind = "go"
      BY <2>1, <3>2
    <3>4. k \in 1 .. n /\ k > i /\ cstack'[k].kind = "go"
      BY <1>1, <2>3, <3>2, <3>3
    <3> QED
      BY <2>4, <3>4 DEF GoEntries
  <2>6. Unprotected'
    BY <2>4, <2>5 DEF Unprotected
  <2> QED
    BY <1>4, <2>3, <2>6 DEF IInv, ModeOK
<1>5. CASE /\ jmpbuf_ptr # 0 /\ mode' = "landed"
           /\ cstack' = SubSeq(Front(cstack), 1, jmpbuf_ptr)
  <2> DEFINE j == jmpbuf_ptr
  <2>1. cstack' = SubSeq(cstack, 1, j) /\ j \in 1 .. n /\ cstack[j].kind \in Jmpbufs
    BY <1>1, <1>5 DEF Innermost
  <2>2. /\ IsStack' /\ Len(cstack') = j /\ \A i \in 1 .. j : cstack'[i] = cstack[i]
        /\ FramesOK' /\ FinOnce' /\ Fin' = Fin
    BY <1>1, <1>3, <2>1
  <2>3. pf' = Fin + 1
    BY <1>1 DEF LongjmpFrom
  <2>4. LandedOK'
    BY <1>1, <2>1, <2>2, <2>3 DEF LandedOK, Top
  <2> QED
    BY <1>5, <2>2, <2>4 DEF IInv, ModeOK
<1> QED
  BY <1>1, <1>4, <1>5 DEF LongjmpFrom

\* A frame is left, and what it saved restored.
LEMMA LeaveHolds ==
  ASSUME IInv, Len(cstack) > 0, cstack' = Front(cstack), mode' = "run",
         depth' = Top.depth, Innermost(cstack, jmpbuf_ptr', Len(cstack) - 1),
         pf' = IF IsFin(Len(cstack)) THEN 0 ELSE Fin
  PROVE  IInv'
<1> DEFINE n == Len(cstack) - 1
<1>1. IsStack /\ FramesOK /\ FinOnce /\ Len(cstack) \in Nat /\ n \in 0 .. Len(cstack)
  BY StackLen DEF IInv
<1>2. IsStack' /\ Len(cstack') = n /\ \A i \in 1 .. n : cstack'[i] = cstack[i]
  BY <1>1, Cut DEF Front
<1>3. /\ FramesOK' /\ FinOnce'
      /\ Fin' = IF \E i \in 1 .. n : IsFin(i) THEN 1 ELSE 0
      /\ \A j \in 0 .. n : Innermost(cstack, j, n) => Innermost(cstack', j, n)
  <2> HIDE DEF n
  <2> QED
    BY <1>1, <1>2, PrefixFrames
<1>4. pf' = Fin'
  <2>1. CASE IsFin(Len(cstack))
    BY <1>1, <1>3, <2>1 DEF FinOnce
  <2>2. CASE ~IsFin(Len(cstack))
    BY <1>1, <1>3, <2>2 DEF Fin
  <2> QED
    BY <2>1, <2>2
<1>5. jmpbuf_ptr' \in 0 .. n /\ Innermost(cstack, jmpbuf_ptr', n)
  BY <1>1 DEF Innermost
<1>6. depth' = n
  BY <1>1 DEF FramesOK, Top
<1>7. RunOK'
  BY <1>2, <1>3, <1>4, <1>5, <1>6 DEF RunOK
<1> QED
  BY <1>2, <1>3, <1>7 DEF IInv, ModeOK

\* A frame is entered.
LEMMA EnterFrame ==
  ASSUME IInv, mode = "run", NEW f, cstack' = Append(cstack, f),
         f.depth = depth, f.jmpbuf = jmpbuf_ptr,
         f.kind = "finalizer" => pf = 0
  PROVE  /\ IsStack' /\ FramesOK' /\ FinOnce'
         /\ Len(cstack') = Len(cstack) + 1 /\ Top' = f
         /\ depth = Len(cstack)
         /\ Fin' = IF f.kind = "finalizer" THEN 1 ELSE pf
         /\ Innermost(cstack', jmpbuf_ptr, Len(cstack))
<1> DEFINE n == Len(cstack)
<1>1. IsStack /\ FramesOK /\ FinOnce /\ n \in Nat /\ RunOK
  BY StackLen DEF IInv, ModeOK
<1>2. IsStack' /\ Len(cstack') = n + 1 /\ cstack'[n + 1] = f
      /\ \A i \in 1 .. n : cstack'[i] = cstack[i]
  BY <1>1, Push
<1>3. /\ f.depth = n /\ Innermost(cstack, jmpbuf_ptr, n) /\ pf = Fin
  BY <1>1 DEF RunOK
<1>4. ASSUME NEW j, NEW m \in 0 .. n, Innermost(cstack, j, m)
      PROVE  Innermost(cstack', j, m)
  <2>1. \A i \in 1 .. m : cstack'[i] = cstack[i]
    BY <1>1, <1>2
  <2> QED
    BY <1>4, <2>1 DEF Innermost
<1>5. ASSUME NEW i \in 1 .. n + 1
      PROVE  cstack'[i].depth = i - 1 /\ Innermost(cstack', cstack'[i].jmpbuf, i - 1)
  <2>1. CASE i = n + 1
    BY <1>1, <1>2, <1>3, <1>4, <2>1
  <2>2. CASE i \in 1 .. n
    <3>1. cstack[i].depth = i - 1 /\ Innermost(cstack, cstack[i].jmpbuf, i - 1) /\ i - 1 \in 0 .. n
      BY <1>1, <2>2 DEF FramesOK
    <3> QED
      BY <1>2, <1>4, <2>2, <3>1
  <2> QED
    BY <1>1, <2>1, <2>2
<1>6. FramesOK'
  BY <1>2, <1>5 DEF FramesOK
<1>7. FinOnce' /\ Fin' = IF f.kind = "finalizer" THEN 1 ELSE pf
  BY <1>1, <1>2, <1>3 DEF FinOnce, Fin, IsFin
<1>8. Innermost(cstack', jmpbuf_ptr, n)
  BY <1>1, <1>3, <1>4
<1> QED
  BY <1>1, <1>2, <1>6, <1>7, <1>8 DEF Top, RunOK

-----------------------------------------------------------------------------
(* One lemma per kind of step. *)

\* Steps of threads alone.
LEMMA ThreadsOnly ==
  ASSUME IInv, UNCHANGED <<cstack, depth, pf, jmpbuf_ptr, mode>>
  PROVE  IInv'
BY DEF IInv, IsStack, FramesOK, Innermost, FinOnce, IsFin, ModeOK, RunOK, EnterOK, LandedOK,
       HandleOK, Unprotected, GoEntries, Fin, Top

\* A native function returns: its frame does not catch.
LEMMA NativeReturnHolds ==
  ASSUME IInv, NativeReturn
  PROVE  IInv'
<1>1. /\ mode = "run" /\ cstack # <<>> /\ Frame.kind \in {"native", "go"}
      /\ mode' = "run" /\ UNCHANGED <<pf, jmpbuf_ptr>>
      /\ depth' = Frame.depth /\ cstack' = Front(cstack)
  BY DEF NativeReturn, In, Restore, jump
<1>2. Len(cstack) \in Nat \ {0} /\ Frame = Top /\ RunOK /\ ~IsFin(Len(cstack))
  BY <1>1, InControl
<1>3. Innermost(cstack, jmpbuf_ptr, Len(cstack) - 1)
  BY <1>1, <1>2 DEF RunOK, Innermost, Top, Jmpbufs, Protected
<1>4. pf' = Fin
  BY <1>1, <1>2 DEF RunOK
<1> QED
  BY <1>1, <1>2, <1>3, <1>4, LeaveHolds

\* An executor or a protected call returns, or a protected call ends with the
\* error it has caught.
LEMMA JmpbufReturnHolds ==
  ASSUME IInv, ReturnFromExecutor \/ SafeReturn \/ SafeError
  PROVE  IInv'
<1>1. /\ cstack # <<>> /\ Frame.kind \in Jmpbufs
      /\ mode' = "run" /\ jmpbuf_ptr' = Frame.jmpbuf
      /\ depth' = Frame.depth /\ cstack' = Front(cstack)
      /\ \/ mode = "run" /\ pf' = IF Frame.kind = "finalizer" THEN 0 ELSE pf
         \/ mode = "landed" /\ pf' = IF Frame.kind = "finalizer" THEN 0 ELSE pf - 1
  <2>1. CASE ReturnFromExecutor
    BY <2>1 DEF ReturnFromExecutor, In, Restore, Jmpbufs
  <2>2. CASE SafeReturn
    BY <2>2 DEF SafeReturn, In, Restore, Jmpbufs
  <2>3. CASE SafeError
    <3>1. mode = "landed" /\ Frame.kind \in Protected
      BY <2>3 DEF SafeError
    <3>2. cstack # <<>>
      BY <3>1, StackLen DEF IInv, ModeOK, LandedOK
    <3> QED
      BY <2>3, <3>1, <3>2 DEF SafeError, Restore, Jmpbufs
  <2> QED
    BY <2>1, <2>2, <2>3
<1>2. /\ Len(cstack) \in Nat \ {0} /\ Frame = Top /\ Fin \in {0, 1}
      /\ Innermost(cstack, Frame.jmpbuf, Len(cstack) - 1)
      /\ IsFin(Len(cstack)) <=> Frame.kind = "finalizer"
      /\ mode = "run" => RunOK
      /\ mode = "landed" => LandedOK
  BY <1>1, InControl
<1>3. pf' = IF IsFin(Len(cstack)) THEN 0 ELSE Fin
  BY <1>1, <1>2 DEF RunOK, LandedOK
<1> QED
  BY <1>1, <1>2, <1>3, LeaveHolds

LEMMA CallHolds ==
  ASSUME IInv, NEW t, NEW k \in Functions, NEW by, Call(t, k, by)
  PROVE  IInv'
<1> DEFINE f == NewFrame(k, t, by)
           n == Len(cstack)
<1>1. /\ mode = "run" /\ depth' = depth + 1 /\ cstack' = Append(cstack, f)
      /\ jmpbuf_ptr' = (IF k = "ecma" THEN n + 1 ELSE jmpbuf_ptr)
      /\ UNCHANGED <<pf, mode>>
  BY DEF Call, CanCall, In, GoRuns
<1>2. f.kind = k /\ f.depth = depth /\ f.jmpbuf = jmpbuf_ptr /\ f.kind # "finalizer"
  BY DEF NewFrame, Functions
<1>3. /\ IsStack' /\ FramesOK' /\ FinOnce'
      /\ Len(cstack') = n + 1 /\ Top' = f /\ depth = n
      /\ Fin' = pf /\ Innermost(cstack', jmpbuf_ptr, n)
  <2> HIDE DEF f
  <2> QED
    BY <1>1, <1>2, EnterFrame
<1>4. n \in Nat
  BY StackLen DEF IInv
<1>5. cstack'[n + 1].kind = k
  BY <1>2, <1>3 DEF Top
<1>6. Innermost(cstack', jmpbuf_ptr', n + 1)
  <2>1. CASE k = "ecma"
    BY <1>1, <1>4, <1>5, <2>1 DEF Innermost, Jmpbufs
  <2>2. CASE k # "ecma"
    <3>1. k \notin Jmpbufs
      BY <2>2 DEF Jmpbufs, Protected, Functions
    <3>2. jmpbuf_ptr \in 0 .. n /\ jmpbuf_ptr' = jmpbuf_ptr
      BY <1>1, <1>3, <1>4, <2>2 DEF Innermost
    <3> QED
      BY <1>3, <1>4, <1>5, <3>1, <3>2 DEF Innermost
  <2> QED
    BY <2>1, <2>2
<1>7. RunOK'
  BY <1>1, <1>3, <1>6 DEF RunOK
<1> QED
  BY <1>1, <1>3, <1>7 DEF IInv, ModeOK

\* A protected call begins, of a script or of a finalizer.
LEMMA ProtectHolds ==
  ASSUME IInv, mode = "run", NEW k \in Protected, NEW t, NEW by, Protect(k, t, by),
         pf' = IF k = "finalizer" THEN 1 ELSE pf,
         k = "finalizer" => pf = 0
  PROVE  IInv'
<1> DEFINE f == NewFrame(k, t, by)
<1>1. cstack' = Append(cstack, f) /\ jmpbuf_ptr' = Len(cstack) + 1
      /\ mode' = "enter" /\ depth' = depth
  BY DEF Protect
<1>2. f.kind = k /\ f.depth = depth /\ f.jmpbuf = jmpbuf_ptr
  BY DEF NewFrame
<1>3. /\ IsStack' /\ FramesOK' /\ FinOnce'
      /\ Len(cstack') = Len(cstack) + 1 /\ Top' = f /\ depth = Len(cstack)
      /\ Fin' = IF k = "finalizer" THEN 1 ELSE pf
  <2> HIDE DEF f
  <2> QED
    BY <1>1, <1>2, EnterFrame
<1>4. Len(cstack) \in Nat
  BY StackLen DEF IInv
<1>5. Top'.kind \in Protected
  BY <1>2, <1>3
<1>6. EnterOK'
  BY <1>1, <1>3, <1>4, <1>5 DEF EnterOK
<1> QED
  BY <1>1, <1>3, <1>6 DEF IInv, ModeOK

LEMMA SafeEnterHolds ==
  ASSUME IInv, SafeEnter
  PROVE  IInv'
<1>1. mode = "enter" /\ depth' = depth + 1 /\ mode' = "run"
      /\ UNCHANGED <<pf, jmpbuf_ptr, cstack>>
  BY DEF SafeEnter, jump
<1>2. EnterOK /\ Len(cstack) \in Nat
  BY <1>1, StackLen DEF IInv, ModeOK
<1>3. Innermost(cstack, jmpbuf_ptr, Len(cstack))
  BY <1>2 DEF EnterOK, Innermost, Top, Jmpbufs
<1>4. RunOK'
  BY <1>1, <1>2, <1>3 DEF RunOK, EnterOK, Innermost, Fin, IsFin
<1> QED
  BY <1>1, <1>4 DEF IInv, ModeOK, IsStack, FramesOK, Innermost, FinOnce, IsFin

LEMMA ExecutorErrorHolds ==
  ASSUME IInv, ExecutorError
  PROVE  IInv'
<1>1. mode = "landed" /\ Frame.kind = "ecma" /\ depth' = Frame.depth + 1
      /\ jmpbuf_ptr' = Frame.jmpbuf /\ mode' = "handle" /\ UNCHANGED <<pf, cstack>>
  BY DEF ExecutorError
<1>2. cstack # <<>>
  BY <1>1, StackLen DEF IInv, ModeOK, LandedOK
<1>3. Len(cstack) \in Nat \ {0} /\ Frame = Top /\ Frame.depth = Len(cstack) - 1 /\ LandedOK
  BY <1>1, <1>2, InControl
<1>4. HandleOK'
  BY <1>1, <1>3 DEF HandleOK, LandedOK, Fin, IsFin, Top
<1> QED
  BY <1>1, <1>4 DEF IInv, ModeOK, IsStack, FramesOK, Innermost, FinOnce, IsFin

\* The executor goes back to running bytecode, its own jmpbuf set.
LEMMA RestartHolds ==
  ASSUME IInv, mode = "handle", Restart, UNCHANGED <<depth, cstack>>
  PROVE  IInv'
<1>1. pf' = pf - 1 /\ jmpbuf_ptr' = Len(cstack) /\ mode' = "run"
  BY DEF Restart
<1>2. HandleOK /\ Len(cstack) \in Nat /\ Fin \in {0, 1}
  BY StackLen DEF IInv, ModeOK, Fin
<1>3. Innermost(cstack, Len(cstack), Len(cstack))
  BY <1>2 DEF HandleOK, Innermost, Top, Jmpbufs
<1>4. RunOK'
  BY <1>1, <1>2, <1>3 DEF RunOK, HandleOK, Innermost, Fin, IsFin
<1> QED
  BY <1>1, <1>4 DEF IInv, ModeOK, IsStack, FramesOK, Innermost, FinOnce, IsFin

-----------------------------------------------------------------------------
LEMMA InitHolds == Init => IInv
<1> SUFFICES ASSUME Init PROVE IInv
  OBVIOUS
<1>1. cstack = <<>> /\ Len(cstack) = 0 /\ mode = "run" /\ depth = 0 /\ pf = 0 /\ jmpbuf_ptr = 0
  BY DEF Init
<1>2. IsStack
  <2>1. cstack \in Seq({})
    BY <1>1, EmptySeq
  <2> QED
    BY <2>1 DEF IsStack
<1> QED
  BY <1>1, <1>2 DEF IInv, FramesOK, FinOnce, ModeOK, RunOK, Innermost, Fin

LEMMA StepHolds == IInv /\ [Next]_vars => IInv'
<1> SUFFICES ASSUME IInv, [Next]_vars PROVE IInv'
  OBVIOUS
<1>1. ASSUME NEW t \in Threads, NEW by \in {"C", "Go"}, NEW k \in Functions, Call(t, k, by)
      PROVE  IInv'
  BY <1>1, CallHolds
<1>2. ASSUME NEW t \in Threads, NEW by \in {"C", "Go"}, CallRefused(t, by)
      PROVE  IInv'
  <2>1. mode = "run" /\ Longjmp(Error, pf) /\ UNCHANGED jmpbuf_ptr
    BY <1>2 DEF CallRefused, CanCall, In, GoRuns
  <2> QED
    BY <2>1, ErrorHolds
<1>3. ASSUME NEW t \in Threads, NEW by \in {"C", "Go"}, SafeCall(t, by)
      PROVE  IInv'
  <2>1. mode = "run" /\ Protect("safe", t, by) /\ pf' = pf /\ "safe" \in Protected
    BY <1>3 DEF SafeCall, In, GoRuns, Protected
  <2> QED
    BY <2>1, ProtectHolds
<1>4. CASE Finalizer
  <2>1. /\ mode = "run" /\ Protect("finalizer", HeapThread, "C") /\ pf = 0 /\ pf' = 1
        /\ "finalizer" \in Protected
    BY <1>4 DEF Finalizer, Protected
  <2> QED
    BY <2>1, ProtectHolds
<1>5. CASE \/ EcmaCall \/ TailCall \/ TryCatch \/ ReturnToFinally \/ ReturnToCaller
           \/ ReturnToResumer \/ UnwindActivation \/ ThreadDies \/ Stopped \/ UNCHANGED vars
  BY <1>5, ThreadsOnly DEF EcmaCall, TailCall, TryCatch, ReturnToFinally, ReturnToCaller,
     ReturnToResumer, UnwindActivation, ThreadDies, Stopped, vars, jump
<1>6. CASE Throw \/ SwitchRefused
  <2>1. mode = "run" /\ Longjmp(Error, pf) /\ UNCHANGED jmpbuf_ptr
    BY <1>6 DEF Throw, SwitchRefused, In, GoRuns
  <2> QED
    BY <2>1, ErrorHolds
<1>7. ASSUME NEW r \in Threads, NEW iserror \in BOOLEAN, Resume(r, iserror)
      PROVE  IInv'
  <2>1. mode = "run" /\ UNCHANGED jmpbuf_ptr
        /\ Longjmp([type |-> "resume", thr |-> r, iserror |-> iserror], pf)
    BY <1>7 DEF Resume, In
  <2> QED
    BY <2>1, ErrorHolds
<1>8. ASSUME NEW iserror \in BOOLEAN, Yield(iserror)
      PROVE  IInv'
  <2>1. mode = "run" /\ UNCHANGED jmpbuf_ptr
        /\ Longjmp([type |-> "yield", thr |-> None, iserror |-> iserror], pf)
    BY <1>8 DEF Yield, In
  <2> QED
    BY <2>1, ErrorHolds
<1>9. CASE SafeRefused
  <2>1. mode = "enter" /\ Longjmp(Error, pf) /\ UNCHANGED jmpbuf_ptr
    BY <1>9 DEF SafeRefused
  <2> QED
    BY <2>1, ErrorHolds
<1>10. CASE Rethrow
  <2>1. mode = "handle" /\ Longjmp(lj, pf - 1) /\ UNCHANGED jmpbuf_ptr
    BY <1>10 DEF Rethrow, Handling
  <2> QED
    BY <2>1, ErrorHolds
<1>11. CASE Catch
  <2>1. mode = "handle" /\ Restart /\ UNCHANGED <<depth, cstack>>
    BY <1>11 DEF Catch, Handling
  <2> QED
    BY <2>1, RestartHolds
<1>12. CASE HandleResume \/ HandleYield
  <2>1. mode = "handle" /\ UNCHANGED <<depth, cstack>>
        /\ (Restart \/ UNCHANGED <<pf, jmpbuf_ptr, mode>>)
    BY <1>12 DEF HandleResume, HandleYield
  <2> QED
    BY <2>1, RestartHolds, ThreadsOnly
<1>13. CASE NativeReturn
  BY <1>13, NativeReturnHolds
<1>14. CASE ReturnFromExecutor \/ SafeReturn \/ SafeError
  BY <1>14, JmpbufReturnHolds
<1>15. CASE SafeEnter
  BY <1>15, SafeEnterHolds
<1>16. CASE ExecutorError
  BY <1>16, ExecutorErrorHolds
<1>17. CASE GoFails
  BY <1>17, GoFailsHolds
<1> QED
  BY <1>1, <1>2, <1>3, <1>4, <1>5, <1>6, <1>7, <1>8, <1>9, <1>10, <1>11, <1>12, <1>13,
     <1>14, <1>15, <1>16, <1>17 DEF Next

\* The inductive invariant holds in every reachable state.
THEOREM Invariant == Spec => []IInv
<1>1. Init => IInv
  BY InitHolds
<1>2. IInv /\ [Next]_vars => IInv'
  BY StepHolds
<1> QED
  BY <1>1, <1>2, PTL DEF Spec

\* An error of the engine reaches the fatal handler, or passes over Go code,
\* only from above all protected calls: what Eval's duk_safe_call or a
\* finalizer call is running never gets past it, while CallFunc's duk_call
\* and what Go does around its pEval do (js-func.go:50, context.go:129, 139).
THEOREM ProtectionHolds == Spec => []EscapesUnprotected
<1>1. IInv => EscapesUnprotected
  BY DEF IInv, ModeOK, Unprotected, EscapesUnprotected
<1> QED
  BY <1>1, Invariant, PTL

\* While code runs, call_recursion_depth, the jmpbuf and pf_prevent_count are
\* those of the calls under way, however many were left by an error, a
\* resume or a yield (duktape.c:68450, 68617, 80067).
THEOREM NothingLeftOver == Spec => []StackBooks
<1>1. IInv => StackBooks
  <2> SUFFICES ASSUME IInv, mode = "run"
               PROVE  /\ depth = Len(cstack)
                      /\ \/ Catching = {} /\ jmpbuf_ptr = 0
                         \/ jmpbuf_ptr \in Catching /\ \A i \in Catching : i <= jmpbuf_ptr
                      /\ pf = Cardinality({i \in DOMAIN cstack : cstack[i].kind = "finalizer"})
    BY DEF StackBooks
  <2>1. RunOK /\ DOMAIN cstack = 1 .. Len(cstack) /\ Len(cstack) \in Nat
    BY StackLen DEF IInv, ModeOK
  <2>2. Catching = {i \in 1 .. Len(cstack) : cstack[i].kind \in Jmpbufs}
    BY <2>1 DEF Catching
  <2>3. \/ Catching = {} /\ jmpbuf_ptr = 0
        \/ jmpbuf_ptr \in Catching /\ \A i \in Catching : i <= jmpbuf_ptr
    BY <2>1, <2>2 DEF RunOK, Innermost
  <2>4. pf = Cardinality({i \in DOMAIN cstack : cstack[i].kind = "finalizer"})
    <3> DEFINE F == {i \in 1 .. Len(cstack) : IsFin(i)}
    <3>1. CASE \E i \in 1 .. Len(cstack) : IsFin(i)
      <4>1. PICK i \in 1 .. Len(cstack) : IsFin(i)
        BY <3>1
      <4>2. F = {i}
        BY <4>1 DEF IInv, FinOnce
      <4>3. Cardinality(F) = 1
        BY <4>2, FS_Singleton
      <4> QED
        BY <2>1, <3>1, <4>3 DEF RunOK, Fin, IsFin
    <3>2. CASE ~\E i \in 1 .. Len(cstack) : IsFin(i)
      <4>1. F = {}
        BY <3>2
      <4>2. Cardinality(F) = 0
        BY <4>1, FS_EmptySet
      <4> QED
        BY <2>1, <3>2, <4>2 DEF RunOK, Fin, IsFin
    <3> QED
      BY <3>1, <3>2
  <2> QED
    BY <2>1, <2>3, <2>4 DEF RunOK
<1> QED
  BY <1>1, Invariant, PTL

-----------------------------------------------------------------------------
(* Threads: what holds while nothing is fatal. *)

Acts == [kind : Functions, prevent : BOOLEAN, enabled : SUBSET {"catch", "finally"}]
CallFrames == [kind : Functions \cup Protected, thr : Threads,
               top : Nat, depth : Nat, curr : Threads \cup {None},
               state : States, jmpbuf : Nat, by : {"C", "Go"}]
Jumps == [type : {"none", "throw", "resume", "yield"},
          thr : Threads \cup {None}, iserror : BOOLEAN]

Typed ==
  /\ contexts \in {{HeapThread}, SharedThreads}
  /\ state \in [Threads -> States]
  /\ callstack \in [Threads -> Seq(Acts)]
  /\ preventcount \in [Threads -> Int]
  /\ resumer \in [Threads -> Threads \cup {None}]
  /\ curr_thread \in Threads \cup {None}
  /\ lj \in Jumps
  /\ cstack \in Seq(CallFrames)
  /\ depth \in Nat /\ jmpbuf_ptr \in Nat

Active == {"running", "resumed"}
Resumed(t) == resumer[t] # None

\* The thread in control when frame i + 1 was pushed, or now.
Cur(i) == IF i < Len(cstack) THEN cstack[i + 1].curr ELSE curr_thread

\* Frame i was entered on the current thread or on an idle one of a context.
Entered(i) ==
  LET f == cstack[i] IN
  /\ f.state = (IF f.thr = Cur(i - 1) THEN "running" ELSE "inactive")
  /\ f.thr # Cur(i - 1) =>
       /\ f.thr \in contexts \cup {HeapThread} /\ ~Resumed(f.thr)
       /\ \A j \in 1 .. i - 1 : cstack[j].thr # f.thr
       /\ f.kind \notin Protected => i = 1 \/ cstack[i - 1].kind = "go"
  /\ state[f.thr] \in Active

\* Only an executor hands control to other threads, which it has resumed.
Controlled(i, h) ==
  \/ Cur(i) = cstack[i].thr
  \/ cstack[i].kind = "ecma" /\ Cur(i) # None /\ Resumed(Cur(i)) /\ h[Cur(i)] = i

\* A thread whose Go function has called on another context waits, running.
Waits(i, m) ==
  i < m /\ cstack[i + 1].thr # Cur(i) =>
    state[Cur(i)] = "running" /\ \A j \in i + 1 .. m : cstack[j].thr # Cur(i)

\* Native functions call on their own thread.
Straight(i, m) ==
  \A k \in i .. m :
    /\ cstack[i].kind # "go"
    /\ \A l \in i + 1 .. k : cstack[l].kind \notin Jmpbufs \cup {"go"}
    => Cur(i) = Cur(k)

\* A thread that has been resumed, by executor h[t] and as its d[t]-th in a row.
Chained(t, m, h, d) ==
  Resumed(t) =>
    LET r == resumer[t] IN
    /\ t \in Coroutines /\ state[t] \in Active /\ state[r] = "resumed"
    /\ \A u \in Threads : resumer[u] = r => u = t
    /\ h[t] \in 1 .. m /\ cstack[h[t]].kind = "ecma"
    /\ \A j \in 1 .. h[t] : cstack[j].thr # t
    /\ d[t] \in Nat \ {0}
    /\ \/ r = cstack[h[t]].thr /\ d[t] = 1
       \/ Resumed(r) /\ h[r] = h[t] /\ d[t] = d[r] + 1
    /\ Cur(h[t]) # cstack[h[t]].thr /\ d[t] <= d[Cur(h[t])]
    /\ \A u \in Threads : Resumed(u) /\ h[u] = h[t] /\ d[u] = d[t] => u = t

ThreadOK(t, m) ==
  /\ state[t] = "running" =>
       t = curr_thread \/ \E i \in 1 .. m - 1 : t = Cur(i) /\ cstack[i + 1].thr # Cur(i)
  /\ state[t] = "resumed" => SuspendedIn(t, "resume") /\ \E u \in Threads : resumer[u] = t
  /\ state[t] = "yielded" => SuspendedIn(t, "yield")
  /\ state[t] \in {"yielded", "terminated"} => t \in Coroutines
  /\ state[t] \in Active => (\E i \in 1 .. m : cstack[i].thr = t) \/ Resumed(t)

\* The threads and the first m frames of the C stack.
Threading(m, h, d) ==
  /\ Cur(0) = None
  /\ curr_thread # None => state[curr_thread] = "running"
  /\ \A i \in 1 .. m : Entered(i) /\ Controlled(i, h) /\ Waits(i, m) /\ Straight(i, m)
  /\ \A t \in Threads : Chained(t, m, h, d) /\ ThreadOK(t, m)

LEMMA FrameType ==
  ASSUME Typed, NEW i \in 1 .. Len(cstack)
  PROVE  /\ Len(cstack) \in Nat
         /\ cstack[i].kind \in Functions \cup Protected
         /\ cstack[i].thr \in Threads /\ cstack[i].top \in Nat
         /\ cstack[i].curr \in Threads \cup {None} /\ cstack[i].state \in States
         /\ cstack[i].depth \in Nat /\ cstack[i].jmpbuf \in Nat
<1>1. cstack \in Seq(CallFrames) /\ Len(cstack) \in Nat
  BY DEF Typed
<1>2. cstack[i] \in CallFrames
  BY <1>1, ElementOfSeq
<1> QED
  BY <1>1, <1>2 DEF CallFrames

LEMMA SameThreading ==
  ASSUME Typed, NEW m \in Nat, NEW h, NEW d, Threading(m, h, d),
         \A i \in 1 .. m : cstack'[i] = cstack[i],
         \A i \in 0 .. m : Cur(i)' = Cur(i),
         UNCHANGED <<contexts, state, resumer, curr_thread>>,
         \A t \in Threads : t # curr_thread => callstack'[t] = callstack[t]
  PROVE  Threading(m, h, d)'
<1>1. Cur(0)' = None /\ (curr_thread' # None => state'[curr_thread'] = "running")
  BY DEF Threading
<1>2. ASSUME NEW i \in 1 .. m
      PROVE  Entered(i)' /\ Controlled(i, h)' /\ Waits(i, m)' /\ Straight(i, m)'
  <2>1. Entered(i) /\ Controlled(i, h) /\ Waits(i, m) /\ Straight(i, m)
    BY DEF Threading
  <2>2. i \in 0 .. m /\ i - 1 \in 0 .. m
    OBVIOUS
  <2>3. Entered(i)'
    BY <2>1, <2>2 DEF Entered, Resumed
  <2>4. Controlled(i, h)'
    BY <2>1, <2>2 DEF Controlled, Resumed
  <2>5. Waits(i, m)'
    <3>1. i < m => i + 1 \in 1 .. m
      OBVIOUS
    <3> QED
      BY <2>1, <2>2, <3>1 DEF Waits
  <2>6. Straight(i, m)'
    BY <2>1, <2>2 DEF Straight
  <2> QED
    BY <2>3, <2>4, <2>5, <2>6
<1>3. ASSUME NEW t \in Threads
      PROVE  Chained(t, m, h, d)' /\ ThreadOK(t, m)'
  <2>1. Chained(t, m, h, d) /\ ThreadOK(t, m)
    BY DEF Threading
  <2>2. Chained(t, m, h, d)'
    <3>1. Resumed(t)' = Resumed(t) /\ resumer'[t] = resumer[t] /\ \A u : Resumed(u)' = Resumed(u)
      BY DEF Resumed
    <3> QED
      BY <2>1, <3>1 DEF Chained
  <2>3. state[t] \in {"resumed", "yielded"} => callstack'[t] = callstack[t]
    <3>1. t = curr_thread => state[t] = "running"
      BY ThreadsAssumption DEF Threading
    <3> QED
      BY <3>1
  <2>4. ThreadOK(t, m)'
    <3>1. \A i \in 1 .. m - 1 : i \in 0 .. m /\ i + 1 \in 1 .. m
      OBVIOUS
    <3> QED
      BY <2>1, <2>3, <3>1 DEF ThreadOK, SuspendedIn, Resumed
  <2> QED
    BY <2>2, <2>4
<1> QED
  BY <1>1, <1>2, <1>3 DEF Threading

\* The threads in control of two frames differ if the lower one waits.
LEMMA WaitsAlone ==
  ASSUME Typed, NEW m \in Nat, NEW h, NEW d, Threading(m, h, d), m <= Len(cstack),
         NEW i \in 1 .. m, i < m, cstack[i + 1].thr # Cur(i)
  PROVE  Cur(m) # Cur(i)
<1>1. \A j \in i + 1 .. m : cstack[j].thr # Cur(i)
  BY DEF Threading, Waits
<1>2. Controlled(i, h) /\ Controlled(m, h)
  BY DEF Threading
<1>3. Len(cstack) \in Nat /\ i \in 1 .. Len(cstack) /\ cstack[i].thr \in Threads
  <2>1. Len(cstack) \in Nat
    BY DEF Typed
  <2>2. i \in 1 .. Len(cstack)
    BY <2>1
  <2> QED
    BY <2>1, <2>2, FrameType
<1>4. CASE Cur(m) = cstack[m].thr
  BY <1>1, <1>4
<1>5. CASE Resumed(Cur(m)) /\ h[Cur(m)] = m /\ Cur(m) # None
  <2>1. Cur(m) \in Threads
    <3>1. Cur(m) \in Threads \cup {None}
      <4>1. m < Len(cstack) => m + 1 \in 1 .. Len(cstack)
        BY <1>3
      <4> QED
        BY <4>1, FrameType DEF Cur, Typed
    <3> QED
      BY <1>5, <3>1
  <2>2. \A j \in 1 .. m : cstack[j].thr # Cur(m)
    BY <1>5, <2>1 DEF Threading, Chained
  <2> QED
    BY <1>2, <1>5, <2>2 DEF Controlled
<1> QED
  BY <1>2, <1>4, <1>5 DEF Controlled

LEMMA CurThread ==
  ASSUME Typed, NEW m \in Nat, NEW h, NEW d, Threading(m, h, d), m <= Len(cstack),
         NEW i \in 1 .. m
  PROVE  Cur(i) \in Threads /\ cstack[i].thr \in Threads
<1>1. Len(cstack) \in Nat /\ i \in 1 .. Len(cstack) /\ cstack[i].thr \in Threads
  <2>1. Len(cstack) \in Nat
    BY DEF Typed
  <2>2. i \in 1 .. Len(cstack)
    BY <2>1
  <2> QED
    BY <2>1, <2>2, FrameType
<1>2. Cur(i) \in Threads \cup {None}
  <2>1. i < Len(cstack) => i + 1 \in 1 .. Len(cstack)
    BY <1>1
  <2> QED
    BY <2>1, FrameType DEF Cur, Typed
<1> QED
  BY <1>1, <1>2 DEF Threading, Controlled

\* A frame is entered: on the current thread, or on an idle one of a context.
LEMMA EnterThreading ==
  ASSUME Typed, NEW m \in Nat, NEW h, NEW d, Threading(m, h, d),
         m <= Len(cstack), Cur(m) = curr_thread,
         NEW t \in Threads, MayStart(t), Start(t), UNCHANGED <<contexts, resumer>>,
         Len(cstack') = m + 1, \A i \in 1 .. m : cstack'[i] = cstack[i],
         cstack'[m + 1].thr = t, cstack'[m + 1].state = state[t],
         cstack'[m + 1].curr = curr_thread,
         t # curr_thread =>
           /\ t \in contexts \cup {HeapThread}
           /\ cstack'[m + 1].kind \notin Protected => m = 0 \/ cstack[m].kind = "go",
         \A u \in Threads : u # t => callstack'[u] = callstack[u]
  PROVE  Threading(m + 1, h, d)'
<1> USE DEF Resumed
<1>1. /\ curr_thread' = t /\ state' = [state EXCEPT ![t] = "running"]
      /\ state[t] = (IF t = curr_thread THEN "running" ELSE "inactive")
      /\ state \in [Threads -> States]
  BY DEF Start, MayStart, Typed
<1>2. /\ \A i \in 0 .. m : Cur(i)' = Cur(i)
      /\ Cur(m + 1)' = t
  <2>1. ASSUME NEW i \in 0 .. m PROVE Cur(i)' = Cur(i)
    <3>1. CASE i = m
      BY <3>1 DEF Cur
    <3>2. CASE i < m
      <4>1. i + 1 \in 1 .. m /\ i < Len(cstack) /\ i < Len(cstack')
        BY <3>2, LenProperties DEF Typed
      <4> QED
        BY <4>1 DEF Cur
    <3> QED
      BY <3>1, <3>2
  <2>2. Cur(m + 1)' = t
    BY <1>1 DEF Cur
  <2> QED
    BY <2>1, <2>2
<1>3. \A i \in 1 .. m : Entered(i) /\ Controlled(i, h) /\ Waits(i, m) /\ Straight(i, m)
                        /\ Cur(i) \in Threads /\ cstack[i].thr \in Threads
  BY CurThread DEF Threading
<1>4. t # curr_thread => ~Resumed(t)
  BY <1>1, <1>3 DEF Threading, Chained, Entered, Active
<1>5. t # curr_thread => \A j \in 1 .. m : cstack[j].thr # t
  BY <1>1, <1>3 DEF Entered, Active
<1>6. ASSUME NEW i \in 1 .. m + 1
      PROVE  Entered(i)' /\ Controlled(i, h)' /\ Waits(i, m + 1)' /\ Straight(i, m + 1)'
  <2>1. CASE i = m + 1
    <3>1. Entered(m + 1)'
      <4>1. Cur(m + 1 - 1)' = curr_thread
        BY <1>2
      <4>2. /\ cstack'[m + 1].state = (IF t = curr_thread THEN "running" ELSE "inactive")
            /\ state'[t] \in Active
        BY <1>1 DEF Active
      <4>3. t # curr_thread =>
              /\ t \in contexts' \cup {HeapThread} /\ resumer'[t] = None
              /\ \A j \in 1 .. m : cstack'[j].thr # t
        BY <1>4, <1>5
      <4>4. t # curr_thread /\ cstack'[m + 1].kind \notin Protected =>
              m + 1 = 1 \/ cstack'[m].kind = "go"
        <5>1. m # 0 => m \in 1 .. m /\ cstack'[m] = cstack[m]
          OBVIOUS
        <5> QED
          BY <5>1
      <4>5. m + 1 - 1 = m
        OBVIOUS
      <4> QED
        BY <4>1, <4>2, <4>3, <4>4, <4>5 DEF Entered
    <3>2. Controlled(m + 1, h)'
      BY <1>2 DEF Controlled
    <3>3. Waits(m + 1, m + 1)'
      BY DEF Waits
    <3>4. Straight(m + 1, m + 1)'
      BY DEF Straight
    <3> QED
      BY <2>1, <3>1, <3>2, <3>3, <3>4
  <2>2. CASE i \in 1 .. m
    <3>1. i - 1 \in 0 .. m /\ i \in 0 .. m
      BY <2>2
    <3>2. Entered(i)'
      <4>1. state[cstack[i].thr] \in Active => state'[cstack[i].thr] \in Active
        BY <1>1, <1>3, <2>2 DEF Active
      <4>2. cstack'[i] = cstack[i] /\ \A j \in 1 .. i - 1 : cstack'[j] = cstack[j]
        BY <2>2
      <4>3. i # 1 => i - 1 \in 1 .. m /\ cstack'[i - 1] = cstack[i - 1]
        BY <2>2
      <4>4. Cur(i - 1)' = Cur(i - 1)
        BY <1>2, <3>1
      <4>5. Entered(i) /\ contexts' = contexts /\ resumer' = resumer
        BY <1>3, <2>2
      <4> QED
        BY <4>1, <4>2, <4>3, <4>4, <4>5 DEF Entered
    <3>3. Controlled(i, h)'
      BY <1>2, <1>3, <2>2, <3>1 DEF Controlled
    <3>4. Waits(i, m + 1)'
      <4>1. CASE i < m
        <5>1. i + 1 \in 1 .. m /\ Cur(i)' = Cur(i) /\ cstack'[i + 1] = cstack[i + 1]
          BY <1>2, <2>2, <4>1
        <5>2. ASSUME cstack[i + 1].thr # Cur(i)
              PROVE  state[Cur(i)] = "running" /\ t # Cur(i) /\ \A j \in i + 1 .. m : cstack[j].thr # Cur(i)
          <6>1. state[Cur(i)] = "running" /\ \A j \in i + 1 .. m : cstack[j].thr # Cur(i)
            BY <1>3, <2>2, <4>1, <5>2 DEF Waits
          <6>2. Cur(m) # Cur(i)
            BY <2>2, <4>1, <5>2, WaitsAlone
          <6> QED
            BY <1>1, <6>1, <6>2
        <5>3. ASSUME cstack[i + 1].thr # Cur(i)
              PROVE  state'[Cur(i)] = "running" /\ \A j \in i + 1 .. m + 1 : cstack'[j].thr # Cur(i)
          <6>1. \A j \in i + 1 .. m + 1 : j \in i + 1 .. m \/ j = m + 1
            BY <2>2
          <6>2. \A j \in i + 1 .. m : j \in 1 .. m
            BY <2>2
          <6> QED
            BY <1>1, <1>3, <2>2, <5>2, <5>3, <6>1, <6>2
        <5> QED
          BY <5>1, <5>3 DEF Waits
      <4>2. CASE i = m
        <5>1. Cur(m)' = curr_thread /\ curr_thread \in Threads
          BY <1>2, <1>3, <2>2, <4>2
        <5>2. state[curr_thread] = "running"
          BY <5>1, ThreadsAssumption DEF Threading
        <5>3. t # curr_thread => state'[curr_thread] = "running"
          BY <1>1, <5>1, <5>2
        <5>4. \A j \in m + 1 .. m + 1 : j = m + 1
          OBVIOUS
        <5> QED
          BY <4>2, <5>1, <5>3, <5>4 DEF Waits
      <4> QED
        BY <2>2, <4>1, <4>2
    <3>5. Straight(i, m + 1)'
      <4> SUFFICES ASSUME NEW k \in i .. m + 1, cstack'[i].kind # "go",
                          \A l \in i + 1 .. k : cstack'[l].kind \notin Jmpbufs \cup {"go"}
                   PROVE  Cur(i)' = Cur(k)'
        BY DEF Straight
      <4>1. \A l \in i + 1 .. k : l \in 1 .. m => cstack[l].kind \notin Jmpbufs \cup {"go"}
        OBVIOUS
      <4>2. cstack[i].kind # "go" /\ Cur(i)' = Cur(i)
        BY <1>2, <2>2, <3>1
      <4>3. CASE k \in i .. m
        <5>1. \A l \in i + 1 .. k : l \in 1 .. m
          BY <2>2, <4>3
        <5>2. Cur(i) = Cur(k)
          BY <1>3, <2>2, <4>1, <4>2, <4>3, <5>1 DEF Straight
        <5> QED
          BY <1>2, <2>2, <4>2, <4>3, <5>2
      <4>4. CASE k = m + 1
        <5>1. \A l \in i + 1 .. m : l \in 1 .. m /\ l \in i + 1 .. k
          BY <2>2, <4>4
        <5>2. Cur(i) = Cur(m)
          <6>1. m \in i .. m
            BY <2>2
          <6> QED
            BY <1>3, <2>2, <4>1, <4>2, <5>1, <6>1 DEF Straight
        <5>3. cstack'[m + 1].kind \notin Protected
          <6>1. m + 1 \in i + 1 .. k
            BY <2>2, <4>4
          <6> QED
            BY <6>1 DEF Jmpbufs
        <5>4. cstack[m].kind # "go"
          <6>1. CASE i = m
            BY <4>2, <6>1
          <6>2. CASE i # m
            <7>1. m \in i + 1 .. k /\ m \in 1 .. m
              BY <2>2, <4>4, <6>2
            <7> QED
              BY <4>1, <7>1
          <6> QED
            BY <6>1, <6>2
        <5>5. m # 0
          BY <2>2
        <5>6. t = curr_thread
          BY <5>3, <5>4, <5>5
        <5> QED
          BY <1>2, <4>2, <4>4, <5>2, <5>6
      <4> QED
        BY <4>3, <4>4
    <3> QED
      BY <3>2, <3>3, <3>4, <3>5
  <2> QED
    BY <2>1, <2>2
<1>7. ASSUME NEW u \in Threads
      PROVE  Chained(u, m + 1, h, d)' /\ ThreadOK(u, m + 1)'
  <2>1. Chained(u, m, h, d) /\ ThreadOK(u, m)
    BY DEF Threading
  <2>2. Chained(u, m + 1, h, d)'
    <3> SUFFICES ASSUME Resumed(u) PROVE Chained(u, m + 1, h, d)'
      BY DEF Chained
    <3>1. resumer[u] \in Threads
      BY DEF Typed
    <3>2. state'[u] \in Active /\ state'[resumer[u]] = "resumed"
      BY <1>1, <2>1, <3>1 DEF Chained, Active
    <3>3. h[u] \in 1 .. m /\ h[u] \in 1 .. m + 1 /\ h[u] \in 0 .. m
      BY <2>1 DEF Chained
    <3>4. cstack'[h[u]] = cstack[h[u]] /\ Cur(h[u])' = Cur(h[u])
      BY <1>2, <3>3
    <3>5. \A j \in 1 .. h[u] : cstack'[j] = cstack[j]
      BY <3>3
    <3> QED
      BY <2>1, <3>2, <3>3, <3>4, <3>5 DEF Chained
  <2>3. ThreadOK(u, m + 1)'
    <3>1. state'[u] = "running" =>
            u = curr_thread' \/ \E i \in 1 .. m : u = Cur(i)' /\ cstack'[i + 1].thr # Cur(i)'
      <4> SUFFICES ASSUME state'[u] = "running", u # t
                   PROVE  \E i \in 1 .. m : u = Cur(i)' /\ cstack'[i + 1].thr # Cur(i)'
        BY <1>1
      <4>1. state[u] = "running"
        BY <1>1
      <4>2. CASE u = curr_thread
        <5>1. m # 0
          BY <4>2, ThreadsAssumption DEF Threading
        <5>2. m \in 1 .. m /\ Cur(m)' = u
          BY <1>2, <4>2, <5>1
        <5> QED
          BY <5>2
      <4>3. CASE \E i \in 1 .. m - 1 : u = Cur(i) /\ cstack[i + 1].thr # Cur(i)
        <5>1. PICK i \in 1 .. m - 1 : u = Cur(i) /\ cstack[i + 1].thr # Cur(i)
          BY <4>3
        <5>2. i \in 0 .. m /\ i \in 1 .. m /\ i + 1 \in 1 .. m
          OBVIOUS
        <5> QED
          BY <1>2, <5>1, <5>2
      <4> QED
        BY <2>1, <4>1, <4>2, <4>3 DEF ThreadOK
    <3>2. state[u] \in {"resumed", "yielded"} => u # t /\ callstack'[u] = callstack[u]
      BY <1>1
    <3>3. state'[u] \in {"resumed", "yielded", "terminated"} => state'[u] = state[u]
      BY <1>1
    <3>4. state'[u] \in Active => (\E i \in 1 .. m + 1 : cstack'[i].thr = u) \/ Resumed(u)'
      <4>1. CASE u = t
        BY <4>1
      <4>2. CASE u # t
        <5>1. state'[u] = state[u]
          BY <1>1, <4>2
        <5>2. \A i \in 1 .. m : i \in 1 .. m + 1
          OBVIOUS
        <5> QED
          BY <2>1, <5>1, <5>2 DEF ThreadOK
      <4> QED
        BY <4>1, <4>2
    <3>5. m + 1 - 1 = m
      OBVIOUS
    <3>6. \A x \in Threads : resumer'[x] = resumer[x]
      OBVIOUS
    <3>7. /\ state'[u] = "resumed" => SuspendedIn(u, "resume")' /\ \E x \in Threads : resumer'[x] = u
          /\ state'[u] = "yielded" => SuspendedIn(u, "yield")'
          /\ state'[u] \in {"yielded", "terminated"} => u \in Coroutines
      BY <2>1, <3>2, <3>3, <3>6 DEF ThreadOK, SuspendedIn
    <3> QED
      BY <3>1, <3>4, <3>5, <3>7 DEF ThreadOK
  <2> QED
    BY <2>2, <2>3
<1>8. Cur(0)' = None /\ (curr_thread' # None => state'[curr_thread'] = "running")
  BY <1>1, <1>2 DEF Threading
<1> QED
  BY <1>6, <1>7, <1>8 DEF Threading

\* No thread is left in an executor that has its own thread back.
LEMMA NoneAbove ==
  ASSUME Typed, NEW m \in Nat, NEW h, NEW d, Threading(m, h, d), m > 0,
         Cur(m) = cstack[m].thr, NEW u \in Threads, Resumed(u)
  PROVE  h[u] \in 1 .. m - 1
<1>1. h[u] \in 1 .. m /\ Cur(h[u]) # cstack[h[u]].thr
  BY DEF Threading, Chained
<1> QED
  BY <1>1

\* The first m - 1 frames, and threads but t, after frame m on t is left.
LEMMA LeaveFrames ==
  ASSUME Typed, NEW m \in Nat, NEW h, NEW d, Threading(m, h, d),
         m = Len(cstack), m > 0, curr_thread = cstack[m].thr,
         \A i \in 1 .. m - 1 : cstack'[i] = cstack[i],
         \A i \in 0 .. m - 1 : Cur(i)' = Cur(i),
         NEW t, t = cstack[m].thr,
         state' = [state EXCEPT ![t] = IF t = Cur(m - 1) THEN "running" ELSE "inactive"],
         UNCHANGED <<contexts, resumer>>
  PROVE  \A i \in 1 .. m - 1 :
           Entered(i)' /\ Controlled(i, h)' /\ Waits(i, m - 1)' /\ Straight(i, m - 1)'
<1> SUFFICES ASSUME NEW i \in 1 .. m - 1
             PROVE  Entered(i)' /\ Controlled(i, h)' /\ Waits(i, m - 1)' /\ Straight(i, m - 1)'
  OBVIOUS
<1>1. i \in 1 .. m /\ i - 1 \in 0 .. m - 1 /\ i \in 0 .. m - 1 /\ m \in 1 .. m
  OBVIOUS
<1>2. /\ Entered(i) /\ Controlled(i, h) /\ Waits(i, m) /\ Straight(i, m) /\ Entered(m)
      /\ state \in [Threads -> States] /\ Cur(i) \in Threads
      /\ cstack[i].thr \in Threads /\ t \in Threads
  <2>1. \A j \in 1 .. m : Cur(j) \in Threads /\ cstack[j].thr \in Threads
    BY CurThread
  <2>2. Entered(i) /\ Controlled(i, h) /\ Waits(i, m) /\ Straight(i, m) /\ Entered(m)
    BY <1>1 DEF Threading
  <2>3. state \in [Threads -> States]
    BY DEF Typed
  <2> QED
    BY <1>1, <2>1, <2>2, <2>3
<1>3. state[t] = "running"
  BY <1>2, ThreadsAssumption DEF Threading
<1>4. t # Cur(m - 1) => \A j \in 1 .. m - 1 : cstack[j].thr # t
  BY <1>2 DEF Entered
<1>5. state'[cstack[i].thr] \in Active
  BY <1>2, <1>4 DEF Entered, Active
<1>6. Entered(i)'
  <2>1. cstack'[i] = cstack[i] /\ \A j \in 1 .. i - 1 : cstack'[j] = cstack[j]
    BY <1>1
  <2>2. i # 1 => i - 1 \in 1 .. m - 1 /\ cstack'[i - 1] = cstack[i - 1]
    BY <1>1
  <2>3. Cur(i - 1)' = Cur(i - 1)
    BY <1>1
  <2> QED
    BY <1>2, <1>5, <2>1, <2>2, <2>3 DEF Entered, Resumed
<1>7. Controlled(i, h)'
  <2>1. Cur(i)' = Cur(i)
    BY <1>1
  <2> QED
    BY <1>2, <2>1 DEF Controlled, Resumed
<1>8. Waits(i, m - 1)'
  <2> SUFFICES ASSUME i < m - 1, cstack[i + 1].thr # Cur(i)
               PROVE  state'[Cur(i)] = "running" /\ \A j \in i + 1 .. m - 1 : cstack[j].thr # Cur(i)
    <3>1. i < m - 1 => i + 1 \in 1 .. m - 1
      BY <1>1
    <3>2. Cur(i)' = Cur(i) /\ \A j \in i + 1 .. m - 1 : cstack'[j] = cstack[j]
      BY <1>1
    <3> QED
      BY <3>1, <3>2 DEF Waits
  <2>1. state[Cur(i)] = "running" /\ \A j \in i + 1 .. m : cstack[j].thr # Cur(i)
    BY <1>2 DEF Waits
  <2>2. Cur(i) # t
    BY <1>1, <2>1
  <2> QED
    BY <1>2, <2>1, <2>2
<1>9. Straight(i, m - 1)'
  <2> SUFFICES ASSUME NEW k \in i .. m - 1, cstack'[i].kind # "go",
                      \A l \in i + 1 .. k : cstack'[l].kind \notin Jmpbufs \cup {"go"}
               PROVE  Cur(i)' = Cur(k)'
    BY DEF Straight
  <2>1. k \in i .. m /\ k \in 0 .. m - 1 /\ cstack[i].kind # "go"
        /\ \A l \in i + 1 .. k : cstack[l].kind \notin Jmpbufs \cup {"go"}
    BY <1>1
  <2>2. Cur(i) = Cur(k)
    BY <1>2, <2>1 DEF Straight
  <2> QED
    BY <1>1, <2>1, <2>2
<1> QED
  BY <1>6, <1>7, <1>8, <1>9

\* The frame in control is left, and what it saved restored.
LEMMA LeaveThreading ==
  ASSUME Typed, NEW m \in Nat, NEW h, NEW d, Threading(m, h, d),
         m = Len(cstack), m > 0, curr_thread = cstack[m].thr,
         Len(cstack') = m - 1, \A i \in 1 .. m - 1 : cstack'[i] = cstack[i],
         curr_thread' = cstack[m].curr,
         state' = [state EXCEPT ![cstack[m].thr] = cstack[m].state],
         UNCHANGED <<contexts, resumer>>,
         \A u \in Threads : u # curr_thread => callstack'[u] = callstack[u]
  PROVE  Threading(m - 1, h, d)'
<1> DEFINE t == cstack[m].thr
<1>1. /\ t \in Threads /\ Cur(m) = t /\ Cur(m - 1) = cstack[m].curr
      /\ state[t] = "running" /\ state \in [Threads -> States]
  BY FrameType, ThreadsAssumption DEF Cur, Threading, Typed
<1>2. \A i \in 0 .. m - 1 : Cur(i)' = Cur(i)
  <2>1. ASSUME NEW i \in 0 .. m - 1 PROVE Cur(i)' = Cur(i)
    <3>1. i < m - 1 => i + 1 \in 1 .. m - 1
      OBVIOUS
    <3> QED
      BY <1>1, <3>1 DEF Cur
  <2> QED
    BY <2>1
<1>3. Entered(m) /\ \A i \in 1 .. m : Controlled(i, h) /\ Waits(i, m)
  BY DEF Threading
<1>4. cstack[m].state = (IF t = Cur(m - 1) THEN "running" ELSE "inactive")
  BY <1>3 DEF Entered
<1>5. \A i \in 1 .. m - 1 :
        Entered(i)' /\ Controlled(i, h)' /\ Waits(i, m - 1)' /\ Straight(i, m - 1)'
  <2> HIDE DEF t
  <2>1. t = cstack[m].thr
    BY DEF t
  <2>2. state' = [state EXCEPT ![t] = IF t = Cur(m - 1) THEN "running" ELSE "inactive"]
    BY <1>4, <2>1
  <2> QED
    BY <1>2, <2>1, <2>2, LeaveFrames
<1>6. \A u \in Threads : u # t => state'[u] = state[u]
  BY <1>1
<1>7. state'[t] = (IF t = Cur(m - 1) THEN "running" ELSE "inactive")
  BY <1>1, <1>4
<1>8. t # Cur(m - 1) => ~Resumed(t) /\ \A j \in 1 .. m - 1 : cstack[j].thr # t
  BY <1>3 DEF Entered
<1>9. curr_thread' # None => state'[curr_thread'] = "running"
  <2> SUFFICES ASSUME Cur(m - 1) # None, Cur(m - 1) # t PROVE state'[Cur(m - 1)] = "running"
    BY <1>1, <1>7
  <2>1. m - 1 \in 1 .. m /\ m - 1 < m
    BY DEF Threading
  <2>2. cstack[m - 1 + 1].thr # Cur(m - 1)
    OBVIOUS
  <2>3. state[Cur(m - 1)] = "running"
    BY <1>3, <2>1, <2>2 DEF Waits
  <2>4. Cur(m - 1) \in Threads
    BY <2>1, CurThread
  <2> QED
    BY <1>6, <2>3, <2>4
<1>10. ASSUME NEW u \in Threads
       PROVE  Chained(u, m - 1, h, d)'
  <2> SUFFICES ASSUME Resumed(u) PROVE Chained(u, m - 1, h, d)'
    BY DEF Chained, Resumed
  <2>1. Chained(u, m, h, d) /\ resumer[u] \in Threads
    BY DEF Threading, Typed, Resumed
  <2>2. h[u] \in 1 .. m - 1 /\ h[u] \in 0 .. m - 1
    BY <1>1, NoneAbove
  <2>3. state'[u] \in Active /\ state'[resumer[u]] = "resumed"
    <3>1. u = t => t = Cur(m - 1)
      BY <1>8
    <3>2. resumer[u] # t
      BY <1>1, <2>1 DEF Chained
    <3> QED
      BY <1>6, <1>7, <2>1, <3>1, <3>2 DEF Chained, Active
  <2>4. cstack'[h[u]] = cstack[h[u]] /\ Cur(h[u])' = Cur(h[u])
        /\ \A j \in 1 .. h[u] : cstack'[j] = cstack[j]
    BY <1>2, <2>2
  <2> QED
    BY <2>1, <2>2, <2>3, <2>4 DEF Chained, Resumed
<1>11. ASSUME NEW u \in Threads
       PROVE  ThreadOK(u, m - 1)'
  <2>1. ThreadOK(u, m)
    BY DEF Threading
  <2>2. state'[u] = "running" =>
          u = curr_thread' \/ \E i \in 1 .. m - 1 - 1 : u = Cur(i)' /\ cstack'[i + 1].thr # Cur(i)'
    <3> SUFFICES ASSUME state'[u] = "running", u # Cur(m - 1)
                 PROVE  \E i \in 1 .. m - 1 - 1 : u = Cur(i)' /\ cstack'[i + 1].thr # Cur(i)'
      BY <1>1
    <3>1. u # t /\ state[u] = "running"
      BY <1>6, <1>7
    <3>2. PICK i \in 1 .. m - 1 : u = Cur(i) /\ cstack[i + 1].thr # Cur(i)
      BY <2>1, <3>1 DEF ThreadOK
    <3>3. i # m - 1
      BY <3>2
    <3>4. i \in 1 .. m - 1 - 1 /\ i \in 0 .. m - 1 /\ i + 1 \in 1 .. m - 1
      BY <3>3
    <3> QED
      BY <1>2, <3>2, <3>4
  <2>3. state[u] \in {"resumed", "yielded"} => u # t /\ callstack'[u] = callstack[u]
    BY <1>1
  <2>4. state'[u] \in {"resumed", "yielded", "terminated"} => state'[u] = state[u]
    BY <1>6, <1>7
  <2>5. /\ state'[u] = "resumed" => SuspendedIn(u, "resume")' /\ \E x \in Threads : resumer'[x] = u
        /\ state'[u] = "yielded" => SuspendedIn(u, "yield")'
        /\ state'[u] \in {"yielded", "terminated"} => u \in Coroutines
    BY <2>1, <2>3, <2>4 DEF ThreadOK, SuspendedIn
  <2>6. state'[u] \in Active => (\E i \in 1 .. m - 1 : cstack'[i].thr = u) \/ Resumed(u)'
    <3>1. CASE u = t
      <4> SUFFICES ASSUME t = Cur(m - 1)
                   PROVE  (\E i \in 1 .. m - 1 : cstack[i].thr = t) \/ Resumed(t)
        BY <1>7, <3>1 DEF Active, Resumed
      <4>1. m - 1 # 0
        BY <1>1, ThreadsAssumption DEF Threading
      <4>2. m - 1 \in 1 .. m /\ m - 1 \in 1 .. m - 1
        BY <4>1
      <4> QED
        BY <1>3, <4>2 DEF Controlled
    <3>2. CASE u # t
      <4>1. state'[u] \in Active => (\E i \in 1 .. m : cstack[i].thr = u) \/ Resumed(u)
        BY <1>6, <2>1, <3>2 DEF ThreadOK
      <4>2. \A i \in 1 .. m : cstack[i].thr = u => i \in 1 .. m - 1
        BY <3>2
      <4> QED
        BY <4>1, <4>2 DEF Resumed
    <3> QED
      BY <3>1, <3>2
  <2> QED
    BY <2>2, <2>5, <2>6 DEF ThreadOK
<1>12. Cur(0)' = None
  BY <1>2 DEF Threading
<1> QED
  BY <1>5, <1>9, <1>10, <1>11, <1>12 DEF Threading

\* A longjmp lands on frame j: the frames it leaves were all in control of the
\* thread that still is.
LEMMA CutThreading ==
  ASSUME Typed, NEW m \in Nat, NEW h, NEW d, Threading(m, h, d),
         m = Len(cstack), NEW j \in 1 .. m, cstack[j].kind \in Jmpbufs,
         \A k \in j .. m : Cur(k) = curr_thread,
         \A i \in j + 1 .. m : cstack[i].kind \notin Protected,
         \A i \in j + 1 .. m - 1 : cstack[i].kind # "go",
         Len(cstack') = j, \A i \in 1 .. j : cstack'[i] = cstack[i],
         UNCHANGED <<contexts, state, resumer, curr_thread, callstack>>
  PROVE  Threading(j, h, d)'
<1> USE DEF Resumed
<1>1. j \in Nat /\ j # 0 /\ \A i \in 0 .. j : i \in 0 .. m
  OBVIOUS
<1>2. \A i \in 0 .. j : Cur(i)' = Cur(i)
  <2>1. ASSUME NEW i \in 0 .. j PROVE Cur(i)' = Cur(i)
    <3>1. CASE i = j
      <4>1. j \in j .. m
        OBVIOUS
      <4> QED
        BY <3>1, <4>1 DEF Cur
    <3>2. CASE i < j
      <4>1. i + 1 \in 1 .. j /\ i < Len(cstack)
        BY <3>2
      <4> QED
        BY <3>2, <4>1 DEF Cur
    <3> QED
      BY <3>1, <3>2
  <2> QED
    BY <2>1
<1>3. \A i \in 1 .. m : Entered(i) /\ Controlled(i, h) /\ Waits(i, m) /\ Straight(i, m)
  BY DEF Threading
<1>4. \A i \in j + 1 .. m : cstack[i].thr = curr_thread
  <2> SUFFICES ASSUME NEW i \in j + 1 .. m PROVE cstack[i].thr = curr_thread
    OBVIOUS
  <2>1. i \in 1 .. m /\ i # 1 /\ i - 1 \in j .. m /\ i - 1 \in 1 .. m
    OBVIOUS
  <2>2. cstack[i - 1].kind # "go"
    <3>1. CASE i - 1 = j
      BY <3>1 DEF Jmpbufs, Protected
    <3>2. CASE i - 1 # j
      <4>1. i - 1 \in j + 1 .. m - 1
        BY <2>1, <3>2
      <4> QED
        BY <4>1
    <3> QED
      BY <3>1, <3>2
  <2>3. Cur(i - 1) = curr_thread /\ cstack[i].kind \notin Protected
    BY <2>1
  <2> QED
    BY <1>3, <2>1, <2>2, <2>3 DEF Entered
<1>5. \A i \in 1 .. j :
        Entered(i)' /\ Controlled(i, h)' /\ Waits(i, j)' /\ Straight(i, j)'
  <2> SUFFICES ASSUME NEW i \in 1 .. j
               PROVE  Entered(i)' /\ Controlled(i, h)' /\ Waits(i, j)' /\ Straight(i, j)'
    OBVIOUS
  <2>1. i \in 1 .. m /\ i \in 0 .. j /\ i - 1 \in 0 .. j
    OBVIOUS
  <2>2. Entered(i) /\ Controlled(i, h) /\ Waits(i, m) /\ Straight(i, m)
    BY <1>3, <2>1
  <2>3. Cur(i)' = Cur(i) /\ Cur(i - 1)' = Cur(i - 1) /\ cstack'[i] = cstack[i]
    BY <1>2, <2>1
  <2>4. Entered(i)'
    <3>1. \A k \in 1 .. i - 1 : cstack'[k] = cstack[k]
      OBVIOUS
    <3>2. i # 1 => i - 1 \in 1 .. j /\ cstack'[i - 1] = cstack[i - 1]
      OBVIOUS
    <3> QED
      BY <2>2, <2>3, <3>1, <3>2 DEF Entered
  <2>5. Controlled(i, h)'
    BY <2>2, <2>3 DEF Controlled
  <2>6. Waits(i, j)'
    <3>1. i < j => i + 1 \in 1 .. j /\ cstack'[i + 1] = cstack[i + 1] /\ i < m
      OBVIOUS
    <3>2. \A k \in i + 1 .. j : k \in i + 1 .. m /\ cstack'[k] = cstack[k]
      OBVIOUS
    <3> QED
      BY <2>2, <2>3, <3>1, <3>2 DEF Waits
  <2>7. Straight(i, j)'
    <3> SUFFICES ASSUME NEW k \in i .. j, cstack'[i].kind # "go",
                        \A l \in i + 1 .. k : cstack'[l].kind \notin Jmpbufs \cup {"go"}
                 PROVE  Cur(i)' = Cur(k)'
      BY DEF Straight
    <3>1. k \in i .. m /\ k \in 0 .. j /\ cstack[i].kind # "go"
          /\ \A l \in i + 1 .. k : cstack[l].kind \notin Jmpbufs \cup {"go"}
      BY <2>1
    <3>2. Cur(i) = Cur(k)
      BY <2>2, <3>1 DEF Straight
    <3> QED
      BY <1>2, <2>3, <3>1, <3>2
  <2> QED
    BY <2>4, <2>5, <2>6, <2>7
<1>6. ASSUME NEW u \in Threads
      PROVE  Chained(u, j, h, d)' /\ ThreadOK(u, j)'
  <2>1. Chained(u, m, h, d) /\ ThreadOK(u, m)
    BY DEF Threading
  <2>2. Chained(u, j, h, d)'
    <3> SUFFICES ASSUME Resumed(u) PROVE Chained(u, j, h, d)'
      BY DEF Chained
    <3>1. h[u] \in 1 .. m /\ Cur(h[u]) # cstack[h[u]].thr
      BY <2>1 DEF Chained
    <3>2. h[u] \in 1 .. j
      <4>1. h[u] \notin j + 1 .. m
        <5> SUFFICES ASSUME h[u] \in j + 1 .. m PROVE FALSE
          OBVIOUS
        <5>1. h[u] \in j .. m
          OBVIOUS
        <5> QED
          BY <1>4, <3>1, <5>1
      <4> QED
        BY <3>1, <4>1
    <3>3. h[u] \in 0 .. j /\ cstack'[h[u]] = cstack[h[u]] /\ Cur(h[u])' = Cur(h[u])
      BY <1>2, <3>2
    <3>4. \A k \in 1 .. h[u] : cstack'[k] = cstack[k]
      BY <3>2
    <3> QED
      BY <2>1, <3>2, <3>3, <3>4 DEF Chained
  <2>3. ThreadOK(u, j)'
    <3>1. state[u] = "running" =>
            u = curr_thread \/ \E i \in 1 .. j - 1 : u = Cur(i)' /\ cstack'[i + 1].thr # Cur(i)'
      <4> SUFFICES ASSUME NEW i \in 1 .. m - 1, u = Cur(i), cstack[i + 1].thr # Cur(i)
                   PROVE  i \in 1 .. j - 1 /\ u = Cur(i)' /\ cstack'[i + 1].thr # Cur(i)'
        BY <2>1 DEF ThreadOK
      <4>1. i < j
        <5> SUFFICES ASSUME i >= j PROVE FALSE
          OBVIOUS
        <5>1. i \in j .. m /\ i + 1 \in j + 1 .. m
          OBVIOUS
        <5> QED
          BY <1>4, <5>1
      <4>2. i \in 0 .. j /\ i + 1 \in 1 .. j
        BY <4>1
      <4> QED
        BY <1>2, <4>1, <4>2
    <3>2. state[u] \in Active => (\E i \in 1 .. j : cstack'[i].thr = u) \/ Resumed(u)
      <4> SUFFICES ASSUME NEW i \in 1 .. m, cstack[i].thr = u, ~Resumed(u)
                   PROVE  \E k \in 1 .. j : cstack'[k].thr = u
        BY <2>1 DEF ThreadOK
      <4>1. CASE i \in 1 .. j
        BY <4>1
      <4>2. CASE i \in j + 1 .. m
        <5>1. u = curr_thread /\ j \in j .. m
          BY <1>4, <4>2
        <5>2. Controlled(j, h) /\ Cur(j) = u
          BY <1>3, <5>1
        <5>3. cstack[j].thr = u /\ j \in 1 .. j
          BY <5>2 DEF Controlled
        <5> QED
          BY <5>3
      <4> QED
        BY <4>1, <4>2
    <3> QED
      BY <2>1, <3>1, <3>2 DEF ThreadOK, SuspendedIn
  <2> QED
    BY <2>2, <2>3
<1>7. Cur(0)' = None /\ (curr_thread # None => state[curr_thread] = "running")
  <2>1. 0 \in 0 .. j
    OBVIOUS
  <2> QED
    BY <1>2, <2>1 DEF Threading
<1> QED
  BY <1>5, <1>6, <1>7 DEF Threading

\* The executor of the top frame hands control to r, which its thread resumes.
LEMMA ToThreading ==
  ASSUME Typed, NEW m \in Nat, NEW h, NEW d, Threading(m, h, d),
         m = Len(cstack), m > 0, cstack[m].kind = "ecma",
         NEW t, t = curr_thread, NEW r \in Coroutines, SwitchTo(t, r),
         state[r] \notin Active, SuspendedIn(t, "resume"),
         UNCHANGED <<contexts, cstack>>,
         \A u \in Threads : u # r => callstack'[u] = callstack[u]
  PROVE  \E hh, dd : Threading(m, hh, dd)'
<1> USE DEF Resumed
<1>1. /\ t \in Threads /\ r \in Threads /\ Cur(m) = t /\ m \in 1 .. m
      /\ cstack[m].thr \in Threads /\ state[t] = "running" /\ t # r
  <2>1. m \in 1 .. m /\ Cur(m) = t
    BY DEF Cur
  <2>2. t \in Threads /\ cstack[m].thr \in Threads
    BY <2>1, CurThread
  <2>3. state[t] = "running"
    BY <2>2, ThreadsAssumption DEF Threading
  <2> QED
    BY <2>1, <2>2, <2>3 DEF Threads, Active
<1>2. /\ resumer' = [resumer EXCEPT ![r] = t] /\ curr_thread' = r
      /\ state' = [state EXCEPT ![r] = "running", ![t] = "resumed"]
      /\ resumer \in [Threads -> Threads \cup {None}] /\ state \in [Threads -> States]
  BY DEF SwitchTo, Typed
<1>3. ~Resumed(r) /\ \A u \in Threads : Resumed(u) => resumer[u] \in Threads
  BY <1>1, <1>2 DEF Threading, Chained
<1>4. /\ \A i \in 0 .. m - 1 : Cur(i)' = Cur(i)
      /\ Cur(m)' = r
  BY <1>2 DEF Cur
<1>5. \A i \in 1 .. m :
        /\ Entered(i) /\ Controlled(i, h) /\ Waits(i, m) /\ Straight(i, m)
        /\ Cur(i) \in Threads /\ cstack[i].thr \in Threads /\ cstack[i].thr # r
  <2>1. \A i \in 1 .. m : Cur(i) \in Threads /\ cstack[i].thr \in Threads
    BY CurThread
  <2> QED
    BY <2>1 DEF Threading, Entered
<1>6. \A u \in Threads : Chained(u, m, h, d) /\ ThreadOK(u, m)
  BY DEF Threading
<1>7. PICK hh : \A u \in Threads : hh[u] = IF u = r THEN m ELSE h[u]
  <2> DEFINE hh == [u \in Threads |-> IF u = r THEN m ELSE h[u]]
  <2>1. \A u \in Threads : hh[u] = IF u = r THEN m ELSE h[u]
    OBVIOUS
  <2> QED
    BY <2>1
<1>8. PICK dd : \A u \in Threads :
        dd[u] = IF u = r THEN (IF t = cstack[m].thr THEN 1 ELSE d[t] + 1) ELSE d[u]
  <2> DEFINE dd == [u \in Threads |->
        IF u = r THEN (IF t = cstack[m].thr THEN 1 ELSE d[t] + 1) ELSE d[u]]
  <2>1. \A u \in Threads :
          dd[u] = IF u = r THEN (IF t = cstack[m].thr THEN 1 ELSE d[t] + 1) ELSE d[u]
    OBVIOUS
  <2> QED
    BY <2>1
<1>9. t # cstack[m].thr => Resumed(t) /\ h[t] = m /\ d[t] \in Nat \ {0}
  BY <1>1, <1>5, <1>6 DEF Controlled, Chained
<1>10. /\ dd[r] \in Nat \ {0}
       /\ \A u \in Threads : Resumed(u) /\ h[u] = m => d[u] \in Nat /\ d[u] < dd[r]
  <2>1. dd[r] = IF t = cstack[m].thr THEN 1 ELSE d[t] + 1
    BY <1>1, <1>8
  <2>2. dd[r] \in Nat \ {0}
    BY <1>9, <2>1
  <2>3. ASSUME NEW u \in Threads, Resumed(u), h[u] = m
        PROVE  d[u] \in Nat /\ d[u] < dd[r]
    <3>1. t # cstack[m].thr /\ d[u] \in Nat /\ d[u] <= d[t]
      BY <1>1, <1>6, <2>3 DEF Chained
    <3> QED
      BY <1>9, <2>1, <3>1
  <2> QED
    BY <2>2, <2>3
<1>11. ASSUME NEW i \in 1 .. m
       PROVE  Entered(i)' /\ Controlled(i, hh)' /\ Waits(i, m)' /\ Straight(i, m)'
  <2>1. i - 1 \in 0 .. m - 1 /\ (i < m => i \in 0 .. m - 1 /\ i + 1 \in 1 .. m)
    OBVIOUS
  <2>2. Entered(i)'
    <3>1. Entered(i) /\ Cur(i - 1)' = Cur(i - 1) /\ cstack[i].thr # r /\ cstack[i].thr \in Threads
      BY <1>4, <1>5, <2>1
    <3>2. state'[cstack[i].thr] \in Active /\ resumer'[cstack[i].thr] = resumer[cstack[i].thr]
      BY <1>2, <3>1 DEF Entered, Active
    <3> QED
      BY <3>1, <3>2 DEF Entered
  <2>3. Controlled(i, hh)'
    <3>1. CASE i = m
      <4>1. r # None
        BY <1>1, ThreadsAssumption
      <4>2. hh[r] = m /\ resumer'[r] # None
        BY <1>1, <1>2, <1>7, ThreadsAssumption
      <4> QED
        BY <1>4, <3>1, <4>1, <4>2 DEF Controlled
    <3>2. CASE i < m
      <4>1. Cur(i)' = Cur(i) /\ Cur(i) \in Threads /\ Controlled(i, h)
        BY <1>4, <1>5, <2>1, <3>2
      <4>2. Resumed(Cur(i)) => resumer'[Cur(i)] = resumer[Cur(i)] /\ hh[Cur(i)] = h[Cur(i)]
        BY <1>2, <1>3, <1>7, <4>1
      <4> QED
        BY <4>1, <4>2 DEF Controlled
    <3> QED
      BY <3>1, <3>2
  <2>4. Waits(i, m)'
    <3> SUFFICES ASSUME i < m, cstack[i + 1].thr # Cur(i)
                 PROVE  state'[Cur(i)] = "running" /\ \A j \in i + 1 .. m : cstack[j].thr # Cur(i)
      BY <1>4, <2>1 DEF Waits
    <3>1. state[Cur(i)] = "running" /\ \A j \in i + 1 .. m : cstack[j].thr # Cur(i)
      BY <1>5 DEF Waits
    <3>2. Cur(i) # t /\ Cur(i) \in Threads
      BY <1>1, <1>5, WaitsAlone
    <3> QED
      BY <1>2, <3>1, <3>2 DEF Active
  <2>5. Straight(i, m)'
    <3> SUFFICES ASSUME NEW k \in i .. m, cstack[i].kind # "go",
                        \A l \in i + 1 .. k : cstack[l].kind \notin Jmpbufs \cup {"go"}
                 PROVE  Cur(i)' = Cur(k)'
      BY DEF Straight
    <3>1. CASE k = m
      <4>1. i = m
        <5> SUFFICES ASSUME i # m PROVE FALSE
          OBVIOUS
        <5>1. m \in i + 1 .. k
          BY <3>1
        <5> QED
          BY <5>1 DEF Jmpbufs
      <4> QED
        BY <3>1, <4>1
    <3>2. CASE k < m
      <4>1. k \in 0 .. m - 1 /\ i \in 0 .. m - 1
        BY <3>2
      <4>2. Cur(i) = Cur(k)
        BY <1>5 DEF Straight
      <4> QED
        BY <1>4, <4>1, <4>2
    <3> QED
      BY <3>1, <3>2
  <2> QED
    BY <2>2, <2>3, <2>4, <2>5
<1>12. ASSUME NEW u \in Threads
       PROVE  Chained(u, m, hh, dd)'
  <2>1. CASE u = r
    <3>1. /\ resumer'[r] = t /\ state'[r] \in Active /\ state'[t] = "resumed"
          /\ hh[r] = m /\ Cur(m)' = r
      BY <1>1, <1>2, <1>4, <1>7 DEF Active
    <3>2. \A v \in Threads : resumer'[v] = t => v = r
      <4> SUFFICES ASSUME NEW v \in Threads, resumer[v] = t PROVE FALSE
        BY <1>2
      <4>1. Resumed(v)
        BY <1>1, ThreadsAssumption
      <4> QED
        BY <1>1, <1>6, <4>1 DEF Chained
    <3>3. \A j \in 1 .. m : cstack[j].thr # r
      BY <1>5
    <3>4. \/ t = cstack[m].thr /\ dd[r] = 1
          \/ resumer'[t] # None /\ hh[t] = m /\ dd[r] = dd[t] + 1
      BY <1>1, <1>2, <1>7, <1>8, <1>9
    <3>5. r # cstack[m].thr
      BY <1>5
    <3>6. \A v \in Threads : resumer'[v] # None /\ hh[v] = m /\ dd[v] = dd[r] => v = r
      <4> SUFFICES ASSUME NEW v \in Threads, v # r, resumer'[v] # None, hh[v] = m, dd[v] = dd[r]
                   PROVE  FALSE
        OBVIOUS
      <4>1. Resumed(v) /\ h[v] = m /\ d[v] = dd[r]
        BY <1>2, <1>7, <1>8
      <4> QED
        BY <1>10, <4>1
    <3>7. dd[r] <= dd[r]
      BY <1>10
    <3> QED
      BY <1>1, <1>10, <2>1, <3>1, <3>2, <3>3, <3>4, <3>5, <3>6, <3>7 DEF Chained
  <2>2. CASE u # r /\ ~Resumed(u)
    <3>1. ~Resumed(u)'
      BY <1>2, <2>2
    <3> QED
      BY <3>1 DEF Chained
  <2>3. CASE u # r /\ Resumed(u)
    <3> DEFINE q == resumer[u]
    <3>1. Chained(u, m, h, d) /\ q \in Threads
      BY <1>3, <1>6, <2>3
    <3>2. /\ u \in Coroutines /\ state[u] \in Active /\ state[q] = "resumed"
          /\ \A v \in Threads : resumer[v] = q => v = u
          /\ h[u] \in 1 .. m /\ cstack[h[u]].kind = "ecma"
          /\ \A j \in 1 .. h[u] : cstack[j].thr # u
          /\ d[u] \in Nat \ {0}
          /\ (q = cstack[h[u]].thr /\ d[u] = 1) \/ (Resumed(q) /\ h[q] = h[u] /\ d[u] = d[q] + 1)
          /\ Cur(h[u]) # cstack[h[u]].thr /\ d[u] <= d[Cur(h[u])]
          /\ \A v \in Threads : Resumed(v) /\ h[v] = h[u] /\ d[v] = d[u] => v = u
      BY <2>3, <3>1 DEF Chained
    <3>3. q # t /\ q # r
      BY <1>1, <3>2 DEF Active
    <3>4. /\ resumer'[u] = q /\ state'[u] \in Active /\ state'[q] = "resumed"
          /\ hh[u] = h[u] /\ dd[u] = d[u] /\ hh[q] = h[q] /\ dd[q] = d[q]
          /\ resumer'[q] = resumer[q]
      BY <1>1, <1>2, <1>7, <1>8, <2>3, <3>1, <3>2, <3>3 DEF Active
    <3>5. \A v \in Threads : resumer'[v] = q => v = u
      BY <1>2, <3>2, <3>3
    <3>6. /\ Cur(h[u])' # cstack[h[u]].thr
          /\ d[u] <= dd[Cur(h[u])']
      <4>1. CASE h[u] = m
        BY <1>4, <1>5, <1>10, <2>3, <3>2, <4>1
      <4>2. CASE h[u] # m
        <5>1. h[u] \in 0 .. m - 1
          BY <3>2, <4>2
        <5>2. Cur(h[u])' = Cur(h[u]) /\ Cur(h[u]) \in Threads
          BY <1>4, <1>5, <3>2, <5>1
        <5>3. Cur(h[u]) # r
          BY <1>3, <1>5, <3>2 DEF Controlled
        <5>4. dd[Cur(h[u])] = d[Cur(h[u])]
          BY <1>8, <5>2, <5>3
        <5> QED
          BY <3>2, <5>2, <5>4
      <4> QED
        BY <4>1, <4>2
    <3>7. \A v \in Threads : resumer'[v] # None /\ hh[v] = h[u] /\ dd[v] = d[u] => v = u
      <4> SUFFICES ASSUME NEW v \in Threads, resumer'[v] # None, hh[v] = h[u], dd[v] = d[u]
                   PROVE  v = u
        OBVIOUS
      <4>1. CASE v = r
        <5>1. h[u] = m /\ d[u] = dd[r]
          BY <1>7, <4>1
        <5> QED
          BY <1>10, <2>3, <5>1
      <4>2. CASE v # r
        <5>1. Resumed(v) /\ h[v] = h[u] /\ d[v] = d[u]
          BY <1>2, <1>7, <1>8, <4>2
        <5> QED
          BY <3>2, <5>1
      <4> QED
        BY <4>1, <4>2
    <3> HIDE DEF q
    <3> QED
      BY <3>2, <3>4, <3>5, <3>6, <3>7 DEF Chained
  <2> QED
    BY <2>1, <2>2, <2>3
<1>13. ASSUME NEW u \in Threads
       PROVE  ThreadOK(u, m)'
  <2>1. ThreadOK(u, m)
    BY <1>6
  <2>2. CASE u = r
    <3>1. state'[r] = "running" /\ resumer'[r] # None /\ curr_thread' = r
      BY <1>1, <1>2, ThreadsAssumption
    <3> QED
      BY <2>2, <3>1 DEF ThreadOK
  <2>3. CASE u = t
    <3>1. state'[t] = "resumed" /\ resumer'[r] = t /\ SuspendedIn(t, "resume")'
      BY <1>1, <1>2 DEF SuspendedIn
    <3>2. (\E i \in 1 .. m : cstack[i].thr = t) \/ resumer'[t] # None
      BY <1>1, <1>2, <2>1, <2>3 DEF ThreadOK, Active
    <3> QED
      BY <1>1, <2>3, <3>1, <3>2 DEF ThreadOK
  <2>4. CASE u # r /\ u # t
    <3>1. state'[u] = state[u] /\ resumer'[u] = resumer[u] /\ callstack'[u] = callstack[u]
      BY <1>1, <1>2, <2>4
    <3>2. \A i \in 1 .. m - 1 : Cur(i)' = Cur(i)
      BY <1>4
    <3>3. \A v \in Threads : resumer[v] = u => resumer'[v] = u
      BY <1>1, <1>2, <1>3, ThreadsAssumption
    <3> QED
      BY <2>1, <2>4, <3>1, <3>2, <3>3 DEF ThreadOK, SuspendedIn
  <2> QED
    BY <2>2, <2>3, <2>4
<1>14. Cur(0)' = None /\ state'[curr_thread'] = "running"
  BY <1>1, <1>2, <1>4 DEF Threading
<1>15. Threading(m, hh, dd)'
  BY <1>11, <1>12, <1>13, <1>14 DEF Threading
<1> QED
  BY <1>15

\* The thread in control of an executor, which is not the executor's own, gives
\* control back to the thread that has resumed it.
LEMMA BackThreading ==
  ASSUME Typed, NEW m \in Nat, NEW h, NEW d, Threading(m, h, d),
         m = Len(cstack), m > 0, NEW t, t = curr_thread, t # cstack[m].thr,
         NEW left \in {"yielded", "terminated"}, SwitchBack(t, left),
         left = "yielded" => SuspendedIn(t, "yield")',
         UNCHANGED <<contexts, cstack>>,
         \A u \in Threads : u # t /\ u # resumer[t] => callstack'[u] = callstack[u]
  PROVE  Threading(m, h, d)'
<1> USE DEF Resumed
<1>1. /\ t \in Threads /\ Cur(m) = t /\ m \in 1 .. m
      /\ cstack[m].thr \in Threads /\ state[t] = "running"
  <2>1. m \in 1 .. m /\ Cur(m) = t
    BY DEF Cur
  <2>2. t \in Threads /\ cstack[m].thr \in Threads
    BY <2>1, CurThread
  <2>3. state[t] = "running"
    BY <2>2, ThreadsAssumption DEF Threading
  <2> QED
    BY <2>1, <2>2, <2>3
<1>2. \A i \in 1 .. m :
        /\ Entered(i) /\ Controlled(i, h) /\ Waits(i, m) /\ Straight(i, m)
        /\ Cur(i) \in Threads /\ cstack[i].thr \in Threads
  <2>1. \A i \in 1 .. m : Cur(i) \in Threads /\ cstack[i].thr \in Threads
    BY CurThread
  <2> QED
    BY <2>1 DEF Threading
<1>3. \A u \in Threads : Chained(u, m, h, d) /\ ThreadOK(u, m)
  BY DEF Threading
<1>4. Resumed(t) /\ h[t] = m /\ cstack[m].kind = "ecma"
  BY <1>1, <1>2 DEF Controlled
<1>5. PICK r : r = resumer[t]
  OBVIOUS
<1>6. /\ r \in Threads /\ r # t /\ t \in Coroutines /\ state[r] = "resumed"
      /\ \A u \in Threads : resumer[u] = r => u = t
      /\ \A j \in 1 .. m : cstack[j].thr # t
      /\ d[t] \in Nat \ {0}
      /\ (r = cstack[m].thr /\ d[t] = 1) \/ (Resumed(r) /\ h[r] = m /\ d[t] = d[r] + 1)
      /\ \A v \in Threads : Resumed(v) /\ h[v] = m /\ d[v] = d[t] => v = t
  <2>1. Chained(t, m, h, d)
    BY <1>1, <1>3
  <2>2. r \in Threads
    BY <1>1, <1>4, <1>5 DEF Typed
  <2> QED
    BY <1>1, <1>4, <1>5, <2>1, <2>2 DEF Chained
<1>7. /\ resumer' = [resumer EXCEPT ![t] = None] /\ curr_thread' = r
      /\ state' = [state EXCEPT ![t] = left, ![r] = "running"]
      /\ resumer \in [Threads -> Threads \cup {None}] /\ state \in [Threads -> States]
  BY <1>5 DEF SwitchBack, Typed
<1>8. /\ \A i \in 0 .. m - 1 : Cur(i)' = Cur(i)
      /\ Cur(m)' = r
  BY <1>7 DEF Cur
<1>9. ASSUME NEW i \in 1 .. m
       PROVE  Entered(i)' /\ Controlled(i, h)' /\ Waits(i, m)' /\ Straight(i, m)'
  <2>1. i - 1 \in 0 .. m - 1 /\ (i < m => i \in 0 .. m - 1 /\ i + 1 \in 1 .. m)
    OBVIOUS
  <2>2. Entered(i)'
    <3>1. Entered(i) /\ Cur(i - 1)' = Cur(i - 1) /\ cstack[i].thr # t /\ cstack[i].thr \in Threads
      BY <1>2, <1>6, <1>8, <2>1
    <3>2. state'[cstack[i].thr] \in Active /\ resumer'[cstack[i].thr] = resumer[cstack[i].thr]
      BY <1>7, <3>1 DEF Entered, Active
    <3> QED
      BY <3>1, <3>2 DEF Entered
  <2>3. Controlled(i, h)'
    <3>1. CASE i = m
      <4>1. r = cstack[m].thr \/ (r # None /\ resumer'[r] # None /\ h[r] = m)
        BY <1>6, <1>7, ThreadsAssumption
      <4> QED
        BY <1>4, <1>8, <3>1, <4>1 DEF Controlled
    <3>2. CASE i < m
      <4>1. Cur(i)' = Cur(i) /\ Cur(i) \in Threads /\ Controlled(i, h)
        BY <1>2, <1>8, <2>1, <3>2
      <4>2. h[Cur(i)] = i => resumer'[Cur(i)] = resumer[Cur(i)]
        BY <1>4, <1>7, <3>2, <4>1
      <4> QED
        BY <4>1, <4>2 DEF Controlled
    <3> QED
      BY <3>1, <3>2
  <2>4. Waits(i, m)'
    <3> SUFFICES ASSUME i < m, cstack[i + 1].thr # Cur(i)
                 PROVE  state'[Cur(i)] = "running" /\ \A j \in i + 1 .. m : cstack[j].thr # Cur(i)
      BY <1>8, <2>1 DEF Waits
    <3>1. state[Cur(i)] = "running" /\ \A j \in i + 1 .. m : cstack[j].thr # Cur(i)
      BY <1>2 DEF Waits
    <3>2. Cur(i) # t /\ Cur(i) \in Threads
      BY <1>1, <1>2, WaitsAlone
    <3> QED
      BY <1>7, <3>1, <3>2
  <2>5. Straight(i, m)'
    <3> SUFFICES ASSUME NEW k \in i .. m, cstack[i].kind # "go",
                        \A l \in i + 1 .. k : cstack[l].kind \notin Jmpbufs \cup {"go"}
                 PROVE  Cur(i)' = Cur(k)'
      BY DEF Straight
    <3>1. CASE k = m
      <4>1. i = m
        <5> SUFFICES ASSUME i # m PROVE FALSE
          OBVIOUS
        <5>1. m \in i + 1 .. k
          BY <3>1
        <5> QED
          BY <1>4, <5>1 DEF Jmpbufs
      <4> QED
        BY <3>1, <4>1
    <3>2. CASE k < m
      <4>1. k \in 0 .. m - 1 /\ i \in 0 .. m - 1
        BY <3>2
      <4>2. Cur(i) = Cur(k)
        BY <1>2 DEF Straight
      <4> QED
        BY <1>8, <4>1, <4>2
    <3> QED
      BY <3>1, <3>2
  <2> QED
    BY <2>2, <2>3, <2>4, <2>5
<1>10. ASSUME NEW u \in Threads
       PROVE  Chained(u, m, h, d)'
  <2> SUFFICES ASSUME Resumed(u)' PROVE Chained(u, m, h, d)'
    BY DEF Chained
  <2>1. u # t /\ Resumed(u) /\ resumer'[u] = resumer[u]
    BY <1>1, <1>7
  <2>2. PICK q : q = resumer[u]
    OBVIOUS
  <2>3. q \in Threads /\ Chained(u, m, h, d)
    BY <1>3, <2>1, <2>2 DEF Typed
  <2>4. /\ u \in Coroutines /\ state[u] \in Active /\ state[q] = "resumed"
        /\ \A v \in Threads : resumer[v] = q => v = u
        /\ h[u] \in 1 .. m /\ cstack[h[u]].kind = "ecma"
        /\ \A j \in 1 .. h[u] : cstack[j].thr # u
        /\ d[u] \in Nat \ {0}
        /\ (q = cstack[h[u]].thr /\ d[u] = 1) \/ (Resumed(q) /\ h[q] = h[u] /\ d[u] = d[q] + 1)
        /\ Cur(h[u]) # cstack[h[u]].thr /\ d[u] <= d[Cur(h[u])]
        /\ \A v \in Threads : Resumed(v) /\ h[v] = h[u] /\ d[v] = d[u] => v = u
    BY <2>1, <2>2, <2>3 DEF Chained
  <2>5. q # t /\ q # r
    BY <1>1, <1>6, <2>1, <2>2, <2>4
  <2>6. /\ state'[u] \in Active /\ state'[q] = "resumed" /\ resumer'[q] = resumer[q]
    BY <1>6, <1>7, <2>1, <2>3, <2>4, <2>5 DEF Active
  <2>7. \A v \in Threads : resumer'[v] = q => v = u
    BY <1>7, <2>3, <2>4, ThreadsAssumption
  <2>8. Cur(h[u])' # cstack[h[u]].thr /\ d[u] <= d[Cur(h[u])']
    <3>1. CASE h[u] # m
      <4>1. h[u] \in 0 .. m - 1
        BY <2>4, <3>1
      <4> QED
        BY <1>8, <2>4, <4>1
    <3>2. CASE h[u] = m
      <4>1. d[u] <= d[t] /\ d[u] # d[t]
        BY <1>1, <1>6, <2>1, <2>4, <3>2
      <4>2. r # cstack[m].thr
        <5>1. d[t] # 1
          BY <1>6, <2>4, <4>1
        <5>2. Resumed(r) /\ h[r] = m
          BY <1>6, <5>1
        <5>3. \A j \in 1 .. m : cstack[j].thr # r
          BY <1>3, <1>6, <5>2 DEF Chained
        <5> QED
          BY <1>1, <5>3
      <4>3. d[t] = d[r] + 1 /\ d[r] \in Nat
        <5>1. Resumed(r) /\ h[r] = m /\ d[t] = d[r] + 1
          BY <1>6, <4>2
        <5>2. d[r] \in Nat
          BY <1>3, <1>6, <5>1 DEF Chained
        <5> QED
          BY <5>1, <5>2
      <4>4. d[u] <= d[r]
        BY <1>6, <2>4, <4>1, <4>3
      <4> QED
        BY <1>8, <3>2, <4>2, <4>4
    <3> QED
      BY <3>1, <3>2
  <2>9. \A v \in Threads : resumer'[v] # None => Resumed(v)
    BY <1>7
  <2> QED
    BY <2>1, <2>2, <2>4, <2>6, <2>7, <2>8, <2>9 DEF Chained
<1>11. ASSUME NEW u \in Threads
       PROVE  ThreadOK(u, m)'
  <2>1. ThreadOK(u, m)
    BY <1>3
  <2>2. CASE u = t
    <3>1. state'[t] = left
      BY <1>1, <1>6, <1>7
    <3>2. left \notin Active /\ left # "running" /\ left # "resumed"
      BY DEF Active
    <3> QED
      BY <1>6, <2>2, <3>1, <3>2 DEF ThreadOK
  <2>3. CASE u = r
    <3>1. state'[r] = "running" /\ curr_thread' = r /\ resumer'[r] = resumer[r]
      BY <1>6, <1>7
    <3>2. (\E i \in 1 .. m : cstack[i].thr = r) \/ resumer[r] # None
      BY <1>6, <2>1, <2>3 DEF ThreadOK, Active
    <3> QED
      BY <2>3, <3>1, <3>2 DEF ThreadOK
  <2>4. CASE u # r /\ u # t
    <3>1. state'[u] = state[u] /\ resumer'[u] = resumer[u] /\ callstack'[u] = callstack[u]
      BY <1>5, <1>7, <2>4
    <3>2. \A i \in 1 .. m - 1 : Cur(i)' = Cur(i)
      BY <1>8
    <3>3. \A v \in Threads : resumer[v] = u => resumer'[v] = u
      BY <1>5, <1>7, <2>4
    <3> QED
      BY <2>1, <2>4, <3>1, <3>2, <3>3 DEF ThreadOK, SuspendedIn
  <2> QED
    BY <2>2, <2>3, <2>4
<1>12. Cur(0)' = None /\ state'[curr_thread'] = "running"
  BY <1>1, <1>6, <1>7, <1>8 DEF Threading
<1> QED
  BY <1>9, <1>10, <1>11, <1>12 DEF Threading

-----------------------------------------------------------------------------
(* Callstacks, and what their activations count for. *)

\* The activations of s that prevent a yield.
Preventing(s) == {i \in 1 .. Len(s) : s[i].prevent}

\* What preventcount has beyond them.
Extra(t) == preventcount[t] - Cardinality(Preventing(callstack[t]))

\* The C functions are called where yields are prevented.
NativesPrevent(s) == \A i \in 1 .. Len(s) : s[i].kind # "ecma" => s[i].prevent

LEMMA PreventingType ==
  ASSUME NEW s \in Seq(Acts)
  PROVE  IsFiniteSet(Preventing(s)) /\ Cardinality(Preventing(s)) \in Nat /\ Len(s) \in Nat
<1>1. Len(s) \in Nat
  OBVIOUS
<1>2. IsFiniteSet(1 .. Len(s)) /\ Preventing(s) \in SUBSET (1 .. Len(s))
  BY <1>1, FS_Interval DEF Preventing
<1>3. IsFiniteSet(Preventing(s))
  BY <1>2, FS_Subset
<1> QED
  BY <1>1, <1>3, FS_CardinalityType

LEMMA CutActs ==
  ASSUME NEW s \in Seq(Acts), NEW n \in 0 .. Len(s)
  PROVE  /\ SubSeq(s, 1, n) \in Seq(Acts) /\ Len(SubSeq(s, 1, n)) = n
         /\ \A i \in 1 .. n : SubSeq(s, 1, n)[i] = s[i]
         /\ NativesPrevent(s) => NativesPrevent(SubSeq(s, 1, n))
         /\ Cardinality(Preventing(SubSeq(s, 1, n))) =
              Cardinality(Preventing(s)) - Cardinality({i \in n + 1 .. Len(s) : s[i].prevent})
<1> DEFINE c == SubSeq(s, 1, n)
           R == {i \in n + 1 .. Len(s) : s[i].prevent}
<1>1. n \in Nat /\ Len(s) \in Nat /\ n <= Len(s) /\ \A i \in 1 .. Len(s) : s[i] \in Acts
  OBVIOUS
<1>2. c \in Seq(Acts) /\ Len(c) = n
  <2>1. \A i \in 1 .. n : s[i] \in Acts
    BY <1>1
  <2>2. c \in Seq(Acts) /\ Len(c) = IF 1 <= n THEN n - 1 + 1 ELSE 0
    BY <1>1, <2>1, SubSeqProperties
  <2> QED
    BY <1>1, <2>2
<1>3. \A i \in 1 .. n : c[i] = s[i]
  BY <1>1
<1>4. NativesPrevent(s) => NativesPrevent(c)
  <2> HIDE DEF c
  <2>1. \A i \in 1 .. n : i \in 1 .. Len(s)
    BY <1>1
  <2> QED
    BY <1>2, <1>3, <2>1 DEF NativesPrevent
<1>5. Preventing(s) = Preventing(c) \cup R /\ Preventing(c) \cap R = {}
  <2> HIDE DEF c
  <2>1. Preventing(c) = {i \in 1 .. n : s[i].prevent}
    BY <1>2, <1>3 DEF Preventing
  <2> QED
    BY <1>1, <2>1 DEF Preventing
<1>6. IsFiniteSet(Preventing(c)) /\ IsFiniteSet(R)
  <2> HIDE DEF c
  <2>1. R \in SUBSET Preventing(s)
    BY <1>5
  <2> QED
    BY <1>2, <2>1, PreventingType, FS_Subset
<1>7. Cardinality(Preventing(s)) = Cardinality(Preventing(c)) + Cardinality(R)
  <2> HIDE DEF c, R
  <2>1. Cardinality(Preventing(c)) \in Nat /\ Cardinality(R) \in Nat
    BY <1>6, FS_CardinalityType
  <2>2. Cardinality(Preventing(c) \cup R) =
          Cardinality(Preventing(c)) + Cardinality(R) - Cardinality(Preventing(c) \cap R)
    BY <1>6, FS_Union
  <2>3. Cardinality(Preventing(c) \cap R) = 0
    BY <1>5, FS_EmptySet
  <2> QED
    BY <1>5, <2>1, <2>2, <2>3
<1>8. Cardinality(Preventing(c)) \in Nat /\ Cardinality(R) \in Nat
  BY <1>6, FS_CardinalityType
<1> QED
  BY <1>2, <1>3, <1>4, <1>7, <1>8

LEMMA AppendActs ==
  ASSUME NEW s \in Seq(Acts), NEW a \in Acts
  PROVE  /\ Append(s, a) \in Seq(Acts) /\ Len(Append(s, a)) = Len(s) + 1
         /\ \A i \in 1 .. Len(s) : Append(s, a)[i] = s[i]
         /\ Append(s, a)[Len(s) + 1] = a
         /\ NativesPrevent(s) /\ (a.kind # "ecma" => a.prevent) => NativesPrevent(Append(s, a))
         /\ Cardinality(Preventing(Append(s, a))) =
              Cardinality(Preventing(s)) + IF a.prevent THEN 1 ELSE 0
<1> DEFINE c == Append(s, a)
<1>1. Len(s) \in Nat
  OBVIOUS
<1>2. c \in Seq(Acts) /\ Len(c) = Len(s) + 1 /\ c[Len(s) + 1] = a
      /\ \A i \in 1 .. Len(s) : c[i] = s[i]
  BY <1>1, AppendProperties
<1> HIDE DEF c
<1>3. \A i \in 1 .. Len(s) + 1 : i \in 1 .. Len(s) \/ i = Len(s) + 1
  BY <1>1
<1>4. NativesPrevent(s) /\ (a.kind # "ecma" => a.prevent) => NativesPrevent(c)
  BY <1>1, <1>2, <1>3 DEF NativesPrevent
<1>5. IsFiniteSet(Preventing(s)) /\ Cardinality(Preventing(s)) \in Nat
  BY PreventingType
<1>6. CASE a.prevent
  <2>1. Preventing(c) = Preventing(s) \cup {Len(s) + 1} /\ Len(s) + 1 \notin Preventing(s)
    BY <1>1, <1>2, <1>3, <1>6 DEF Preventing
  <2>2. Cardinality(Preventing(c)) = Cardinality(Preventing(s)) + 1
    BY <1>5, <2>1, FS_AddElement
  <2> QED
    BY <1>2, <1>4, <1>6, <2>2 DEF c
<1>7. CASE ~a.prevent
  <2>1. Preventing(c) = Preventing(s)
    BY <1>1, <1>2, <1>3, <1>7 DEF Preventing
  <2> QED
    BY <1>2, <1>4, <1>5, <1>7, <2>1 DEF c
<1> QED
  BY <1>6, <1>7

\* Activations that only differ in what they handle count the same.
LEMMA SameActs ==
  ASSUME NEW s \in Seq(Acts), NEW c \in Seq(Acts), Len(c) = Len(s),
         \A i \in 1 .. Len(s) : c[i].kind = s[i].kind /\ c[i].prevent = s[i].prevent
  PROVE  Preventing(c) = Preventing(s) /\ (NativesPrevent(s) => NativesPrevent(c))
BY DEF Preventing, NativesPrevent

-----------------------------------------------------------------------------
(* The invariant of the threads. *)

Live == mode \notin {"fatal", "undefined"}

\* Where frame f is to find the callstack when it goes on.
Floor(f) == IF f.kind \in Protected THEN f.top ELSE f.top + 1

\* The top frame's thread has not been entered yet.
Pending ==
  /\ Len(cstack) > 0 /\ Top.kind \in Protected /\ curr_thread = Top.curr
  /\ state[Top.thr] = Top.state /\ Len(callstack[Top.thr]) = Top.top
  /\ Top.thr # curr_thread => Top.thr \in contexts \cup {HeapThread}

\* m frames have been entered.
Placed(m) ==
  /\ m = Len(cstack) \/ (m = Len(cstack) - 1 /\ Pending)
  /\ mode \in {"run", "handle"} => m = Len(cstack)
  /\ mode = "enter" => m = Len(cstack) - 1

Threaded == \E m \in Nat : Placed(m) /\ \E h, d : Threading(m, h, d)

\* The activations that frame i goes back to are on the callstack, and those of
\* the frames above it on the same thread are above them.
Stands(i) ==
  LET f == cstack[i] IN
  /\ Floor(f) <= Len(callstack[f.thr])
  /\ f.kind \notin Protected =>
       callstack[f.thr][f.top + 1].kind = f.kind /\ callstack[f.thr][f.top + 1].prevent
  /\ \A j \in i + 1 .. Len(cstack) : cstack[j].thr = f.thr => Floor(f) <= cstack[j].top

\* Above the activation of a native function nothing is left while it runs.
Exact(i) ==
  LET f == cstack[i] IN
  f.kind # "ecma" =>
    IF i < Len(cstack) /\ cstack[i + 1].thr = f.thr
    THEN cstack[i + 1].top = Floor(f)
    ELSE (i = Len(cstack) /\ mode = "landed") \/ Len(callstack[f.thr]) = Floor(f)

Standing == \A i \in 1 .. Len(cstack) : Stands(i) /\ Exact(i)

Counts == \A t \in Threads : Extra(t) = Cardinality(SafeFrames(t))

Natives == \A t \in Threads : NativesPrevent(callstack[t])

\* A jump to resume or to yield is still possible where it lands, with n frames.
JumpReady(l, n) ==
  /\ l.type = "resume" =>
       /\ l.thr \in Coroutines /\ SuspendedIn(curr_thread, "resume")
       /\ state[l.thr] = "yielded" \/ (state[l.thr] = "inactive" /\ callstack[l.thr] = <<>>)
       /\ n < CallRecursionLimit
  /\ l.type = "yield" =>
       SuspendedIn(curr_thread, "yield") /\ Resumed(curr_thread) /\ preventcount[curr_thread] = 1
JumpOK == mode \in {"landed", "handle"} => JumpReady(lj, Len(cstack))

Limits ==
  /\ Len(cstack) <= CallRecursionLimit + 1
  /\ mode # "enter" /\ (mode = "landed" => Top.kind = "ecma") => Len(cstack) <= CallRecursionLimit

\* In the shared heap heap_thread is used by finalizers alone.
HeapOK ==
  HeapThread \notin contexts =>
    \A i \in 1 .. Len(cstack) : cstack[i].thr = HeapThread => \E j \in 1 .. i : IsFin(j)

LiveInv == Threaded /\ Standing /\ Natives /\ Counts /\ JumpOK /\ Limits /\ HeapOK

\* Frame i's part of its callstack is kept by a step.
Keeps(i) ==
  LET f == cstack[i] IN
  /\ Floor(f) <= Len(callstack'[f.thr])
  /\ \A k \in 1 .. Floor(f) :
       /\ callstack'[f.thr][k].kind = callstack[f.thr][k].kind
       /\ callstack'[f.thr][k].prevent = callstack[f.thr][k].prevent

LEMMA FloorType ==
  ASSUME Typed, NEW i \in 1 .. Len(cstack)
  PROVE  /\ Floor(cstack[i]) \in Nat
         /\ cstack[i].kind \notin Protected => cstack[i].top + 1 \in 1 .. Floor(cstack[i])
         /\ cstack[i].top <= Floor(cstack[i])
         /\ callstack[cstack[i].thr] \in Seq(Acts)
<1>1. cstack[i].top \in Nat /\ cstack[i].thr \in Threads
  BY FrameType
<1> QED
  BY <1>1 DEF Floor, Typed

LEMMA KeepsStands ==
  ASSUME Typed, Standing, NEW n \in 0 .. Len(cstack), Len(cstack') = n,
         \A i \in 1 .. n : cstack'[i] = cstack[i] /\ Keeps(i)
  PROVE  \A i \in 1 .. n : Stands(i)'
<1> SUFFICES ASSUME NEW i \in 1 .. n PROVE Stands(i)'
  OBVIOUS
<1>1. i \in 1 .. Len(cstack) /\ Len(cstack) \in Nat
  BY DEF Typed
<1>2. Stands(i) /\ Keeps(i) /\ cstack'[i] = cstack[i]
  BY <1>1 DEF Standing
<1>3. \A j \in i + 1 .. n : cstack'[j] = cstack[j] /\ j \in i + 1 .. Len(cstack)
  BY <1>1
<1>4. cstack[i].kind \notin Protected => cstack[i].top + 1 \in 1 .. Floor(cstack[i])
  BY <1>1, FloorType
<1>5. PICK f : f = cstack[i]
  OBVIOUS
<1>6. Floor(f) <= Len(callstack'[f.thr])
  BY <1>2, <1>5 DEF Keeps
<1>7. f.kind \notin Protected =>
        callstack'[f.thr][f.top + 1].kind = f.kind /\ callstack'[f.thr][f.top + 1].prevent
  BY <1>2, <1>4, <1>5 DEF Keeps, Stands
<1>8. \A j \in i + 1 .. n : cstack'[j].thr = f.thr => Floor(f) <= cstack'[j].top
  BY <1>2, <1>3, <1>5 DEF Stands
<1>9. cstack'[i] = f
  BY <1>2, <1>5
<1> QED
  BY <1>6, <1>7, <1>8, <1>9 DEF Stands

LEMMA SameKeeps ==
  ASSUME NEW i \in 1 .. Len(cstack), Stands(i),
         callstack'[cstack[i].thr] = callstack[cstack[i].thr]
  PROVE  Keeps(i)
BY DEF Stands, Keeps

\* A call adds to the callstack of its thread above all floors.
LEMMA AppendKeeps ==
  ASSUME Typed, NEW i \in 1 .. Len(cstack), Stands(i), NEW a \in Acts,
         callstack'[cstack[i].thr] = Append(callstack[cstack[i].thr], a)
  PROVE  Keeps(i)
<1>1. callstack[cstack[i].thr] \in Seq(Acts) /\ Floor(cstack[i]) \in Nat
  BY FloorType
<1>2. Floor(cstack[i]) <= Len(callstack[cstack[i].thr]) /\ Len(callstack[cstack[i].thr]) \in Nat
  BY <1>1 DEF Stands
<1>3. /\ Len(callstack'[cstack[i].thr]) = Len(callstack[cstack[i].thr]) + 1
      /\ \A k \in 1 .. Len(callstack[cstack[i].thr]) :
           callstack'[cstack[i].thr][k] = callstack[cstack[i].thr][k]
  BY <1>1, AppendActs
<1> QED
  BY <1>1, <1>2, <1>3 DEF Keeps

\* The callstack of i's thread has been cut, not below i's floor.
LEMMA CutKeeps ==
  ASSUME Typed, NEW i \in 1 .. Len(cstack), NEW n \in 0 .. Len(callstack[cstack[i].thr]),
         Floor(cstack[i]) <= n,
         callstack'[cstack[i].thr] = SubSeq(callstack[cstack[i].thr], 1, n)
  PROVE  Keeps(i)
<1>1. callstack[cstack[i].thr] \in Seq(Acts) /\ Floor(cstack[i]) \in Nat
  BY FloorType
<1>2. n \in Nat
  BY <1>1
<1>3. Len(callstack'[cstack[i].thr]) = n
      /\ \A k \in 1 .. n : callstack'[cstack[i].thr][k] = callstack[cstack[i].thr][k]
  BY <1>1, CutActs
<1> QED
  BY <1>1, <1>2, <1>3 DEF Keeps

\* The thread in control, of running code and of an executor that handles a jump.
LEMMA Control ==
  ASSUME Typed, IInv, Threaded, mode \in {"run", "handle"}, Len(cstack) > 0
  PROVE  /\ \E h, d : Threading(Len(cstack), h, d)
         /\ Len(cstack) \in Nat /\ Frame = Top
         /\ curr_thread \in Threads /\ state[curr_thread] = "running"
         /\ Top.thr \in Threads /\ Top.top \in Nat
         /\ curr_thread # Top.thr =>
              /\ Top.kind = "ecma" /\ curr_thread \in Coroutines /\ Resumed(curr_thread)
              /\ \A i \in 1 .. Len(cstack) : cstack[i].thr # curr_thread
<1>1. Len(cstack) \in Nat /\ Frame = Top
  BY StackLen DEF IInv, Frame, Top, Last
<1>2. PICK h, d : Threading(Len(cstack), h, d)
  BY DEF Threaded, Placed
<1> DEFINE n == Len(cstack)
<1>3. n \in 1 .. n /\ Cur(n) = curr_thread
  BY <1>1 DEF Cur
<1>4. Cur(n) \in Threads /\ Top.thr \in Threads /\ Top.top \in Nat
  <2> HIDE DEF n
  <2>1. n \in Nat /\ n = Len(cstack) /\ Threading(n, h, d)
    BY <1>1, <1>2 DEF n
  <2> QED
    BY <1>3, <2>1, CurThread, FrameType DEF Top
<1>5. state[curr_thread] = "running"
  BY <1>2, <1>3, <1>4, ThreadsAssumption DEF Threading
<1>6. Controlled(n, h) /\ Chained(curr_thread, n, h, d)
  BY <1>2, <1>3, <1>4 DEF Threading
<1> QED
  BY <1>1, <1>2, <1>3, <1>4, <1>5, <1>6 DEF Controlled, Chained, Top

\* Functions whose frames are below an executor's, or below another thread's,
\* wait, and their threads do not change.
LEMMA Waiting ==
  ASSUME Typed, IInv, Threaded, mode \in {"run", "handle"}, Len(cstack) > 0,
         NEW i \in 1 .. Len(cstack), i < Len(cstack), cstack[i].kind # "ecma",
         cstack[i + 1].thr # cstack[i].thr
  PROVE  /\ cstack[i].thr # curr_thread /\ state[cstack[i].thr] = "running"
         /\ \A j \in i + 1 .. Len(cstack) : cstack[j].thr # cstack[i].thr
<1>1. Len(cstack) \in Nat
  BY Control
<1>2. PICK n \in Nat : n = Len(cstack)
  BY <1>1
<1>3. PICK h, d : Threading(n, h, d)
  BY <1>2, Control
<1>4. i \in 1 .. n /\ i < n
  BY <1>2
<1>5. Controlled(i, h) /\ Waits(i, n)
  BY <1>3, <1>4 DEF Threading
<1>6. Cur(i) = cstack[i].thr
  BY <1>5 DEF Controlled
<1>7. Cur(n) # Cur(i)
  BY <1>2, <1>3, <1>4, <1>6, WaitsAlone
<1>8. Cur(n) = curr_thread
  BY <1>2 DEF Cur
<1> QED
  BY <1>2, <1>4, <1>5, <1>6, <1>7, <1>8 DEF Waits

\* An activation that the executor was not entered with may go.
LEMMA Room ==
  ASSUME Typed, IInv, Threaded, Standing, mode \in {"run", "handle"}, Len(cstack) > 0,
         Top.kind = "ecma", ~IsEntry(curr_thread),
         NEW i \in 1 .. Len(cstack), cstack[i].thr = curr_thread
  PROVE  Floor(cstack[i]) + 1 <= Len(callstack[curr_thread])
<1>1. /\ Len(cstack) \in Nat /\ Frame = Top /\ Len(cstack) \in 1 .. Len(cstack)
      /\ Top.thr = curr_thread /\ Top.top \in Nat
  BY Control
<1>2. Floor(Top) = Top.top + 1
  BY <1>1 DEF Floor, Protected
<1>3. Floor(Top) <= Len(callstack[curr_thread])
  BY <1>1 DEF Standing, Stands, Top
<1>4. Floor(cstack[i]) \in Nat /\ Len(callstack[curr_thread]) \in Nat
  BY FloorType
<1>5. i < Len(cstack) => Floor(cstack[i]) <= Top.top
  BY <1>1 DEF Standing, Stands, Top
<1> QED
  BY <1>1, <1>2, <1>3, <1>4, <1>5 DEF IsEntry, Top

\* Neither is the activation that has called resume the one an executor was
\* entered with.
LEMMA RoomInResumer ==
  ASSUME Typed, IInv, Threaded, Standing, mode \in {"run", "handle"}, Len(cstack) > 0,
         curr_thread # Top.thr, NEW r, r = resumer[curr_thread]
  PROVE  /\ r \in Threads /\ r # curr_thread
         /\ state[r] = "resumed" /\ SuspendedIn(r, "resume")
         /\ \A i \in 1 .. Len(cstack) :
              cstack[i].thr = r => Floor(cstack[i]) + 1 <= Len(callstack[r])
<1>1. /\ Len(cstack) \in Nat /\ Len(cstack) \in 1 .. Len(cstack) /\ curr_thread \in Threads
      /\ Top.kind = "ecma" /\ Resumed(curr_thread) /\ Top.top \in Nat
      /\ state[curr_thread] = "running"
  BY Control
<1>2. PICK n \in Nat : n = Len(cstack)
  BY <1>1
<1>3. PICK h, d : Threading(n, h, d)
  BY <1>2, Control
<1>4. r \in Threads
  BY <1>1 DEF Resumed, Typed
<1>5. Chained(curr_thread, n, h, d) /\ Controlled(n, h) /\ Cur(n) = curr_thread
  BY <1>1, <1>2, <1>3 DEF Threading, Cur
<1>6. h[curr_thread] = n
  BY <1>2, <1>5 DEF Controlled, Top
<1>7. state[r] = "resumed" /\ r # curr_thread
      /\ (r = Top.thr \/ (Resumed(r) /\ h[r] = n))
  BY <1>1, <1>2, <1>5, <1>6 DEF Chained, Top
<1>8. SuspendedIn(r, "resume")
  BY <1>3, <1>4, <1>7 DEF Threading, ThreadOK
<1>9. callstack[r] \in Seq(Acts) /\ Len(callstack[r]) \in Nat
  BY <1>4 DEF Typed
<1>10. ASSUME NEW i \in 1 .. Len(cstack), cstack[i].thr = r
       PROVE  Floor(cstack[i]) + 1 <= Len(callstack[r])
  <2>1. r = Top.thr
    <3>1. Resumed(r) /\ h[r] = n => \A j \in 1 .. n : cstack[j].thr # r
      BY <1>3, <1>4 DEF Threading, Chained
    <3> QED
      BY <1>2, <1>7, <1>10, <3>1
  <2>2. Floor(Top) = Top.top + 1
    BY <1>1 DEF Floor, Protected
  <2>3. Floor(Top) <= Len(callstack[r]) /\ callstack[r][Top.top + 1].kind = "ecma"
    BY <1>1, <2>1 DEF Standing, Stands, Top, Protected
  <2>4. Top.top + 1 # Len(callstack[r])
    BY <1>8, <2>3 DEF SuspendedIn
  <2>5. Floor(cstack[i]) \in Nat
    BY FloorType
  <2>6. i < Len(cstack) => Floor(cstack[i]) <= Top.top
    BY <1>1, <1>10, <2>1 DEF Standing, Stands, Top
  <2> QED
    BY <1>1, <1>9, <2>2, <2>3, <2>4, <2>5, <2>6 DEF Top
<1> QED
  BY <1>4, <1>7, <1>8, <1>10

\* SafeFrames over the frames by number.
LEMMA SafeFramesAre ==
  ASSUME IsStack, NEW t
  PROVE  SafeFrames(t) = {i \in 1 .. Len(cstack) : cstack[i].kind \in Protected /\ cstack[i].thr = t}
BY StackLen DEF SafeFrames

\* What the preventcounts count stays when neither they nor what they count change.
LEMMA CountsKept ==
  ASSUME Counts, \A t \in Threads : Extra(t)' = Extra(t) /\ SafeFrames(t)' = SafeFrames(t)
  PROVE  Counts'
BY DEF Counts

\* A step of an executor that leaves the C stack as it is.
LEMMA ExecutorStep ==
  ASSUME Typed, IInv, LiveInv, mode \in {"run", "handle"}, Len(cstack) > 0, Top.kind = "ecma",
         UNCHANGED <<contexts, cstack>>, mode' \in {"run", "handle"},
         mode' = "handle" => lj'.type \notin {"resume", "yield"},
         \E h, d : Threading(Len(cstack), h, d)',
         Natives', \A t \in Threads : Extra(t)' = Extra(t),
         \A i \in 1 .. Len(cstack) : Keeps(i),
         \A t \in Threads : t # curr_thread /\ state[t] = "running" => callstack'[t] = callstack[t]
  PROVE  LiveInv'
<1>1. IsStack /\ Len(cstack) \in Nat
  BY StackLen DEF IInv
<1>2. Threaded'
  <2>1. Placed(Len(cstack))'
    BY DEF Placed
  <2>2. PICK n \in Nat : n = Len(cstack)
    BY <1>1
  <2>3. \E h, d : Threading(n, h, d)'
    BY <2>2
  <2> QED
    BY <2>1, <2>2, <2>3 DEF Threaded
<1>3. \A i \in 1 .. Len(cstack) : Stands(i)'
  BY <1>1, KeepsStands DEF LiveInv
<1>4. \A i \in 1 .. Len(cstack) : Exact(i)'
  <2> SUFFICES ASSUME NEW i \in 1 .. Len(cstack), cstack[i].kind # "ecma"
               PROVE  Exact(i)'
    BY DEF Exact
  <2>1. i < Len(cstack)
    BY <1>1 DEF Top
  <2>2. Exact(i) /\ cstack[i].thr \in Threads
    BY FrameType DEF LiveInv, Standing
  <2>3. CASE cstack[i + 1].thr = cstack[i].thr
    BY <2>1, <2>2, <2>3 DEF Exact, Floor
  <2>4. CASE cstack[i + 1].thr # cstack[i].thr
    <3>1. cstack[i].thr # curr_thread /\ state[cstack[i].thr] = "running"
      BY <2>1, <2>4, Waiting DEF LiveInv
    <3>2. callstack'[cstack[i].thr] = callstack[cstack[i].thr]
      BY <2>2, <3>1
    <3> QED
      BY <2>1, <2>2, <2>4, <3>2 DEF Exact, Floor
  <2> QED
    BY <2>3, <2>4
<1>5. Standing'
  BY <1>3, <1>4 DEF Standing
<1>6. Counts'
  BY CountsKept DEF LiveInv, SafeFrames
<1>7. JumpOK'
  BY DEF JumpOK, JumpReady
<1>8. Limits'
  BY DEF LiveInv, Limits
<1>9. HeapOK'
  BY DEF LiveInv, HeapOK, IsFin
<1> QED
  BY <1>2, <1>5, <1>6, <1>7, <1>8, <1>9 DEF LiveInv

\* Unwinding takes what it unwinds off the count.
LEMMA UnwindCounts ==
  ASSUME Typed, NEW t \in Threads, NEW n \in 0 .. Len(callstack[t]), NEW more \in Int,
         Unwind(t, n, more)
  PROVE  /\ callstack' \in [Threads -> Seq(Acts)] /\ preventcount' \in [Threads -> Int]
         /\ callstack'[t] = SubSeq(callstack[t], 1, n) /\ Len(callstack'[t]) = n
         /\ \A u \in Threads : u # t =>
              callstack'[u] = callstack[u] /\ preventcount'[u] = preventcount[u]
         /\ \A u \in Threads : Extra(u)' = Extra(u) - (IF u = t THEN more ELSE 0)
         /\ Natives => Natives'
<1>1. callstack \in [Threads -> Seq(Acts)] /\ preventcount \in [Threads -> Int]
      /\ callstack[t] \in Seq(Acts)
  BY DEF Typed
<1>2. PICK R : R = Prevents(t, n)
  OBVIOUS
<1>3. /\ SubSeq(callstack[t], 1, n) \in Seq(Acts) /\ Len(SubSeq(callstack[t], 1, n)) = n
      /\ NativesPrevent(callstack[t]) => NativesPrevent(SubSeq(callstack[t], 1, n))
      /\ Cardinality(Preventing(SubSeq(callstack[t], 1, n))) =
           Cardinality(Preventing(callstack[t])) - R
  BY <1>1, <1>2, CutActs DEF Prevents
<1>4. /\ Cardinality(Preventing(callstack[t])) \in Nat
      /\ Cardinality(Preventing(SubSeq(callstack[t], 1, n))) \in Nat
  BY <1>1, <1>3, PreventingType
<1>5. R \in Int
  <2>1. IsFiniteSet({i \in n + 1 .. Len(callstack[t]) : callstack[t][i].prevent})
    <3>1. IsFiniteSet(Preventing(callstack[t])) /\ n \in Nat
      BY <1>1, PreventingType
    <3>2. {i \in n + 1 .. Len(callstack[t]) : callstack[t][i].prevent} \in SUBSET Preventing(callstack[t])
      BY <3>1 DEF Preventing
    <3> QED
      BY <3>1, <3>2, FS_Subset
  <2> QED
    BY <1>2, <2>1, FS_CardinalityType DEF Prevents
<1>6. /\ callstack' = [callstack EXCEPT ![t] = SubSeq(callstack[t], 1, n)]
      /\ preventcount' = [preventcount EXCEPT ![t] = preventcount[t] - more - R]
  BY <1>2 DEF Unwind
<1>7. callstack'[t] = SubSeq(callstack[t], 1, n) /\ preventcount'[t] = preventcount[t] - more - R
      /\ \A u \in Threads : u # t =>
           callstack'[u] = callstack[u] /\ preventcount'[u] = preventcount[u]
  BY <1>1, <1>6
<1>8. preventcount' \in [Threads -> Int]
  BY <1>1, <1>5, <1>6
<1>9. callstack' \in [Threads -> Seq(Acts)]
  BY <1>1, <1>3, <1>6
<1>10. ASSUME NEW u \in Threads PROVE Extra(u)' = Extra(u) - (IF u = t THEN more ELSE 0)
  <2>1. CASE u = t
    <3>1. Extra(t)' = preventcount[t] - more - R - (Cardinality(Preventing(callstack[t])) - R)
      BY <1>3, <1>7 DEF Extra
    <3>2. preventcount[t] \in Int
      BY <1>1
    <3> QED
      BY <1>4, <1>5, <2>1, <3>1, <3>2 DEF Extra
  <2>2. CASE u # t
    <3>1. Cardinality(Preventing(callstack[u])) \in Nat /\ preventcount[u] \in Int
      BY <1>1, PreventingType
    <3> QED
      BY <1>7, <2>2, <3>1 DEF Extra
  <2> QED
    BY <2>1, <2>2
<1>11. Natives => Natives'
  BY <1>3, <1>7 DEF Natives
<1> QED
  BY <1>3, <1>7, <1>8, <1>9, <1>10, <1>11

\* The steps of an executor that neither switch threads nor call nor throw.
Quiet ==
  /\ UNCHANGED <<contexts, state, resumer, curr_thread, depth, cstack>>
  /\ UNCHANGED <<jump, mode>> \/ Restart

\* Only the callstack of the thread in control changes, above all floors, and
\* its count with it.
LEMMA OwnStep ==
  ASSUME Typed, IInv, LiveInv, mode \in {"run", "handle"}, Len(cstack) > 0, Top.kind = "ecma",
         Quiet, mode = "handle" => lj.type = "throw",
         NEW t, t = curr_thread,
         NEW s \in Seq(Acts), callstack' = [callstack EXCEPT ![t] = s],
         NativesPrevent(s), Extra(t)' = Extra(t),
         preventcount' \in [Threads -> Int],
         \A u \in Threads : u # t => preventcount'[u] = preventcount[u],
         \A i \in 1 .. Len(cstack) : cstack[i].thr = t => Keeps(i)
  PROVE  Typed' /\ LiveInv'
<1>1. Len(cstack) \in Nat /\ curr_thread \in Threads
  BY Control DEF LiveInv
<1>2. callstack \in [Threads -> Seq(Acts)]
  BY DEF Typed
<1>3. callstack'[t] = s
      /\ \A u \in Threads : u # t => callstack'[u] = callstack[u]
  BY <1>1, <1>2
<1>4. Natives'
  BY <1>3 DEF Natives, LiveInv
<1>5. \A u \in Threads : Extra(u)' = Extra(u)
  BY <1>3 DEF Extra
<1>6. ASSUME NEW i \in 1 .. Len(cstack) PROVE Keeps(i)
  <2>1. Stands(i) /\ cstack[i].thr \in Threads
    BY FrameType DEF LiveInv, Standing
  <2> QED
    BY <1>3, <2>1, SameKeeps
<1>7. \E h, d : Threading(Len(cstack), h, d)'
  <2>1. PICK n \in Nat : n = Len(cstack)
    BY <1>1
  <2>2. PICK h, d : Threading(n, h, d)
    BY <2>1, Control DEF LiveInv
  <2>3. \A i \in 0 .. n : Cur(i)' = Cur(i)
    BY DEF Cur, Quiet
  <2>4. Threading(n, h, d)'
    BY <1>3, <2>2, <2>3, SameThreading DEF Quiet
  <2> QED
    BY <2>1, <2>4 DEF Quiet
<1>8. mode' \in {"run", "handle"} /\ (mode' = "handle" => lj'.type = "throw")
  BY DEF Quiet, Restart, jump
<1>9. LiveInv'
  BY <1>3, <1>4, <1>5, <1>6, <1>7, <1>8, ExecutorStep DEF Quiet
<1>10. callstack' \in [Threads -> Seq(Acts)]
  BY <1>2
<1>11. Typed'
  <2>1. NoJump \in Jumps
    BY DEF NoJump, Jumps
  <2>2. lj' \in Jumps /\ jmpbuf_ptr' \in Nat
    BY <1>1, <2>1 DEF Quiet, Restart, jump, Typed
  <2> QED
    BY <1>10, <2>2 DEF Quiet, Typed
<1> QED
  BY <1>9, <1>11

\* What the executor starts from.
LEMMA InExecutor ==
  ASSUME Typed, IInv, LiveInv, In({"ecma"}) \/ Handling
  PROVE  /\ mode \in {"run", "handle"} /\ Len(cstack) > 0 /\ Top.kind = "ecma"
         /\ mode = "handle" => lj.type = "throw"
         /\ curr_thread \in Threads /\ callstack[curr_thread] \in Seq(Acts)
         /\ preventcount \in [Threads -> Int] /\ callstack \in [Threads -> Seq(Acts)]
         /\ NativesPrevent(callstack[curr_thread])
         /\ \A i \in 1 .. Len(cstack) : Stands(i)
<1>1. CASE In({"ecma"})
  <2>1. mode = "run" /\ cstack # <<>> /\ Frame.kind = "ecma"
    BY <1>1 DEF In
  <2>2. Len(cstack) > 0 /\ Frame = Top
    BY <2>1, InControl
  <2>3. curr_thread \in Threads
    BY <2>1, <2>2, Control DEF LiveInv
  <2> QED
    BY <2>1, <2>2, <2>3 DEF Typed, LiveInv, Natives, Standing
<1>2. CASE Handling
  <2>1. mode = "handle" /\ lj.type = "throw"
    BY <1>2 DEF Handling
  <2>2. Len(cstack) > 0 /\ Top.kind = "ecma"
    BY <2>1 DEF IInv, ModeOK, HandleOK
  <2>3. curr_thread \in Threads
    BY <2>1, <2>2, Control DEF LiveInv
  <2> QED
    BY <2>1, <2>2, <2>3 DEF Typed, LiveInv, Natives, Standing
<1> QED
  BY <1>1, <1>2

LEMMA EcmaCallLive ==
  ASSUME Typed, IInv, LiveInv, EcmaCall
  PROVE  Typed' /\ LiveInv'
<1>0. PICK t : t = curr_thread
  OBVIOUS
<1> DEFINE a == Activation("ecma", FALSE)
           s == Append(callstack[t], a)
<1>1. In({"ecma"}) /\ callstack' = [callstack EXCEPT ![t] = s]
      /\ UNCHANGED preventcount /\ Quiet
  BY <1>0 DEF EcmaCall, Quiet
<1>2. /\ mode \in {"run", "handle"} /\ Len(cstack) > 0 /\ Top.kind = "ecma"
      /\ mode = "handle" => lj.type = "throw"
      /\ t \in Threads /\ callstack[t] \in Seq(Acts)
      /\ preventcount \in [Threads -> Int] /\ callstack \in [Threads -> Seq(Acts)]
      /\ NativesPrevent(callstack[t])
      /\ \A i \in 1 .. Len(cstack) : Stands(i)
  BY <1>0, <1>1, InExecutor
<1>3. a \in Acts /\ a.kind = "ecma" /\ a.prevent = FALSE
  BY DEF Activation, Acts, Functions
<1>4. /\ s \in Seq(Acts) /\ Len(s) = Len(callstack[t]) + 1 /\ NativesPrevent(s)
      /\ \A i \in 1 .. Len(callstack[t]) : s[i] = callstack[t][i]
      /\ Cardinality(Preventing(s)) = Cardinality(Preventing(callstack[t]))
  <2>1. Cardinality(Preventing(callstack[t])) \in Nat
    BY <1>2, PreventingType
  <2> HIDE DEF a
  <2> QED
    BY <1>2, <1>3, <2>1, AppendActs
<1>5. callstack'[t] = s
  BY <1>1, <1>2
<1>6. Extra(t)' = Extra(t)
  BY <1>1, <1>4, <1>5 DEF Extra
<1>7. ASSUME NEW i \in 1 .. Len(cstack), cstack[i].thr = t PROVE Keeps(i)
  <2>1. Stands(i)
    BY <1>2
  <2> HIDE DEF a
  <2> QED
    BY <1>3, <1>5, <1>7, <2>1, AppendKeeps
<1> HIDE DEF s
<1> QED
  BY <1>0, <1>1, <1>2, <1>4, <1>6, <1>7, OwnStep

\* The handlers of the top activation are switched on or off.
LEMMA EnabledLive ==
  ASSUME Typed, IInv, LiveInv, In({"ecma"}) \/ Handling, Quiet, UNCHANGED preventcount,
         NEW hs, SetEnabled(curr_thread, hs),
         callstack[curr_thread] # <<>> => hs \in SUBSET {"catch", "finally"}
  PROVE  Typed' /\ LiveInv'
<1>0. PICK t : t = curr_thread
  OBVIOUS
<1>1. PICK c : c = callstack[t]
  OBVIOUS
<1>2. /\ mode \in {"run", "handle"} /\ Len(cstack) > 0 /\ Top.kind = "ecma"
      /\ mode = "handle" => lj.type = "throw"
      /\ t \in Threads /\ c \in Seq(Acts)
      /\ preventcount \in [Threads -> Int] /\ callstack \in [Threads -> Seq(Acts)]
      /\ NativesPrevent(c)
      /\ \A i \in 1 .. Len(cstack) : Stands(i)
  BY <1>0, <1>1, InExecutor
<1>3. PICK s : s = [c EXCEPT ![Len(c)].enabled = hs]
  OBVIOUS
<1>4. callstack' = [callstack EXCEPT ![t] = s]
  BY <1>0, <1>1, <1>3 DEF SetEnabled
<1>5. /\ s \in Seq(Acts) /\ Len(s) = Len(c)
      /\ \A i \in 1 .. Len(c) : s[i].kind = c[i].kind /\ s[i].prevent = c[i].prevent
  <2>1. CASE c = <<>>
    <3>1. s = c
      BY <1>3, <2>1
    <3> QED
      BY <1>2, <3>1
  <2>2. CASE c # <<>>
    <3>1. Len(c) \in 1 .. Len(c) /\ hs \in SUBSET {"catch", "finally"}
      BY <1>0, <1>1, <1>2, <2>2, EmptySeq
    <3>2. PICK e : e = [c[Len(c)] EXCEPT !.enabled = hs]
      OBVIOUS
    <3>3. c[Len(c)] \in Acts
      BY <1>2, <3>1
    <3>4. e \in Acts /\ e.kind = c[Len(c)].kind /\ e.prevent = c[Len(c)].prevent
      BY <3>1, <3>2, <3>3 DEF Acts
    <3>5. s = [c EXCEPT ![Len(c)] = e]
      BY <1>3, <3>2
    <3> QED
      BY <1>2, <3>1, <3>4, <3>5, ExceptSeq
  <2> QED
    BY <2>1, <2>2
<1>6. Preventing(s) = Preventing(c) /\ NativesPrevent(s)
  BY <1>2, <1>5, SameActs
<1>7. callstack'[t] = s
  BY <1>2, <1>4
<1>8. Extra(t)' = Extra(t)
  BY <1>1, <1>6, <1>7 DEF Extra
<1>9. ASSUME NEW i \in 1 .. Len(cstack), cstack[i].thr = t PROVE Keeps(i)
  <2>1. Stands(i) /\ Floor(cstack[i]) \in Nat /\ Len(c) \in Nat
    BY <1>2, FloorType
  <2> QED
    BY <1>1, <1>5, <1>7, <1>9, <2>1 DEF Keeps, Stands
<1> QED
  BY <1>0, <1>2, <1>4, <1>5, <1>6, <1>8, <1>9, OwnStep

LEMMA TryCatchLive ==
  ASSUME Typed, IInv, LiveInv, TryCatch
  PROVE  Typed' /\ LiveInv'
<1>1. In({"ecma"}) /\ Quiet /\ UNCHANGED preventcount
  BY DEF TryCatch, Quiet
<1>2. callstack[curr_thread] \in Seq(Acts)
  BY <1>1, InExecutor
<1>3. callstack[curr_thread] # <<>> => Act(curr_thread).enabled \in SUBSET {"catch", "finally"}
  <2> SUFFICES ASSUME callstack[curr_thread] # <<>>
               PROVE  Act(curr_thread) \in Acts
    BY DEF Acts
  <2>1. Len(callstack[curr_thread]) \in 1 .. Len(callstack[curr_thread])
    BY <1>2, EmptySeq
  <2> QED
    BY <1>2, <2>1, ElementOfSeq DEF Act, Last
<1>4. \E hs : SetEnabled(curr_thread, hs) /\
        (callstack[curr_thread] # <<>> => hs \in SUBSET {"catch", "finally"})
  <2> DEFINE now == Act(curr_thread).enabled
  <2>1. \/ \E hs \in SUBSET {"catch", "finally"} : SetEnabled(curr_thread, hs)
        \/ SetEnabled(curr_thread, {})
        \/ SetEnabled(curr_thread, now \ {"finally"})
    BY DEF TryCatch
  <2> HIDE DEF now
  <2>2. callstack[curr_thread] # <<>> => now \ {"finally"} \in SUBSET {"catch", "finally"}
    BY <1>3 DEF now
  <2> QED
    BY <2>1, <2>2
<1> QED
  BY <1>1, <1>4, EnabledLive

LEMMA EnabledType ==
  ASSUME Typed, curr_thread \in Threads, callstack[curr_thread] # <<>>
  PROVE  Act(curr_thread) \in Acts /\ Act(curr_thread).enabled \in SUBSET {"catch", "finally"}
<1>1. callstack[curr_thread] \in Seq(Acts)
  BY DEF Typed
<1>2. Len(callstack[curr_thread]) \in 1 .. Len(callstack[curr_thread])
  BY <1>1, EmptySeq
<1>3. Act(curr_thread) \in Acts
  BY <1>1, <1>2, ElementOfSeq DEF Act, Last
<1> QED
  BY <1>3 DEF Acts

LEMMA CatchLive ==
  ASSUME Typed, IInv, LiveInv, Catch \/ ReturnToFinally
  PROVE  Typed' /\ LiveInv'
<1>1. /\ In({"ecma"}) \/ Handling
      /\ Quiet /\ UNCHANGED preventcount
      /\ \/ SetEnabled(curr_thread, Act(curr_thread).enabled \ {"catch"})
         \/ SetEnabled(curr_thread, Act(curr_thread).enabled \ {"finally"})
         \/ SetEnabled(curr_thread, {})
  BY DEF Catch, ReturnToFinally, Quiet
<1>2. curr_thread \in Threads
  BY <1>1, InExecutor
<1>3. callstack[curr_thread] # <<>> => Act(curr_thread).enabled \in SUBSET {"catch", "finally"}
  BY <1>2, EnabledType
<1>4. PICK hs : SetEnabled(curr_thread, hs) /\
        (callstack[curr_thread] # <<>> => hs \in SUBSET {"catch", "finally"})
  BY <1>1, <1>3
<1> QED
  BY <1>1, <1>4, EnabledLive

LEMMA TailCallLive ==
  ASSUME Typed, IInv, LiveInv, TailCall
  PROVE  Typed' /\ LiveInv'
<1>0. PICK t : t = curr_thread
  OBVIOUS
<1>1. PICK c : c = callstack[t]
  OBVIOUS
<1>2. PICK a : a = Activation("ecma", FALSE)
  OBVIOUS
<1>3. PICK s : s = Append(Front(c), a)
  OBVIOUS
<1>4. In({"ecma"}) /\ callstack' = [callstack EXCEPT ![t] = s] /\ ~c[Len(c)].prevent
      /\ UNCHANGED preventcount /\ Quiet
  BY <1>0, <1>1, <1>2, <1>3 DEF TailCall, Quiet, Reusable, Act, Last
<1>5. /\ mode \in {"run", "handle"} /\ Len(cstack) > 0 /\ Top.kind = "ecma"
      /\ mode = "handle" => lj.type = "throw"
      /\ t \in Threads /\ c \in Seq(Acts)
      /\ preventcount \in [Threads -> Int] /\ callstack \in [Threads -> Seq(Acts)]
      /\ NativesPrevent(c)
      /\ \A i \in 1 .. Len(cstack) : Stands(i)
  BY <1>0, <1>1, <1>4, InExecutor
<1>6. a \in Acts /\ a.kind = "ecma" /\ a.prevent = FALSE
  BY <1>2 DEF Activation, Acts, Functions
<1>7. /\ s \in Seq(Acts) /\ NativesPrevent(s) /\ Len(s) >= Len(c)
      /\ \A i \in 1 .. Len(c) - 1 : s[i] = c[i]
      /\ Cardinality(Preventing(s)) = Cardinality(Preventing(c))
  <2>1. CASE c = <<>>
    <3>1. Front(c) = <<>> /\ Len(c) = 0
      BY <2>1 DEF Front
    <3>2. s = Append(c, a)
      BY <1>3, <2>1, <3>1
    <3>3. Cardinality(Preventing(c)) \in Nat
      BY <1>5, PreventingType
    <3>4. /\ s \in Seq(Acts) /\ Len(s) = Len(c) + 1 /\ NativesPrevent(s)
          /\ Cardinality(Preventing(s)) = Cardinality(Preventing(c)) + 0
      BY <1>5, <1>6, <3>2, AppendActs
    <3> QED
      BY <3>1, <3>3, <3>4
  <2>2. CASE c # <<>>
    <3>1. Len(c) \in Nat \ {0} /\ Len(c) - 1 \in 0 .. Len(c)
      BY <1>5, <2>2, EmptySeq
    <3>2. PICK f : f = Front(c)
      OBVIOUS
    <3>3. PICK m \in 0 .. Len(c) : m = Len(c) - 1
      BY <3>1
    <3>4. Cardinality({i \in m + 1 .. Len(c) : c[i].prevent}) = 0
      <4>1. {i \in m + 1 .. Len(c) : c[i].prevent} = {}
        BY <1>4, <3>1, <3>3
      <4> QED
        BY <4>1, FS_EmptySet
    <3>5. /\ f \in Seq(Acts) /\ Len(f) = Len(c) - 1 /\ NativesPrevent(f)
          /\ \A i \in 1 .. Len(c) - 1 : f[i] = c[i]
          /\ Cardinality(Preventing(f)) = Cardinality(Preventing(c)) - 0
      <4>1. f = SubSeq(c, 1, m)
        BY <3>2, <3>3 DEF Front
      <4>2. /\ f \in Seq(Acts) /\ Len(f) = m /\ NativesPrevent(f)
            /\ \A i \in 1 .. m : f[i] = c[i]
            /\ Cardinality(Preventing(f)) =
                 Cardinality(Preventing(c)) - Cardinality({i \in m + 1 .. Len(c) : c[i].prevent})
        BY <1>5, <4>1, CutActs
      <4> QED
        BY <3>3, <3>4, <4>2
    <3>6. Cardinality(Preventing(f)) \in Nat /\ Cardinality(Preventing(c)) \in Nat
      BY <1>5, <3>5, PreventingType
    <3>7. /\ s \in Seq(Acts) /\ Len(s) = Len(f) + 1 /\ NativesPrevent(s)
          /\ \A i \in 1 .. Len(f) : s[i] = f[i]
          /\ Cardinality(Preventing(s)) = Cardinality(Preventing(f)) + 0
      BY <1>3, <1>6, <3>2, <3>5, AppendActs
    <3> QED
      BY <3>1, <3>5, <3>6, <3>7
  <2> QED
    BY <2>1, <2>2
<1>8. callstack'[t] = s
  BY <1>4, <1>5
<1>9. Extra(t)' = Extra(t)
  BY <1>1, <1>4, <1>7, <1>8 DEF Extra
<1>10. ASSUME NEW i \in 1 .. Len(cstack), cstack[i].thr = t PROVE Keeps(i)
  <2>1. Stands(i) /\ Floor(cstack[i]) \in Nat /\ Len(c) \in Nat
    BY <1>5, FloorType
  <2>2. Floor(cstack[i]) <= Len(c)
    BY <1>1, <1>10, <2>1 DEF Stands
  <2>3. Len(s) \in Nat
    BY <1>7
  <2>4. CASE Floor(cstack[i]) <= Len(c) - 1
    <3>1. \A k \in 1 .. Floor(cstack[i]) : k \in 1 .. Len(c) - 1
      BY <2>1, <2>4
    <3>2. Floor(cstack[i]) <= Len(s)
      BY <1>7, <2>1, <2>3, <2>4
    <3> QED
      BY <1>1, <1>7, <1>8, <1>10, <3>1, <3>2 DEF Keeps
  <2>5. CASE Floor(cstack[i]) = Len(c)
    <3>1. cstack[i].top \in Nat
      BY FrameType
    <3>2. cstack[i].kind \in Protected
      BY <1>1, <1>4, <1>10, <2>1, <2>5, <3>1 DEF Stands, Floor
    <3>3. PICK j \in Nat : j = Len(cstack)
      BY <1>5, StackLen DEF IInv
    <3>4. t = Top.thr /\ Floor(Top) = Top.top + 1 /\ Top.top \in Nat
      <4>1. t = Top.thr
        BY <1>0, <1>5, <1>10, Control DEF LiveInv
      <4>2. Top.top \in Nat
        BY <1>5, Control DEF LiveInv
      <4> QED
        BY <1>5, <4>1, <4>2 DEF Floor, Protected
    <3>5. i < j
      BY <1>5, <3>2, <3>3 DEF Top, Protected
    <3>6. j \in i + 1 .. Len(cstack) /\ j \in 1 .. Len(cstack)
      BY <3>3, <3>5
    <3>7. Floor(cstack[i]) <= Top.top
      BY <1>10, <2>1, <3>3, <3>4, <3>6 DEF Stands, Top
    <3>8. Floor(Top) <= Len(c)
      BY <1>1, <1>5, <3>3, <3>4, <3>6 DEF Stands, Top
    <3> QED
      BY <2>1, <2>5, <3>4, <3>7, <3>8
  <2> QED
    BY <2>1, <2>2, <2>4, <2>5
<1> QED
  BY <1>0, <1>4, <1>5, <1>7, <1>9, <1>10, OwnStep

\* An activation is left within the executor.
LEMMA LeaveActivationLive ==
  ASSUME Typed, IInv, LiveInv, ReturnToCaller \/ UnwindActivation
  PROVE  Typed' /\ LiveInv'
<1>0. PICK t : t = curr_thread
  OBVIOUS
<1>1. PICK n : n = Len(callstack[t]) - 1
  OBVIOUS
<1>2. /\ In({"ecma"}) \/ Handling
      /\ Unwind(t, n, 0) /\ Quiet /\ ~IsEntry(curr_thread)
      /\ Len(callstack[t]) >= 2 \/ callstack[t] # <<>>
  BY <1>0, <1>1 DEF ReturnToCaller, UnwindActivation, Quiet
<1>3. /\ mode \in {"run", "handle"} /\ Len(cstack) > 0 /\ Top.kind = "ecma"
      /\ mode = "handle" => lj.type = "throw"
      /\ t \in Threads /\ callstack[t] \in Seq(Acts)
      /\ preventcount \in [Threads -> Int] /\ callstack \in [Threads -> Seq(Acts)]
      /\ NativesPrevent(callstack[t])
      /\ \A i \in 1 .. Len(cstack) : Stands(i)
  BY <1>0, <1>2, InExecutor
<1>4. n \in 0 .. Len(callstack[t]) /\ Len(callstack[t]) = n + 1
  BY <1>1, <1>2, <1>3, EmptySeq
<1>5. PICK s : s = SubSeq(callstack[t], 1, n)
  OBVIOUS
<1>6. /\ preventcount' \in [Threads -> Int]
      /\ callstack'[t] = s
      /\ \A u \in Threads : u # t => preventcount'[u] = preventcount[u]
      /\ Extra(t)' = Extra(t) - 0
  <2>1. 0 \in Int
    OBVIOUS
  <2>2. /\ preventcount' \in [Threads -> Int]
        /\ callstack'[t] = SubSeq(callstack[t], 1, n)
        /\ \A u \in Threads : u # t => preventcount'[u] = preventcount[u]
        /\ \A u \in Threads : Extra(u)' = Extra(u) - (IF u = t THEN 0 ELSE 0)
    BY <1>2, <1>3, <1>4, <2>1, UnwindCounts
  <2> QED
    BY <1>3, <1>5, <2>2
<1>7. s \in Seq(Acts) /\ NativesPrevent(s)
  BY <1>3, <1>4, <1>5, CutActs
<1>8. callstack' = [callstack EXCEPT ![t] = s]
  BY <1>2, <1>5 DEF Unwind
<1>9. Extra(t) \in Int
  BY <1>3, PreventingType DEF Extra
<1>10. ASSUME NEW i \in 1 .. Len(cstack), cstack[i].thr = t PROVE Keeps(i)
  <2>1. Floor(cstack[i]) + 1 <= Len(callstack[t])
    BY <1>0, <1>2, <1>3, <1>10, Room DEF LiveInv
  <2>2. Floor(cstack[i]) \in Nat
    BY FloorType
  <2>3. Floor(cstack[i]) <= n
    BY <1>4, <2>1, <2>2
  <2> QED
    BY <1>4, <1>5, <1>6, <1>10, <2>3, CutKeeps
<1>11. Extra(t)' = Extra(t)
  BY <1>6, <1>9
<1> QED
  BY <1>0, <1>2, <1>3, <1>6, <1>7, <1>8, <1>10, <1>11, OwnStep

\* The steps that switch threads.
Switch ==
  /\ UNCHANGED <<contexts, depth, cstack>>
  /\ \/ UNCHANGED <<jump, mode>>
     \/ lj' = Error /\ UNCHANGED <<pf, jmpbuf_ptr, mode>>
     \/ Restart

LEMMA SwitchTyped ==
  ASSUME Typed, Switch, state' \in [Threads -> States], callstack' \in [Threads -> Seq(Acts)],
         preventcount' \in [Threads -> Int], resumer' \in [Threads -> Threads \cup {None}],
         curr_thread' \in Threads
  PROVE  Typed'
<1>1. NoJump \in Jumps /\ Error \in Jumps
  BY DEF NoJump, Error, Jumps
<1>2. Len(cstack) \in Nat
  BY DEF Typed
<1>3. lj' \in Jumps /\ jmpbuf_ptr' \in Nat
  BY <1>1, <1>2 DEF Switch, Restart, jump, Typed
<1> QED
  BY <1>3 DEF Typed, Switch

\* Control goes back from a coroutine to the thread that has resumed it.
LEMMA BackStep ==
  ASSUME Typed, IInv, LiveInv, mode \in {"run", "handle"}, Len(cstack) > 0,
         NEW t, t = curr_thread, NEW r, r = resumer[t], t # Top.thr,
         NEW left \in {"yielded", "terminated"}, SwitchBack(t, left),
         left = "yielded" => SuspendedIn(t, "yield")', Switch,
         mode' = "handle" => lj'.type \notin {"resume", "yield"},
         callstack' \in [Threads -> Seq(Acts)], preventcount' \in [Threads -> Int],
         Natives', \A u \in Threads : Extra(u)' = Extra(u),
         \A u \in Threads : u # t /\ u # r => callstack'[u] = callstack[u],
         \A i \in 1 .. Len(cstack) : cstack[i].thr = r => Keeps(i)
  PROVE  Typed' /\ LiveInv'
<1>1. /\ Len(cstack) \in Nat /\ t \in Threads /\ state[t] = "running"
      /\ Top.kind = "ecma" /\ \A i \in 1 .. Len(cstack) : cstack[i].thr # t
  BY Control DEF LiveInv
<1>2. r \in Threads /\ r # t /\ state[r] = "resumed"
  BY RoomInResumer DEF LiveInv
<1>3. ASSUME NEW i \in 1 .. Len(cstack) PROVE Keeps(i)
  <2>1. Stands(i) /\ cstack[i].thr \in Threads
    BY FrameType DEF LiveInv, Standing
  <2> QED
    BY <1>1, <2>1, SameKeeps
<1>4. \E h, d : Threading(Len(cstack), h, d)'
  <2>1. PICK n \in Nat : n = Len(cstack)
    BY <1>1
  <2>2. PICK h, d : Threading(n, h, d)
    BY <2>1, Control DEF LiveInv
  <2>3. UNCHANGED <<contexts, cstack>>
    BY DEF Switch
  <2>4. t # cstack[n].thr /\ n > 0
    BY <2>1 DEF Top
  <2>5. Threading(n, h, d)'
    BY <2>1, <2>2, <2>3, <2>4, BackThreading
  <2> QED
    BY <2>1, <2>3, <2>5
<1>5. mode' \in {"run", "handle"} /\ UNCHANGED <<contexts, cstack>>
  BY DEF Switch, Restart
<1>6. \A u \in Threads : u # curr_thread /\ state[u] = "running" => callstack'[u] = callstack[u]
  BY <1>2
<1>7. LiveInv'
  BY <1>1, <1>3, <1>4, <1>5, <1>6, ExecutorStep
<1>8. Typed'
  <2>1. /\ state' = [state EXCEPT ![t] = left, ![r] = "running"]
        /\ resumer' = [resumer EXCEPT ![t] = None] /\ curr_thread' = r
    BY DEF SwitchBack
  <2>2. state' \in [Threads -> States] /\ resumer' \in [Threads -> Threads \cup {None}]
    BY <2>1 DEF Typed, States
  <2> QED
    BY <1>2, <2>1, <2>2, SwitchTyped
<1> QED
  BY <1>7, <1>8

LEMMA ThreadDiesLive ==
  ASSUME Typed, IInv, LiveInv, ThreadDies
  PROVE  Typed' /\ LiveInv'
<1>0. PICK t : t = curr_thread
  OBVIOUS
<1>1. PICK r : r = resumer[t]
  OBVIOUS
<1>2. /\ Handling /\ callstack[t] = <<>> /\ SwitchBack(t, "terminated") /\ Switch
      /\ UNCHANGED <<callstack, preventcount, lj>>
  BY <1>0 DEF ThreadDies, Switch, jump
<1>3. /\ mode \in {"run", "handle"} /\ Len(cstack) > 0 /\ Top.kind = "ecma" /\ lj.type = "throw"
      /\ preventcount \in [Threads -> Int] /\ callstack \in [Threads -> Seq(Acts)]
      /\ \A i \in 1 .. Len(cstack) : Stands(i)
  BY <1>2, InExecutor DEF Handling
<1>4. t # Top.thr
  <2>1. Len(cstack) \in 1 .. Len(cstack) /\ Top.top \in Nat
    BY <1>3, Control DEF LiveInv
  <2>2. Floor(Top) = Top.top + 1 /\ Floor(Top) <= Len(callstack[Top.thr])
    BY <1>3, <2>1 DEF Stands, Floor, Top, Protected
  <2>3. Len(callstack[t]) = 0
    BY <1>2
  <2> QED
    BY <2>1, <2>2, <2>3
<1>5. \A i \in 1 .. Len(cstack) : Keeps(i)
  BY <1>2, <1>3, SameKeeps
<1>6. Natives' /\ \A u \in Threads : Extra(u)' = Extra(u)
  BY <1>2 DEF LiveInv, Natives, Extra
<1>7. "terminated" \in {"yielded", "terminated"}
  OBVIOUS
<1> QED
  BY <1>0, <1>1, <1>2, <1>3, <1>4, <1>5, <1>6, <1>7, BackStep

LEMMA ReturnToResumerLive ==
  ASSUME Typed, IInv, LiveInv, ReturnToResumer
  PROVE  Typed' /\ LiveInv'
<1>0. PICK t : t = curr_thread
  OBVIOUS
<1>1. PICK r : r = resumer[t]
  OBVIOUS
<1>2. /\ In({"ecma"}) /\ ~IsEntry(t) /\ Len(callstack[t]) = 1
      /\ callstack' = [callstack EXCEPT ![t] = <<>>, ![r] = Front(@)]
      /\ preventcount' = [preventcount EXCEPT ![t] = @ - Prevents(t, 0), ![r] = @ - 1]
      /\ SwitchBack(t, "terminated") /\ Switch /\ UNCHANGED lj
  BY <1>0, <1>1 DEF ReturnToResumer, SwitchBack, Switch, jump
<1>3. /\ mode = "run" /\ Len(cstack) > 0 /\ Top.kind = "ecma"
      /\ preventcount \in [Threads -> Int] /\ callstack \in [Threads -> Seq(Acts)]
      /\ t \in Threads
      /\ \A i \in 1 .. Len(cstack) : Stands(i)
  <2>1. mode = "run"
    BY <1>2 DEF In
  <2> QED
    BY <1>0, <1>2, <2>1, InExecutor
<1>4. t # Top.thr
  <2>1. /\ Len(cstack) \in 1 .. Len(cstack) /\ Frame = Top /\ Top.thr = cstack[Len(cstack)].thr
    BY <1>3, Control DEF LiveInv, Top
  <2>2. t = Top.thr => Floor(Top) + 1 <= Len(callstack[t]) /\ Floor(Top) = Top.top + 1 /\ Top.top \in Nat
    BY <1>0, <1>2, <1>3, <2>1, Room, Control DEF LiveInv, Floor, Top, Protected
  <2> QED
    BY <1>2, <2>2
<1>5. /\ r \in Threads /\ r # t /\ SuspendedIn(r, "resume")
      /\ \A i \in 1 .. Len(cstack) : cstack[i].thr = r => Floor(cstack[i]) + 1 <= Len(callstack[r])
  BY <1>0, <1>1, <1>3, <1>4, RoomInResumer DEF LiveInv
<1>6. PICK n : n = Len(callstack[r]) - 1
  OBVIOUS
<1>7. n \in 0 .. Len(callstack[r]) /\ Len(callstack[r]) = n + 1 /\ callstack[r] \in Seq(Acts)
      /\ callstack[t] \in Seq(Acts)
  BY <1>3, <1>5, <1>6 DEF SuspendedIn
<1>8. PICK s : s = SubSeq(callstack[r], 1, n)
  OBVIOUS
<1>9. {i \in n + 1 .. Len(callstack[r]) : callstack[r][i].prevent} = {n + 1}
  <2>1. callstack[r][n + 1].kind = "resume" /\ n + 1 \in 1 .. Len(callstack[r])
    BY <1>5, <1>7 DEF SuspendedIn
  <2>2. callstack[r][n + 1].prevent
    BY <1>5, <2>1 DEF LiveInv, Natives, NativesPrevent
  <2> QED
    BY <1>7, <2>2
<1>10. /\ s \in Seq(Acts) /\ NativesPrevent(s) /\ Cardinality(Preventing(s)) \in Nat
       /\ Cardinality(Preventing(s)) = Cardinality(Preventing(callstack[r])) - 1
  <2>1. Cardinality({i \in n + 1 .. Len(callstack[r]) : callstack[r][i].prevent}) = 1
    BY <1>9, FS_Singleton
  <2>2. s \in Seq(Acts) /\ NativesPrevent(s)
        /\ Cardinality(Preventing(s)) = Cardinality(Preventing(callstack[r])) - 1
    BY <1>5, <1>7, <1>8, <2>1, CutActs DEF LiveInv, Natives
  <2> QED
    BY <2>2, PreventingType
<1>11. /\ callstack'[t] = <<>> /\ callstack'[r] = s
       /\ \A u \in Threads : u # t /\ u # r => callstack'[u] = callstack[u]
  BY <1>2, <1>3, <1>5, <1>6, <1>8 DEF Front
<1>12. callstack' \in [Threads -> Seq(Acts)]
  <2>1. <<>> \in Seq(Acts)
    BY EmptySeq
  <2> QED
    BY <1>2, <1>3, <1>10, <1>11, <2>1
<1>13. Natives'
  <2>1. NativesPrevent(<<>>)
    BY DEF NativesPrevent
  <2> QED
    BY <1>10, <1>11, <2>1 DEF LiveInv, Natives
<1>14. PICK p : p = Prevents(t, 0)
  OBVIOUS
<1>15. p = Cardinality(Preventing(callstack[t])) /\ p \in Nat
  <2>1. 0 + 1 = 1
    OBVIOUS
  <2>2. Prevents(t, 0) = Cardinality({i \in 1 .. Len(callstack[t]) : callstack[t][i].prevent})
    BY <2>1 DEF Prevents
  <2>3. Cardinality(Preventing(callstack[t])) \in Nat
    BY <1>7, PreventingType
  <2> QED
    BY <1>14, <2>2, <2>3 DEF Preventing
<1>16. /\ preventcount'[t] = preventcount[t] - p /\ preventcount'[r] = preventcount[r] - 1
       /\ \A u \in Threads : u # t /\ u # r => preventcount'[u] = preventcount[u]
       /\ preventcount' \in [Threads -> Int]
  BY <1>2, <1>3, <1>5, <1>14, <1>15
<1>17. ASSUME NEW u \in Threads PROVE Extra(u)' = Extra(u)
  <2>1. preventcount[t] \in Int /\ preventcount[r] \in Int
    BY <1>3, <1>5
  <2>2. CASE u = t
    <3>1. Preventing(<<>>) = {}
      BY DEF Preventing
    <3>2. Cardinality(Preventing(<<>>)) = 0
      BY <3>1, FS_EmptySet
    <3>3. Extra(t)' = preventcount[t] - p - 0
      BY <1>11, <1>16, <3>2 DEF Extra
    <3> QED
      BY <1>15, <2>1, <2>2, <3>3 DEF Extra
  <2>3. CASE u = r
    <3>1. Extra(r)' = preventcount[r] - 1 - Cardinality(Preventing(s))
      BY <1>11, <1>16 DEF Extra
    <3>2. Cardinality(Preventing(callstack[r])) \in Nat
      BY <1>7, PreventingType
    <3> QED
      BY <1>10, <2>1, <2>3, <3>1, <3>2 DEF Extra
  <2>4. CASE u # t /\ u # r
    BY <1>11, <1>16, <2>4 DEF Extra
  <2> QED
    BY <2>2, <2>3, <2>4
<1>18. ASSUME NEW i \in 1 .. Len(cstack), cstack[i].thr = r PROVE Keeps(i)
  <2>1. Floor(cstack[i]) \in Nat /\ Floor(cstack[i]) + 1 <= Len(callstack[r])
    BY <1>5, <1>18, FloorType
  <2>2. Floor(cstack[i]) <= n
    BY <1>7, <2>1
  <2> QED
    BY <1>7, <1>8, <1>11, <1>18, <2>2, CutKeeps
<1>19. mode' = "handle" => lj'.type \notin {"resume", "yield"}
  <2>1. mode' = "run"
    BY <1>3 DEF ReturnToResumer
  <2> QED
    BY <2>1
<1>20. PICK left \in {"yielded", "terminated"} : left = "terminated"
  OBVIOUS
<1>21. /\ mode \in {"run", "handle"} /\ Len(cstack) > 0 /\ SwitchBack(t, left) /\ Switch
       /\ left = "yielded" => SuspendedIn(t, "yield")'
       /\ preventcount' \in [Threads -> Int]
       /\ \A u \in Threads : u # t /\ u # r => callstack'[u] = callstack[u]
  BY <1>2, <1>3, <1>11, <1>16, <1>20
<1> QED
  BY <1>0, <1>1, <1>4, <1>12, <1>13, <1>17, <1>18, <1>19, <1>21, BackStep

LEMMA HandleYieldLive ==
  ASSUME Typed, IInv, LiveInv, HandleYield
  PROVE  Typed' /\ LiveInv'
<1>0. PICK t : t = curr_thread
  OBVIOUS
<1>1. PICK r : r = resumer[t]
  OBVIOUS
<1>2. /\ mode = "handle" /\ lj.type = "yield" /\ SwitchBack(t, "yielded") /\ Switch
      /\ \/ lj' = Error /\ UNCHANGED <<callstack, preventcount>>
         \/ Unwind(r, Len(callstack[r]) - 1, 0) /\ Restart
  BY <1>0, <1>1 DEF HandleYield, Switch
<1>3. /\ Len(cstack) > 0 /\ Top.kind = "ecma" /\ HandleOK
      /\ SuspendedIn(t, "yield") /\ Resumed(t) /\ preventcount[t] = 1
      /\ preventcount \in [Threads -> Int] /\ callstack \in [Threads -> Seq(Acts)]
      /\ \A i \in 1 .. Len(cstack) : Stands(i)
  BY <1>0, <1>2 DEF IInv, ModeOK, HandleOK, LiveInv, JumpOK, JumpReady, Standing, Typed
<1>4. /\ t \in Threads /\ Len(cstack) \in 1 .. Len(cstack) /\ Top.top \in Nat
  BY <1>0, <1>2, <1>3, Control DEF LiveInv
<1>5. t # Top.thr
  <2> SUFFICES ASSUME t = Top.thr PROVE FALSE
    OBVIOUS
  <2>1. PICK c : c = callstack[t]
    OBVIOUS
  <2>2. c \in Seq(Acts) /\ Len(c) \in Nat
    BY <1>3, <1>4, <2>1
  <2>3. Top.top + 1 \in 1 .. Len(c) /\ c[Top.top + 1].kind = "ecma" /\ c[Top.top + 1].prevent
    BY <1>3, <1>4, <2>1, <2>2 DEF Stands, Floor, Top, Protected
  <2>4. Len(c) \in 1 .. Len(c) /\ c[Len(c)].kind = "yield"
    BY <1>3, <2>1, <2>2 DEF SuspendedIn
  <2>5. c[Len(c)].prevent
    BY <1>4, <2>1, <2>4 DEF LiveInv, Natives, NativesPrevent
  <2>6. Top.top + 1 # Len(c)
    BY <2>3, <2>4
  <2>7. {Top.top + 1, Len(c)} \in SUBSET Preventing(c)
    BY <2>3, <2>4, <2>5 DEF Preventing
  <2>8. Cardinality({Top.top + 1} \cup {Len(c)}) = 2
    <3>1. IsFiniteSet({Top.top + 1}) /\ Cardinality({Top.top + 1}) = 1
      BY FS_Singleton
    <3>2. Len(c) \notin {Top.top + 1}
      BY <2>6
    <3>3. PICK S, x : S = {Top.top + 1} /\ x = Len(c)
      OBVIOUS
    <3>4. Cardinality(S \cup {x}) = Cardinality(S) + 1
      BY <3>1, <3>2, <3>3, FS_AddElement
    <3> QED
      BY <3>1, <3>3, <3>4
  <2>9. IsFiniteSet(Preventing(c)) /\ Cardinality(Preventing(c)) \in Nat
    BY <2>2, PreventingType
  <2>10. {Top.top + 1} \cup {Len(c)} \in SUBSET Preventing(c)
    BY <2>7
  <2>11. 2 <= Cardinality(Preventing(c))
    BY <2>8, <2>9, <2>10, FS_Subset
  <2>12. preventcount[t] = Cardinality(Preventing(c)) + Cardinality(SafeFrames(t))
    <3>1. Extra(t) = Cardinality(SafeFrames(t)) /\ preventcount[t] \in Int
      BY <1>3, <1>4 DEF LiveInv, Counts
    <3> QED
      BY <2>1, <2>9, <3>1 DEF Extra
  <2>13. Cardinality(SafeFrames(t)) \in Nat
    <3>1. IsStack /\ Len(cstack) \in Nat
      BY StackLen DEF IInv
    <3>2. SafeFrames(t) \in SUBSET (1 .. Len(cstack))
      BY <3>1, SafeFramesAre
    <3>3. IsFiniteSet(1 .. Len(cstack))
      BY <3>1, FS_Interval
    <3> QED
      BY <3>2, <3>3, FS_Subset, FS_CardinalityType
  <2> QED
    BY <1>3, <2>9, <2>11, <2>12, <2>13
<1>6. /\ r \in Threads /\ r # t /\ SuspendedIn(r, "resume")
      /\ \A i \in 1 .. Len(cstack) : cstack[i].thr = r => Floor(cstack[i]) + 1 <= Len(callstack[r])
  BY <1>0, <1>1, <1>2, <1>3, <1>5, RoomInResumer DEF LiveInv
<1>7. PICK n : n = Len(callstack[r]) - 1
  OBVIOUS
<1>8. n \in 0 .. Len(callstack[r]) /\ Len(callstack[r]) = n + 1 /\ callstack[r] \in Seq(Acts)
  BY <1>3, <1>6, <1>7 DEF SuspendedIn
<1>9. /\ callstack' \in [Threads -> Seq(Acts)] /\ preventcount' \in [Threads -> Int] /\ Natives'
      /\ \A u \in Threads : Extra(u)' = Extra(u)
      /\ \A u \in Threads : u # t /\ u # r => callstack'[u] = callstack[u]
      /\ callstack'[t] = callstack[t]
      /\ \A i \in 1 .. Len(cstack) : cstack[i].thr = r => Keeps(i)
      /\ mode' = "handle" => lj'.type \notin {"resume", "yield"}
  <2>1. CASE lj' = Error /\ UNCHANGED <<callstack, preventcount>>
    <3>1. Natives' /\ \A u \in Threads : Extra(u)' = Extra(u)
      BY <2>1 DEF LiveInv, Natives, Extra
    <3>2. \A i \in 1 .. Len(cstack) : Keeps(i)
      BY <1>3, <2>1, SameKeeps
    <3> QED
      BY <1>3, <2>1, <3>1, <3>2 DEF Error
  <2>2. CASE Unwind(r, n, 0) /\ Restart
    <3>1. 0 \in Int
      OBVIOUS
    <3>2. /\ callstack' \in [Threads -> Seq(Acts)] /\ preventcount' \in [Threads -> Int]
          /\ callstack'[r] = SubSeq(callstack[r], 1, n)
          /\ \A u \in Threads : u # r => callstack'[u] = callstack[u]
          /\ \A u \in Threads : Extra(u)' = Extra(u) - (IF u = r THEN 0 ELSE 0)
          /\ Natives'
      BY <1>6, <1>8, <2>2, <3>1, UnwindCounts DEF LiveInv
    <3>3. \A u \in Threads : Extra(u)' = Extra(u)
      <4>1. \A u \in Threads : Extra(u) \in Int
        BY <1>3, PreventingType DEF Extra
      <4> QED
        BY <3>2, <4>1
    <3>4. ASSUME NEW i \in 1 .. Len(cstack), cstack[i].thr = r PROVE Keeps(i)
      <4>1. Floor(cstack[i]) \in Nat /\ Floor(cstack[i]) + 1 <= Len(callstack[r])
        BY <1>6, <3>4, FloorType
      <4>2. Floor(cstack[i]) <= n
        BY <1>8, <4>1
      <4> QED
        BY <1>8, <3>2, <3>4, <4>2, CutKeeps
    <3>5. mode' = "run"
      BY <2>2 DEF Restart
    <3> QED
      BY <1>4, <1>6, <3>2, <3>3, <3>4, <3>5
  <2> QED
    BY <1>2, <1>7, <2>1, <2>2
<1>10. SuspendedIn(t, "yield")'
  BY <1>3, <1>9 DEF SuspendedIn
<1>11. "yielded" \in {"yielded", "terminated"} /\ mode \in {"run", "handle"}
  BY <1>2
<1> QED
  BY <1>0, <1>1, <1>2, <1>3, <1>5, <1>9, <1>10, <1>11, BackStep

LEMMA HandleResumeLive ==
  ASSUME Typed, IInv, LiveInv, HandleResume
  PROVE  Typed' /\ LiveInv'
<1>0. PICK t : t = curr_thread
  OBVIOUS
<1>1. PICK r : r = lj.thr
  OBVIOUS
<1>2. /\ mode = "handle" /\ lj.type = "resume" /\ SwitchTo(t, r) /\ Switch
      /\ \/ lj' = Error /\ UNCHANGED <<callstack, preventcount>>
         \/ state[r] = "yielded" /\ Unwind(r, Len(callstack[r]) - 1, 0) /\ Restart
         \/ callstack' = [callstack EXCEPT ![r] = Append(@, Activation("ecma", FALSE))]
            /\ Restart /\ UNCHANGED preventcount
  BY <1>0, <1>1 DEF HandleResume, Switch
<1>3. /\ Len(cstack) > 0 /\ Top.kind = "ecma" /\ HandleOK
      /\ r \in Coroutines /\ SuspendedIn(t, "resume") /\ state[r] \in {"yielded", "inactive"}
      /\ preventcount \in [Threads -> Int] /\ callstack \in [Threads -> Seq(Acts)]
      /\ \A i \in 1 .. Len(cstack) : Stands(i)
  BY <1>0, <1>1, <1>2 DEF IInv, ModeOK, HandleOK, LiveInv, JumpOK, JumpReady, Standing, Typed
<1>4. /\ t \in Threads /\ Len(cstack) \in Nat /\ state[t] = "running"
  BY <1>0, <1>2, <1>3, Control DEF LiveInv
<1>5. r \in Threads /\ r # t /\ callstack[r] \in Seq(Acts)
  BY <1>3, <1>4 DEF Threads
<1>6. PICK m \in Nat : m = Len(cstack)
  BY <1>4
<1>7. PICK h, d : Threading(m, h, d)
  BY <1>2, <1>3, <1>6, Control DEF LiveInv
<1>8. \A i \in 1 .. Len(cstack) : cstack[i].thr # r /\ cstack[i].thr \in Threads
  <2>1. \A i \in 1 .. m : state[cstack[i].thr] \in Active
    BY <1>7 DEF Threading, Entered
  <2> QED
    BY <1>3, <1>6, <2>1, FrameType DEF Active
<1>9. /\ callstack' \in [Threads -> Seq(Acts)] /\ preventcount' \in [Threads -> Int] /\ Natives'
      /\ \A u \in Threads : Extra(u)' = Extra(u)
      /\ \A u \in Threads : u # r => callstack'[u] = callstack[u]
      /\ mode' = "handle" => lj'.type \notin {"resume", "yield"}
  <2>1. CASE lj' = Error /\ UNCHANGED <<callstack, preventcount>>
    <3>1. Natives' /\ \A u \in Threads : Extra(u)' = Extra(u)
      BY <2>1 DEF LiveInv, Natives, Extra
    <3> QED
      BY <1>3, <2>1, <3>1 DEF Error
  <2>2. CASE state[r] = "yielded" /\ Unwind(r, Len(callstack[r]) - 1, 0) /\ Restart
    <3>1. 0 \in Int
      OBVIOUS
    <3>2. SuspendedIn(r, "yield")
      BY <1>5, <1>7, <2>2 DEF Threading, ThreadOK
    <3>3. Len(callstack[r]) - 1 \in 0 .. Len(callstack[r])
      BY <1>5, <3>2 DEF SuspendedIn
    <3>4. /\ callstack' \in [Threads -> Seq(Acts)] /\ preventcount' \in [Threads -> Int]
          /\ \A u \in Threads : u # r => callstack'[u] = callstack[u]
          /\ \A u \in Threads : Extra(u)' = Extra(u) - (IF u = r THEN 0 ELSE 0)
          /\ Natives'
      BY <1>5, <2>2, <3>1, <3>3, UnwindCounts DEF LiveInv
    <3>5. \A u \in Threads : Extra(u)' = Extra(u)
      <4>1. \A u \in Threads : Extra(u) \in Int
        BY <1>3, PreventingType DEF Extra
      <4> QED
        BY <3>4, <4>1
    <3>6. mode' = "run"
      BY <2>2 DEF Restart
    <3> QED
      BY <3>4, <3>5, <3>6
  <2>3. CASE /\ callstack' = [callstack EXCEPT ![r] = Append(@, Activation("ecma", FALSE))]
             /\ Restart /\ UNCHANGED preventcount
    <3>1. PICK a : a = Activation("ecma", FALSE)
      OBVIOUS
    <3>2. a \in Acts /\ a.kind = "ecma" /\ a.prevent = FALSE
      BY <3>1 DEF Activation, Acts, Functions
    <3>3. PICK s : s = Append(callstack[r], a)
      OBVIOUS
    <3>4. /\ s \in Seq(Acts)
          /\ NativesPrevent(callstack[r]) => NativesPrevent(s)
          /\ Cardinality(Preventing(s)) = Cardinality(Preventing(callstack[r])) + 0
      BY <1>5, <3>2, <3>3, AppendActs
    <3>5. Cardinality(Preventing(callstack[r])) \in Nat
      BY <1>5, PreventingType
    <3>6. callstack' = [callstack EXCEPT ![r] = s]
      BY <2>3, <3>1, <3>3
    <3>7. callstack'[r] = s /\ \A u \in Threads : u # r => callstack'[u] = callstack[u]
      BY <1>3, <1>5, <3>6
    <3>8. callstack' \in [Threads -> Seq(Acts)]
      BY <1>3, <3>4, <3>6
    <3>9. Natives'
      BY <1>5, <3>4, <3>7 DEF LiveInv, Natives
    <3>10. \A u \in Threads : Extra(u)' = Extra(u)
      <4>1. Cardinality(Preventing(s)) = Cardinality(Preventing(callstack[r]))
        BY <3>4, <3>5
      <4>2. Extra(r)' = Extra(r)
        BY <2>3, <3>7, <4>1 DEF Extra
      <4> QED
        BY <2>3, <3>7, <4>2 DEF Extra
    <3>11. mode' = "run" /\ preventcount' \in [Threads -> Int]
      BY <1>3, <2>3 DEF Restart
    <3> QED
      BY <3>7, <3>8, <3>9, <3>10, <3>11
  <2> QED
    BY <1>2, <2>1, <2>2, <2>3
<1>10. \E h2, d2 : Threading(Len(cstack), h2, d2)'
  <2>1. cstack[m].kind = "ecma" /\ m > 0 /\ state[r] \notin Active
    BY <1>3, <1>6 DEF Top, Active
  <2>2. UNCHANGED <<contexts, cstack>>
    BY <1>2 DEF Switch
  <2>3. \E h2, d2 : Threading(m, h2, d2)'
    BY <1>0, <1>2, <1>3, <1>6, <1>7, <1>9, <2>1, <2>2, ToThreading
  <2> QED
    BY <1>6, <2>2, <2>3
<1>11. \A i \in 1 .. Len(cstack) : Keeps(i)
  BY <1>3, <1>8, <1>9, SameKeeps
<1>12. mode' \in {"run", "handle"} /\ UNCHANGED <<contexts, cstack>>
  BY <1>2 DEF Switch, Restart
<1>13. \A u \in Threads : u # curr_thread /\ state[u] = "running" => callstack'[u] = callstack[u]
  BY <1>3, <1>9
<1>14. LiveInv'
  BY <1>2, <1>3, <1>9, <1>10, <1>11, <1>12, <1>13, ExecutorStep
<1>15. Typed'
  <2>1. /\ state' = [state EXCEPT ![r] = "running", ![t] = "resumed"]
        /\ resumer' = [resumer EXCEPT ![r] = t] /\ curr_thread' = r
    BY <1>2 DEF SwitchTo
  <2>2. state' \in [Threads -> States] /\ resumer' \in [Threads -> Threads \cup {None}]
    BY <1>4, <2>1 DEF Typed, States
  <2> QED
    BY <1>2, <1>5, <1>9, <2>1, <2>2, SwitchTyped
<1> QED
  BY <1>14, <1>15

-----------------------------------------------------------------------------
(* Steps that push and pop frames. *)

\* The protected calls on t among the first n frames of s.
SafeOf(s, n, t) == {i \in 1 .. n : s[i].kind \in Protected /\ s[i].thr = t}

LEMMA SafeOfNext ==
  ASSUME NEW s, NEW n \in Nat, NEW n1, n1 = n + 1, NEW t
  PROVE  /\ Cardinality(SafeOf(s, n, t)) \in Nat
         /\ Cardinality(SafeOf(s, n1, t)) = Cardinality(SafeOf(s, n, t)) +
              IF s[n1].kind \in Protected /\ s[n1].thr = t THEN 1 ELSE 0
<1>1. IsFiniteSet(1 .. n) /\ SafeOf(s, n, t) \in SUBSET (1 .. n)
  BY FS_Interval DEF SafeOf
<1>2. IsFiniteSet(SafeOf(s, n, t)) /\ Cardinality(SafeOf(s, n, t)) \in Nat
  BY <1>1, FS_Subset, FS_CardinalityType
<1>3. CASE s[n1].kind \in Protected /\ s[n1].thr = t
  <2>1. SafeOf(s, n1, t) = SafeOf(s, n, t) \cup {n1} /\ n1 \notin SafeOf(s, n, t)
    BY <1>3 DEF SafeOf
  <2> QED
    BY <1>2, <1>3, <2>1, FS_AddElement
<1>4. CASE ~(s[n1].kind \in Protected /\ s[n1].thr = t)
  <2>1. SafeOf(s, n1, t) = SafeOf(s, n, t)
    BY <1>4 DEF SafeOf
  <2> QED
    BY <1>2, <1>4, <2>1
<1> QED
  BY <1>3, <1>4

LEMMA SafeOfType ==
  ASSUME NEW s, NEW n \in Nat, NEW t
  PROVE  Cardinality(SafeOf(s, n, t)) \in Nat
<1>1. PICK n1 : n1 = n + 1
  OBVIOUS
<1> QED
  BY <1>1, SafeOfNext

\* The same for a step that pushes a frame, and for one that drops some.
LEMMA SafeFramesStep ==
  ASSUME IsStack, IsStack', NEW t,
         NEW n \in Nat, n = Len(cstack), NEW n2 \in Nat, n2 = Len(cstack'),
         \A i \in 1 .. n : i <= n2 => cstack'[i] = cstack[i]
  PROVE  /\ n2 = n + 1 => Cardinality(SafeFrames(t)') = Cardinality(SafeFrames(t)) +
              IF cstack'[n + 1].kind \in Protected /\ cstack'[n + 1].thr = t THEN 1 ELSE 0
         /\ n2 <= n /\ (\A i \in n2 + 1 .. n : cstack[i].kind \notin Protected) =>
              SafeFrames(t)' = SafeFrames(t)
         /\ Cardinality(SafeFrames(t)) \in Nat /\ Cardinality(SafeFrames(t)') \in Nat
<1>1. DOMAIN cstack = 1 .. n /\ DOMAIN cstack' = 1 .. n2
  BY DEF IsStack
<1>2. SafeFrames(t) = SafeOf(cstack, n, t) /\ SafeFrames(t)' = SafeOf(cstack', n2, t)
  BY <1>1 DEF SafeFrames, SafeOf
<1>3. \A k \in Nat : k <= n /\ k <= n2 => SafeOf(cstack', k, t) = SafeOf(cstack, k, t)
  BY DEF SafeOf
<1>4. n2 = n + 1 => Cardinality(SafeFrames(t)') = Cardinality(SafeFrames(t)) +
        IF cstack'[n + 1].kind \in Protected /\ cstack'[n + 1].thr = t THEN 1 ELSE 0
  <2> SUFFICES ASSUME n2 = n + 1
               PROVE  Cardinality(SafeOf(cstack', n + 1, t)) = Cardinality(SafeOf(cstack, n, t)) +
                        IF cstack'[n + 1].kind \in Protected /\ cstack'[n + 1].thr = t THEN 1 ELSE 0
    BY <1>2
  <2>1. PICK s : s = cstack'
    OBVIOUS
  <2>2. Cardinality(SafeOf(s, n + 1, t)) = Cardinality(SafeOf(s, n, t)) +
          IF s[n + 1].kind \in Protected /\ s[n + 1].thr = t THEN 1 ELSE 0
    <3>1. PICK n1 : n1 = n + 1
      OBVIOUS
    <3>2. Cardinality(SafeOf(s, n1, t)) = Cardinality(SafeOf(s, n, t)) +
            IF s[n1].kind \in Protected /\ s[n1].thr = t THEN 1 ELSE 0
      BY <3>1, SafeOfNext
    <3> QED
      BY <3>1, <3>2
  <2>3. SafeOf(s, n, t) = SafeOf(cstack, n, t)
    BY <1>3, <2>1
  <2> QED
    BY <2>1, <2>2, <2>3
<1>6. n2 <= n /\ (\A i \in n2 + 1 .. n : cstack[i].kind \notin Protected) =>
        SafeFrames(t)' = SafeFrames(t)
  <2> SUFFICES ASSUME n2 <= n, \A i \in n2 + 1 .. n : cstack[i].kind \notin Protected
               PROVE  SafeOf(cstack, n2, t) = SafeOf(cstack, n, t)
    BY <1>2, <1>3
  <2>1. \A i \in 1 .. n : i \in 1 .. n2 \/ i \in n2 + 1 .. n
    OBVIOUS
  <2> QED
    BY <2>1 DEF SafeOf
<1>7. Cardinality(SafeFrames(t)) \in Nat /\ Cardinality(SafeFrames(t)') \in Nat
  BY <1>2, SafeOfType
<1> QED
  BY <1>4, <1>6, <1>7

\* Typed frames, and the C stack with one more and one less.
LEMMA PushTyped ==
  ASSUME Typed, IsStack, NEW f \in CallFrames, cstack' = Append(cstack, f)
  PROVE  cstack' \in Seq(CallFrames)
BY AppendProperties DEF Typed

LEMMA CutTyped ==
  ASSUME Typed, NEW n \in 0 .. Len(cstack), cstack' = SubSeq(cstack, 1, n)
  PROVE  cstack' \in Seq(CallFrames)
<1>1. cstack \in Seq(CallFrames) /\ n \in Nat /\ Len(cstack) \in Nat
  BY DEF Typed
<1>2. \A i \in 1 .. n : cstack[i] \in CallFrames
  BY <1>1
<1> QED
  BY <1>1, <1>2, SubSeqProperties

LEMMA PushStands ==
  ASSUME Typed, Standing, NEW n \in Nat, n = Len(cstack), Len(cstack') = n + 1,
         \A i \in 1 .. n : cstack'[i] = cstack[i] /\ Keeps(i),
         cstack'[n + 1].top = Len(callstack[cstack'[n + 1].thr])
  PROVE  \A i \in 1 .. n : Stands(i)'
<1> SUFFICES ASSUME NEW i \in 1 .. n PROVE Stands(i)'
  OBVIOUS
<1>1. Stands(i) /\ Keeps(i) /\ cstack'[i] = cstack[i]
  BY DEF Standing
<1>2. cstack[i].kind \notin Protected => cstack[i].top + 1 \in 1 .. Floor(cstack[i])
  BY FloorType
<1>3. PICK f : f = cstack[i]
  OBVIOUS
<1>4. Floor(f) <= Len(callstack'[f.thr])
  BY <1>1, <1>3 DEF Keeps
<1>5. f.kind \notin Protected =>
        callstack'[f.thr][f.top + 1].kind = f.kind /\ callstack'[f.thr][f.top + 1].prevent
  BY <1>1, <1>2, <1>3 DEF Keeps, Stands
<1>6. \A j \in i + 1 .. n + 1 : cstack'[j].thr = f.thr => Floor(f) <= cstack'[j].top
  <2>1. \A j \in i + 1 .. n + 1 : j = n + 1 \/ (j \in i + 1 .. n /\ cstack'[j] = cstack[j])
    OBVIOUS
  <2> QED
    BY <1>1, <1>3, <2>1 DEF Stands
<1>7. cstack'[i] = f
  BY <1>1, <1>3
<1> QED
  BY <1>4, <1>5, <1>6, <1>7 DEF Stands

\* The frames below a new one are as exact as they were.
LEMMA PushExact ==
  ASSUME Typed, IInv, LiveInv, mode = "run", NEW n \in Nat, n = Len(cstack), Len(cstack') = n + 1,
         \A i \in 1 .. n : cstack'[i] = cstack[i],
         cstack'[n + 1].top = Len(callstack[cstack'[n + 1].thr]),
         \A t \in Threads : t # cstack'[n + 1].thr \/ (t # curr_thread /\ state[t] = "running") =>
           callstack'[t] = callstack[t]
  PROVE  \A i \in 1 .. n : Exact(i)'
<1> SUFFICES ASSUME NEW i \in 1 .. n, cstack[i].kind # "ecma"
             PROVE  Exact(i)'
  BY DEF Exact
<1>1. Exact(i) /\ cstack[i].thr \in Threads /\ cstack'[i] = cstack[i]
  BY FrameType DEF LiveInv, Standing
<1>2. CASE i < n
  <2>1. cstack'[i + 1] = cstack[i + 1] /\ i + 1 \in 1 .. n
    BY <1>2
  <2>2. CASE cstack[i + 1].thr = cstack[i].thr
    BY <1>1, <1>2, <2>1, <2>2 DEF Exact, Floor
  <2>3. CASE cstack[i + 1].thr # cstack[i].thr
    <3>1. cstack[i].thr # curr_thread /\ state[cstack[i].thr] = "running"
      BY <1>2, <2>3, Waiting DEF LiveInv
    <3>2. callstack'[cstack[i].thr] = callstack[cstack[i].thr]
      BY <1>1, <3>1
    <3> QED
      BY <1>1, <1>2, <2>1, <2>3, <3>2 DEF Exact, Floor
  <2> QED
    BY <2>2, <2>3
<1>3. CASE i = n
  <2>1. Len(callstack[cstack[i].thr]) = Floor(cstack[i])
    BY <1>1, <1>3 DEF Exact
  <2>2. CASE cstack'[n + 1].thr = cstack[i].thr
    BY <1>1, <1>3, <2>1, <2>2 DEF Exact, Floor
  <2>3. CASE cstack'[n + 1].thr # cstack[i].thr
    BY <1>1, <1>3, <2>1, <2>3 DEF Exact, Floor
  <2> QED
    BY <2>2, <2>3
<1> QED
  BY <1>2, <1>3

-----------------------------------------------------------------------------
\* Running code: all frames have been entered.
LEMMA Running ==
  ASSUME Typed, IInv, LiveInv, mode = "run", NEW n \in Nat, n = Len(cstack)
  PROVE  /\ \E h, d : Threading(n, h, d)
         /\ depth = n /\ Cur(n) = curr_thread /\ n <= CallRecursionLimit
         /\ n = 0 => curr_thread = None
         /\ HeapThread \notin contexts /\ curr_thread = HeapThread =>
              \E j \in 1 .. n : IsFin(j)
<1>1. PICK h, d : Threading(n, h, d)
  BY DEF LiveInv, Threaded, Placed
<1>2. depth = n
  BY DEF IInv, ModeOK, RunOK
<1>3. Cur(n) = curr_thread
  BY DEF Cur
<1>4. n <= CallRecursionLimit
  BY DEF LiveInv, Limits
<1>5. n = 0 => curr_thread = None
  BY <1>1, <1>3 DEF Threading
<1>6. ASSUME HeapThread \notin contexts, curr_thread = HeapThread
      PROVE  \E j \in 1 .. n : IsFin(j)
  <2>1. n > 0
    BY <1>5, <1>6, ThreadsAssumption DEF Threads
  <2>2. Top.thr = HeapThread
    BY <1>6, <2>1, Control, ThreadsAssumption DEF LiveInv
  <2> QED
    BY <1>6, <2>1, <2>2 DEF LiveInv, HeapOK, Top
<1> QED
  BY <1>1, <1>2, <1>3, <1>4, <1>5, <1>6

LEMMA CallLive ==
  ASSUME Typed, IInv, LiveInv, NEW t \in Threads, NEW k \in Functions, NEW by, Call(t, k, by)
  PROVE  Typed' /\ LiveInv'
<1>1. PICK n \in Nat : n = Len(cstack)
  BY StackLen DEF IInv
<1>2. PICK f : f = NewFrame(k, t, by)
  OBVIOUS
<1>3. PICK a : a = Activation(k, TRUE)
  OBVIOUS
<1>4. /\ mode = "run" /\ MayStart(t) /\ Start(t) /\ mode' = "run"
      /\ depth' = depth + 1 /\ depth < CallRecursionLimit
      /\ callstack' = [callstack EXCEPT ![t] = Append(callstack[t], a)]
      /\ preventcount' = [preventcount EXCEPT ![t] = preventcount[t] + 1]
      /\ cstack' = Append(cstack, f) /\ jmpbuf_ptr' \in {n + 1, jmpbuf_ptr}
      /\ UNCHANGED <<contexts, resumer, lj>>
  BY <1>1, <1>2, <1>3 DEF Call, CanCall, In, GoRuns
<1>5. /\ f.kind = k /\ f.thr = t /\ f.top = Len(callstack[t]) /\ f.curr = curr_thread
      /\ f.state = state[t] /\ k \notin Protected /\ Floor(f) = Len(callstack[t]) + 1
  BY <1>2 DEF NewFrame, Floor, Functions, Protected
<1>6. /\ state \in [Threads -> States] /\ callstack \in [Threads -> Seq(Acts)]
      /\ preventcount \in [Threads -> Int] /\ callstack[t] \in Seq(Acts)
      /\ Len(callstack[t]) \in Nat
  BY DEF Typed
<1>7. f \in CallFrames
  <2>1. by \in {"C", "Go"}
    BY DEF Call, CanCall
  <2> QED
    BY <1>2, <1>6, <2>1 DEF NewFrame, CallFrames, Typed
<1>8. a \in Acts /\ a.kind = k /\ a.prevent = TRUE
  BY <1>3 DEF Activation, Acts
<1>9. PICK s : s = Append(callstack[t], a)
  OBVIOUS
<1>10. /\ s \in Seq(Acts) /\ Len(s) = Len(callstack[t]) + 1 /\ s[Len(callstack[t]) + 1] = a
       /\ NativesPrevent(callstack[t]) => NativesPrevent(s)
       /\ Cardinality(Preventing(s)) = Cardinality(Preventing(callstack[t])) + 1
  BY <1>6, <1>8, <1>9, AppendActs
<1>11. /\ callstack'[t] = s /\ \A u \in Threads : u # t => callstack'[u] = callstack[u]
       /\ callstack' \in [Threads -> Seq(Acts)]
  BY <1>4, <1>6, <1>9, <1>10
<1>12. /\ Len(cstack') = n + 1 /\ cstack'[n + 1] = f
       /\ \A i \in 1 .. n : cstack'[i] = cstack[i]
  BY <1>1, <1>4, Push DEF IInv
<1>13. /\ depth = n /\ Cur(n) = curr_thread /\ n <= CallRecursionLimit
       /\ HeapThread \notin contexts /\ curr_thread = HeapThread =>
            \E j \in 1 .. n : IsFin(j)
  BY <1>1, <1>4, Running
<1>14. state[t] = (IF t = curr_thread THEN "running" ELSE "inactive")
  BY <1>4 DEF MayStart
<1>15. t # curr_thread => t \in contexts /\ (n = 0 \/ cstack[n].kind = "go")
  <2>1. t # curr_thread => GoRuns /\ t \in GoHolds
    BY DEF Call, CanCall
  <2>2. n # 0 => cstack # <<>> /\ Frame = cstack[n]
    BY <1>1, StackLen DEF IInv, Frame, Last
  <2> QED
    BY <1>14, <2>1, <2>2 DEF GoRuns, GoHolds
<1>16. \E h, d : Threading(n + 1, h, d)'
  <2>1. PICK h, d : Threading(n, h, d)
    BY <1>1, <1>4, Running
  <2> QED
    BY <1>1, <1>4, <1>5, <1>11, <1>12, <1>13, <1>15, <2>1, EnterThreading
<1>17. Threaded'
  <2>1. Placed(n + 1)'
    BY <1>4, <1>12 DEF Placed
  <2> QED
    BY <1>16, <2>1 DEF Threaded
<1>18. \A i \in 1 .. n : Keeps(i)
  <2> SUFFICES ASSUME NEW i \in 1 .. n PROVE Keeps(i)
    OBVIOUS
  <2>1. i \in 1 .. Len(cstack) /\ Stands(i) /\ cstack[i].thr \in Threads
    BY <1>1, FrameType DEF LiveInv, Standing
  <2> QED
    BY <1>8, <1>9, <1>11, <2>1, SameKeeps, AppendKeeps
<1>19. \A i \in 1 .. n + 1 : Stands(i)'
  <2>1. \A i \in 1 .. n : Stands(i)'
    BY <1>1, <1>5, <1>12, <1>18, PushStands DEF LiveInv
  <2>2. Stands(n + 1)'
    <3>1. Floor(f) = Len(callstack'[f.thr]) /\ Len(callstack'[f.thr]) \in Nat
      BY <1>5, <1>6, <1>10, <1>11
    <3>2. callstack'[f.thr][f.top + 1].kind = f.kind /\ callstack'[f.thr][f.top + 1].prevent
      BY <1>5, <1>8, <1>10, <1>11
    <3>3. ~ \E j \in n + 1 + 1 .. n + 1 : TRUE
      OBVIOUS
    <3>4. Floor(f) <= Len(callstack'[f.thr])
      BY <3>1
    <3> QED
      BY <1>12, <3>2, <3>3, <3>4 DEF Stands
  <2>3. \A i \in 1 .. n + 1 : i \in 1 .. n \/ i = n + 1
    OBVIOUS
  <2> QED
    BY <2>1, <2>2, <2>3
<1>20. \A i \in 1 .. n + 1 : Exact(i)'
  <2>1. \A u \in Threads : u # cstack'[n + 1].thr \/ (u # curr_thread /\ state[u] = "running") =>
          callstack'[u] = callstack[u]
    BY <1>5, <1>11, <1>12, <1>14
  <2>2. \A i \in 1 .. n : Exact(i)'
    <3>1. cstack'[n + 1].top = Len(callstack[cstack'[n + 1].thr])
      BY <1>5, <1>12
    <3>2. mode = "run" /\ Len(cstack') = n + 1 /\ \A i \in 1 .. n : cstack'[i] = cstack[i]
      BY <1>4, <1>12
    <3> QED
      BY <1>1, <2>1, <3>1, <3>2, PushExact
  <2>3. Exact(n + 1)'
    BY <1>5, <1>10, <1>11, <1>12 DEF Exact
  <2>4. \A i \in 1 .. n + 1 : i \in 1 .. n \/ i = n + 1
    OBVIOUS
  <2> QED
    BY <2>2, <2>3, <2>4
<1>21. Standing'
  BY <1>12, <1>19, <1>20 DEF Standing
<1>22. Natives'
  BY <1>10, <1>11 DEF LiveInv, Natives
<1>23. preventcount'[t] = preventcount[t] + 1 /\ preventcount' \in [Threads -> Int]
       /\ \A u \in Threads : u # t => preventcount'[u] = preventcount[u]
  BY <1>4, <1>6
<1>24. Counts'
  <2> SUFFICES ASSUME NEW u \in Threads
               PROVE  Extra(u)' = Cardinality(SafeFrames(u))'
    BY DEF Counts
  <2>1. Extra(u) = Cardinality(SafeFrames(u))
    BY DEF LiveInv, Counts
  <2>2. Extra(u)' = Extra(u)
    <3>1. Cardinality(Preventing(callstack[t])) \in Nat /\ preventcount[t] \in Int
      BY <1>6, PreventingType
    <3>2. Extra(t)' = Extra(t)
      BY <1>10, <1>11, <1>23, <3>1 DEF Extra
    <3>3. u # t => Extra(u)' = Extra(u)
      BY <1>11, <1>23 DEF Extra
    <3> QED
      BY <3>2, <3>3
  <2>3. Cardinality(SafeFrames(u)') = Cardinality(SafeFrames(u))
    <3>1. IsStack /\ IsStack'
      BY <1>4, Push DEF IInv
    <3>2. cstack'[n + 1].kind \notin Protected
      BY <1>5, <1>12
    <3>3. Cardinality(SafeFrames(u)) \in Nat
          /\ Cardinality(SafeFrames(u)') = Cardinality(SafeFrames(u)) + 0
      BY <1>1, <1>12, <3>1, <3>2, SafeFramesStep
    <3> QED
      BY <3>3
  <2> QED
    BY <2>1, <2>2, <2>3
<1>25. JumpOK'
  BY <1>4 DEF JumpOK
<1>26. Limits'
  BY <1>4, <1>12, <1>13, LimitsAssumption DEF Limits
<1>27. HeapOK'
  <2> SUFFICES ASSUME HeapThread \notin contexts, NEW i \in 1 .. n + 1, cstack'[i].thr = HeapThread
               PROVE  \E j \in 1 .. i : cstack'[j].kind = "finalizer"
    BY <1>4, <1>12 DEF HeapOK, IsFin
  <2>1. \E j \in 1 .. i : j \in 1 .. n /\ IsFin(j)
    <3>1. CASE i = n + 1
      <4>1. t = HeapThread /\ t = curr_thread
        BY <1>5, <1>12, <1>15, <3>1
      <4> QED
        BY <1>13, <3>1, <4>1
    <3>2. CASE i \in 1 .. n
      BY <1>1, <1>12, <3>2 DEF LiveInv, HeapOK
    <3> QED
      BY <3>1, <3>2
  <2> QED
    BY <1>12, <2>1 DEF IsFin
<1>28. Typed'
  <2>1. cstack' \in Seq(CallFrames)
    BY <1>4, <1>7, PushTyped DEF IInv
  <2>2. curr_thread' \in Threads /\ state' \in [Threads -> States]
    BY <1>4, <1>6 DEF Start, States
  <2>3. depth' \in Nat /\ jmpbuf_ptr' \in Nat
    BY <1>4, <1>13 DEF Typed
  <2> QED
    BY <1>4, <1>11, <1>23, <2>1, <2>2, <2>3 DEF Typed
<1> QED
  BY <1>17, <1>21, <1>22, <1>24, <1>25, <1>26, <1>27, <1>28 DEF LiveInv

\* A protected call begins: its frame is there, its thread is still to be entered.
LEMMA ProtectLive ==
  ASSUME Typed, IInv, LiveInv, mode = "run", NEW k \in Protected, NEW t \in Threads,
         NEW by \in {"C", "Go"}, Protect(k, t, by),
         t # curr_thread => t \in contexts \cup {HeapThread},
         HeapThread \notin contexts /\ t = HeapThread => t = curr_thread \/ k = "finalizer"
  PROVE  Typed' /\ LiveInv'
<1>1. PICK n \in Nat : n = Len(cstack)
  BY StackLen DEF IInv
<1>2. PICK f : f = NewFrame(k, t, by)
  OBVIOUS
<1>4. /\ mode' = "enter" /\ cstack' = Append(cstack, f) /\ jmpbuf_ptr' = n + 1
      /\ preventcount' = [preventcount EXCEPT ![t] = preventcount[t] + 1]
      /\ UNCHANGED <<contexts, state, callstack, resumer, curr_thread, depth, lj>>
  BY <1>1, <1>2 DEF Protect
<1>5. /\ f.kind = k /\ f.thr = t /\ f.top = Len(callstack[t]) /\ f.curr = curr_thread
      /\ f.state = state[t] /\ Floor(f) = Len(callstack[t])
  BY <1>2 DEF NewFrame, Floor
<1>6. /\ preventcount \in [Threads -> Int] /\ callstack[t] \in Seq(Acts)
      /\ Len(callstack[t]) \in Nat
  BY DEF Typed
<1>7. f \in CallFrames
  BY <1>2, <1>6 DEF NewFrame, CallFrames, Typed
<1>12. /\ Len(cstack') = n + 1 /\ cstack'[n + 1] = f /\ Top' = f
       /\ \A i \in 1 .. n : cstack'[i] = cstack[i]
  BY <1>1, <1>4, Push DEF IInv, Top
<1>13. /\ n <= CallRecursionLimit
       /\ HeapThread \notin contexts /\ curr_thread = HeapThread =>
            \E j \in 1 .. n : IsFin(j)
  BY <1>1, Running
<1>17. Threaded'
  <2>1. PICK h, d : Threading(n, h, d)
    BY <1>1, Running
  <2>2. \A i \in 0 .. n : Cur(i)' = Cur(i)
    <3>1. ASSUME NEW i \in 0 .. n PROVE Cur(i)' = Cur(i)
      <4>1. CASE i = n
        BY <1>1, <1>4, <1>5, <1>12, <4>1 DEF Cur
      <4>2. CASE i < n
        <5>1. i + 1 \in 1 .. n /\ i < n + 1
          BY <4>2
        <5> QED
          BY <1>1, <1>12, <4>2, <5>1 DEF Cur
      <4> QED
        BY <4>1, <4>2
    <3> QED
      BY <3>1
  <2>3. Threading(n, h, d)'
    BY <1>1, <1>4, <1>12, <2>1, <2>2, SameThreading
  <2>4. Placed(n)'
    <3>1. Pending'
      BY <1>4, <1>5, <1>12 DEF Pending
    <3>2. n + 1 - 1 = n
      OBVIOUS
    <3> QED
      BY <1>4, <1>12, <3>1, <3>2 DEF Placed
  <2> QED
    BY <2>3, <2>4 DEF Threaded
<1>18. \A i \in 1 .. n : Keeps(i)
  <2> SUFFICES ASSUME NEW i \in 1 .. n PROVE Keeps(i)
    OBVIOUS
  <2>1. i \in 1 .. Len(cstack) /\ Stands(i)
    BY <1>1 DEF LiveInv, Standing
  <2> QED
    BY <1>4, <2>1, SameKeeps
<1>19. \A i \in 1 .. n + 1 : Stands(i)'
  <2>1. \A i \in 1 .. n : Stands(i)'
    BY <1>1, <1>5, <1>12, <1>18, PushStands DEF LiveInv
  <2>2. Stands(n + 1)'
    <3>2. ~ \E j \in n + 1 + 1 .. n + 1 : TRUE
      OBVIOUS
    <3> QED
      BY <1>4, <1>5, <1>6, <1>12, <3>2 DEF Stands
  <2>3. \A i \in 1 .. n + 1 : i \in 1 .. n \/ i = n + 1
    OBVIOUS
  <2> QED
    BY <2>1, <2>2, <2>3
<1>20. \A i \in 1 .. n + 1 : Exact(i)'
  <2>2. \A i \in 1 .. n : Exact(i)'
    BY <1>1, <1>4, <1>5, <1>12, PushExact
  <2>3. Exact(n + 1)'
    BY <1>4, <1>5, <1>12 DEF Exact
  <2>4. \A i \in 1 .. n + 1 : i \in 1 .. n \/ i = n + 1
    OBVIOUS
  <2> QED
    BY <2>2, <2>3, <2>4
<1>21. Standing'
  BY <1>12, <1>19, <1>20 DEF Standing
<1>22. Natives'
  BY <1>4 DEF LiveInv, Natives
<1>23. preventcount'[t] = preventcount[t] + 1 /\ preventcount' \in [Threads -> Int]
       /\ \A u \in Threads : u # t => preventcount'[u] = preventcount[u]
  BY <1>4, <1>6
<1>24. Counts'
  <2> SUFFICES ASSUME NEW u \in Threads
               PROVE  Extra(u)' = Cardinality(SafeFrames(u))'
    BY DEF Counts
  <2>1. Extra(u) = Cardinality(SafeFrames(u))
    BY DEF LiveInv, Counts
  <2>2. Extra(u)' = Extra(u) + IF u = t THEN 1 ELSE 0
    <3>1. callstack[u] \in Seq(Acts) /\ preventcount[u] \in Int
      BY DEF Typed
    <3>2. Cardinality(Preventing(callstack[u])) \in Nat
      BY <3>1, PreventingType
    <3> QED
      BY <1>4, <1>23, <3>1, <3>2 DEF Extra
  <2>3. Cardinality(SafeFrames(u)') = Cardinality(SafeFrames(u)) + IF u = t THEN 1 ELSE 0
    <3>1. IsStack /\ IsStack'
      BY <1>4, Push DEF IInv
    <3>2. Cardinality(SafeFrames(u)') = Cardinality(SafeFrames(u)) +
            IF cstack'[n + 1].kind \in Protected /\ cstack'[n + 1].thr = u THEN 1 ELSE 0
      BY <1>1, <1>12, <3>1, SafeFramesStep
    <3> QED
      BY <1>5, <1>12, <3>2
  <2> QED
    BY <2>1, <2>2, <2>3
<1>25. JumpOK'
  BY <1>4 DEF JumpOK
<1>26. Limits'
  BY <1>4, <1>12, <1>13, LimitsAssumption DEF Limits
<1>27. HeapOK'
  <2> SUFFICES ASSUME HeapThread \notin contexts, NEW i \in 1 .. n + 1, cstack'[i].thr = HeapThread
               PROVE  \E j \in 1 .. i : cstack'[j].kind = "finalizer"
    BY <1>4, <1>12 DEF HeapOK, IsFin
  <2>1. CASE i = n + 1
    <3>1. k = "finalizer" \/ \E j \in 1 .. n : IsFin(j)
      BY <1>5, <1>12, <1>13, <2>1
    <3> QED
      BY <1>5, <1>12, <2>1, <3>1 DEF IsFin
  <2>2. CASE i \in 1 .. n
    BY <1>1, <1>12, <2>2 DEF LiveInv, HeapOK, IsFin
  <2> QED
    BY <2>1, <2>2
<1>28. Typed'
  <2>1. cstack' \in Seq(CallFrames)
    BY <1>4, <1>7, PushTyped DEF IInv
  <2> QED
    BY <1>4, <1>23, <2>1 DEF Typed
<1> QED
  BY <1>17, <1>21, <1>22, <1>24, <1>25, <1>26, <1>27, <1>28 DEF LiveInv

\* What holds between the setting of a jmpbuf and the entry of its thread.
LEMMA Entering ==
  ASSUME Typed, IInv, LiveInv, mode = "enter"
  PROVE  \E m \in Nat : \E h, d :
           /\ Len(cstack) = m + 1 /\ Threading(m, h, d) /\ Cur(m) = curr_thread
           /\ Pending /\ depth = m /\ jmpbuf_ptr = m + 1
           /\ Frame = cstack[m + 1] /\ Frame.thr \in Threads /\ Frame.kind \in Protected
<1>1. PICK m \in Nat : Placed(m) /\ \E h, d : Threading(m, h, d)
  BY DEF LiveInv, Threaded
<1>2. EnterOK /\ IsStack /\ Len(cstack) \in Nat
  BY StackLen DEF IInv, ModeOK
<1>3. Len(cstack) = m + 1 /\ Pending
  BY <1>1, <1>2 DEF Placed
<1>4. Frame = cstack[m + 1] /\ Frame = Top
  BY <1>2, <1>3, StackLen DEF Frame, Last, Top
<1>5. Frame.thr \in Threads
  <2>1. m + 1 \in 1 .. Len(cstack)
    BY <1>3
  <2> QED
    BY <1>4, <2>1, FrameType
<1>6. Cur(m) = curr_thread
  BY <1>3, <1>4 DEF Cur, Pending
<1>7. PICK h, d : Threading(m, h, d)
  BY <1>1
<1>8. depth = m /\ jmpbuf_ptr = m + 1 /\ Frame.kind \in Protected
  BY <1>2, <1>3, <1>4 DEF EnterOK
<1> QED
  BY <1>3, <1>4, <1>5, <1>6, <1>7, <1>8

\* The thread of a protected call is entered, or has been when the limit is hit.
LEMMA StartThreading ==
  ASSUME Typed, IInv, LiveInv, mode = "enter", MayStart(Frame.thr), Start(Frame.thr),
         UNCHANGED <<contexts, callstack, resumer, cstack>>, mode' # "enter"
  PROVE  Threaded' /\ curr_thread' \in Threads /\ state' \in [Threads -> States]
<1>1m. PICK m \in Nat : \E h, d :
           /\ Len(cstack) = m + 1 /\ Threading(m, h, d) /\ Cur(m) = curr_thread /\ Pending
           /\ Frame = cstack[m + 1] /\ Frame.thr \in Threads /\ Frame.kind \in Protected
  BY Entering
<1>1. PICK h, d :
           /\ Len(cstack) = m + 1 /\ Threading(m, h, d) /\ Cur(m) = curr_thread /\ Pending
           /\ Frame = cstack[m + 1] /\ Frame.thr \in Threads /\ Frame.kind \in Protected
  BY <1>1m
<1>2. PICK t : t = Frame.thr
  OBVIOUS
<1>3. Top = cstack[m + 1]
  BY <1>1 DEF Top
<1>4. Threading(m + 1, h, d)'
  BY <1>1, <1>2, <1>3, EnterThreading DEF Pending
<1>5. Placed(m + 1)'
  BY <1>1 DEF Placed
<1> QED
  BY <1>1, <1>2, <1>4, <1>5 DEF Threaded, Start, States, Typed

LEMMA SafeEnterLive ==
  ASSUME Typed, IInv, LiveInv, SafeEnter
  PROVE  Typed' /\ LiveInv'
<1>1. /\ mode = "enter" /\ mode' = "run" /\ MayStart(Frame.thr) /\ Start(Frame.thr)
      /\ depth < CallRecursionLimit /\ depth' = depth + 1
      /\ UNCHANGED <<contexts, callstack, preventcount, resumer, lj, jmpbuf_ptr, cstack>>
  BY DEF SafeEnter, jump
<1>2. Threaded' /\ curr_thread' \in Threads /\ state' \in [Threads -> States]
  BY <1>1, StartThreading
<1>3. Standing'
  BY <1>1 DEF LiveInv, Standing, Stands, Exact
<1>4. Natives' /\ Counts'
  BY <1>1 DEF LiveInv, Natives, Counts, Extra, SafeFrames
<1>5. JumpOK' /\ HeapOK'
  BY <1>1 DEF LiveInv, JumpOK, HeapOK, IsFin
<1>6. Limits'
  <2>1. Len(cstack) = depth + 1 /\ depth \in Nat
    BY <1>1, Entering
  <2> QED
    BY <1>1, <2>1, LimitsAssumption DEF Limits
<1>7. Typed'
  BY <1>1, <1>2 DEF Typed
<1> QED
  BY <1>2, <1>3, <1>4, <1>5, <1>6, <1>7 DEF LiveInv

\* What the checks throw lands where it was thrown.
LEMMA SafeRefusedLive ==
  ASSUME Typed, IInv, LiveInv, SafeRefused
  PROVE  Typed' /\ LiveInv' /\ mode' = "landed"
<1>1. /\ mode = "enter"
      /\ \/ ~MayStart(Frame.thr) /\ UNCHANGED <<curr_thread, state>>
         \/ MayStart(Frame.thr) /\ Start(Frame.thr)
      /\ Longjmp(Error, pf)
      /\ UNCHANGED <<contexts, callstack, preventcount, resumer, depth, jmpbuf_ptr>>
  BY DEF SafeRefused
<1>2m. PICK m \in Nat : \E h, d :
           /\ Len(cstack) = m + 1 /\ Threading(m, h, d) /\ Cur(m) = curr_thread
           /\ Pending /\ depth = m /\ jmpbuf_ptr = m + 1
           /\ Frame = cstack[m + 1] /\ Frame.thr \in Threads /\ Frame.kind \in Protected
  BY <1>1, Entering
<1>2. PICK h, d :
           /\ Len(cstack) = m + 1 /\ Threading(m, h, d) /\ Cur(m) = curr_thread
           /\ Pending /\ depth = m /\ jmpbuf_ptr = m + 1
           /\ Frame = cstack[m + 1] /\ Frame.thr \in Threads /\ Frame.kind \in Protected
  BY <1>2m
<1>3. mode' = "landed" /\ cstack' = SubSeq(cstack, 1, jmpbuf_ptr) /\ lj' = Error
  BY <1>1, <1>2 DEF Longjmp, LongjmpFrom
<1>4. cstack' = cstack
  <2>1. cstack \in Seq(CallFrames)
    BY DEF Typed
  <2> QED
    BY <1>2, <1>3, <2>1
<1>5. Threaded' /\ curr_thread' \in Threads \cup {None} /\ state' \in [Threads -> States]
  <2>1. CASE ~MayStart(Frame.thr) /\ UNCHANGED <<curr_thread, state>>
    <3>1. Threading(m, h, d)'
      BY <1>1, <1>2, <1>4, <2>1, SameThreading DEF Cur
    <3>2. Pending'
      BY <1>1, <1>2, <1>4, <2>1 DEF Pending, Top
    <3>3. Placed(m)'
      BY <1>2, <1>3, <1>4, <3>2 DEF Placed
    <3> QED
      BY <2>1, <3>1, <3>3 DEF Threaded, Typed
  <2>2. CASE MayStart(Frame.thr) /\ Start(Frame.thr)
    BY <1>1, <1>3, <1>4, <2>2, StartThreading
  <2> QED
    BY <1>1, <2>1, <2>2
<1>6. Standing'
  BY <1>1, <1>3, <1>4 DEF LiveInv, Standing, Stands, Exact
<1>7. Natives' /\ Counts'
  BY <1>1, <1>4 DEF LiveInv, Natives, Counts, Extra, SafeFrames
<1>8. JumpOK' /\ HeapOK'
  BY <1>1, <1>3, <1>4 DEF LiveInv, JumpOK, JumpReady, Error, HeapOK, IsFin
<1>9. Limits'
  <2>1. Top.kind # "ecma"
    BY <1>2 DEF Top, Protected
  <2> QED
    BY <1>3, <1>4, <2>1 DEF LiveInv, Limits, Top
<1>10. Typed'
  <2>1. Error \in Jumps
    BY DEF Error, Jumps
  <2> QED
    BY <1>1, <1>3, <1>4, <1>5, <2>1 DEF Typed
<1> QED
  BY <1>3, <1>5, <1>6, <1>7, <1>8, <1>9, <1>10 DEF LiveInv

LEMMA PopFrames ==
  ASSUME IsStack, IsStack', NEW n \in Nat, n = Len(cstack), n > 0, Len(cstack') = n - 1,
         \A i \in 1 .. n - 1 : cstack'[i] = cstack[i], NEW u
  PROVE  /\ Cardinality(SafeFrames(u)) = Cardinality(SafeFrames(u)') +
               IF cstack[n].kind \in Protected /\ cstack[n].thr = u THEN 1 ELSE 0
         /\ Cardinality(SafeFrames(u)) \in Nat /\ Cardinality(SafeFrames(u)') \in Nat
<1>1. PICK m \in Nat : m = n - 1 /\ n = m + 1
  <2>1. n - 1 \in Nat /\ n = n - 1 + 1
    OBVIOUS
  <2> QED
    BY <2>1
<1>2. DOMAIN cstack = 1 .. n /\ DOMAIN cstack' = 1 .. m
  BY <1>1, StackLen DEF IsStack
<1>3. SafeFrames(u) = SafeOf(cstack, n, u) /\ SafeFrames(u)' = SafeOf(cstack', m, u)
  BY <1>2 DEF SafeFrames, SafeOf
<1>4. SafeOf(cstack', m, u) = SafeOf(cstack, m, u)
  BY <1>1 DEF SafeOf
<1>5. PICK s : s = cstack
  OBVIOUS
<1>6. /\ Cardinality(SafeOf(s, m, u)) \in Nat
      /\ Cardinality(SafeOf(s, n, u)) = Cardinality(SafeOf(s, m, u)) +
           IF s[n].kind \in Protected /\ s[n].thr = u THEN 1 ELSE 0
  BY <1>1, SafeOfNext
<1>7. Cardinality(SafeOf(s, n, u)) \in Nat
  BY SafeOfType
<1> QED
  BY <1>3, <1>4, <1>5, <1>6, <1>7

\* A frame is left: its thread's callstack and count are what they were when
\* it was entered.
LEMMA LeaveStep ==
  ASSUME Typed, IInv, LiveInv, NEW n \in Nat, n = Len(cstack), n > 0, mode' = "run",
         NEW t, t = Top.thr, NEW more, more = (IF Top.kind \in Protected THEN 1 ELSE 0),
         Unwind(t, Top.top, more), Restore(Top),
         jmpbuf_ptr' \in {jmpbuf_ptr, Top.jmpbuf}, lj' \in {lj, NoJump},
         UNCHANGED <<contexts, resumer>>,
         \E h, d : Threading(n - 1, h, d)',
         \A i \in 1 .. n : i < n - 1 /\ cstack[i].kind # "ecma" /\ cstack[i + 1].thr # cstack[i].thr =>
           cstack[i].thr # t \/ callstack'[t] = callstack[t]
  PROVE  Typed' /\ LiveInv'
<1>1. /\ IsStack /\ n \in 1 .. n /\ Top = cstack[n] /\ Top.top \in Nat /\ t \in Threads
      /\ Stands(n) /\ Top.curr \in Threads \cup {None} /\ Top.state \in States
      /\ Top.depth \in Nat /\ Top.jmpbuf \in Nat
  <2>1. n \in 1 .. Len(cstack)
    OBVIOUS
  <2> QED
    BY <2>1, FrameType DEF Top, IInv, LiveInv, Standing
<1>2. /\ curr_thread' = Top.curr /\ depth' = Top.depth
      /\ state' = [state EXCEPT ![t] = Top.state]
      /\ cstack' = SubSeq(cstack, 1, n - 1)
  BY DEF Restore, Front
<1>3. n - 1 \in 0 .. Len(cstack) /\ n - 1 \in Nat
  OBVIOUS
<1>4. IsStack' /\ Len(cstack') = n - 1 /\ \A i \in 1 .. n - 1 : cstack'[i] = cstack[i]
  BY <1>1, <1>2, <1>3, Cut
<1>5. callstack[t] \in Seq(Acts) /\ Len(callstack[t]) \in Nat /\ more \in Int
  BY <1>1 DEF Typed
<1>6. Top.top \in 0 .. Len(callstack[t])
  BY <1>1, <1>5, FloorType DEF Stands
<1>7. /\ callstack' \in [Threads -> Seq(Acts)] /\ preventcount' \in [Threads -> Int]
      /\ callstack'[t] = SubSeq(callstack[t], 1, Top.top) /\ Len(callstack'[t]) = Top.top
      /\ \A u \in Threads : u # t =>
           callstack'[u] = callstack[u] /\ preventcount'[u] = preventcount[u]
      /\ \A u \in Threads : Extra(u)' = Extra(u) - (IF u = t THEN more ELSE 0)
      /\ Natives'
  <2>1. PICK k \in 0 .. Len(callstack[t]) : k = Top.top
    BY <1>6
  <2>2. Unwind(t, k, more) /\ Natives
    BY <2>1 DEF LiveInv
  <2>3. /\ callstack' \in [Threads -> Seq(Acts)] /\ preventcount' \in [Threads -> Int]
        /\ callstack'[t] = SubSeq(callstack[t], 1, k) /\ Len(callstack'[t]) = k
        /\ \A u \in Threads : u # t =>
             callstack'[u] = callstack[u] /\ preventcount'[u] = preventcount[u]
        /\ \A u \in Threads : Extra(u)' = Extra(u) - (IF u = t THEN more ELSE 0)
        /\ Natives'
    BY <1>1, <1>5, <2>2, UnwindCounts
  <2> QED
    BY <2>1, <2>3
<1>8. \A i \in 1 .. n - 1 : Keeps(i)
  <2> SUFFICES ASSUME NEW i \in 1 .. n - 1 PROVE Keeps(i)
    OBVIOUS
  <2>1. /\ i \in 1 .. Len(cstack) /\ n \in i + 1 .. Len(cstack) /\ Stands(i) /\ cstack[i].thr \in Threads
    <3>1. i \in 1 .. Len(cstack) /\ n \in i + 1 .. Len(cstack)
      OBVIOUS
    <3> QED
      BY <3>1, FrameType DEF LiveInv, Standing
  <2>2. CASE cstack[i].thr = t
    <3>1. Floor(cstack[i]) <= Top.top
      BY <1>1, <2>1, <2>2 DEF Stands
    <3> QED
      BY <1>6, <1>7, <2>1, <2>2, <3>1, CutKeeps
  <2>3. CASE cstack[i].thr # t
    BY <1>7, <2>1, <2>3, SameKeeps
  <2> QED
    BY <2>2, <2>3
<1>9. \A i \in 1 .. n - 1 : Stands(i)'
  BY <1>3, <1>4, <1>8, KeepsStands DEF LiveInv
<1>10. \A i \in 1 .. n - 1 : Exact(i)'
  <2> SUFFICES ASSUME NEW i \in 1 .. n - 1, cstack[i].kind # "ecma" PROVE Exact(i)'
    BY <1>4 DEF Exact
  <2>1. /\ i \in 1 .. n /\ i < n /\ Exact(i) /\ cstack'[i] = cstack[i] /\ cstack[i].thr \in Threads
    <3>1. i \in 1 .. Len(cstack)
      OBVIOUS
    <3> QED
      BY <1>4, <3>1, FrameType DEF LiveInv, Standing
  <2>2. CASE i < n - 1
    <3>1. i + 1 \in 1 .. n - 1 /\ cstack'[i + 1] = cstack[i + 1]
      BY <1>4, <2>2
    <3>2. CASE cstack[i + 1].thr = cstack[i].thr
      BY <1>4, <2>1, <2>2, <3>1, <3>2 DEF Exact, Floor
    <3>3. CASE cstack[i + 1].thr # cstack[i].thr
      <4>1. callstack'[cstack[i].thr] = callstack[cstack[i].thr]
        BY <1>7, <2>1, <2>2, <3>3
      <4>2. Len(callstack[cstack[i].thr]) = Floor(cstack[i])
        BY <2>1, <3>3 DEF Exact
      <4> QED
        BY <1>4, <2>1, <2>2, <3>1, <3>3, <4>1, <4>2 DEF Exact, Floor
    <3> QED
      BY <3>2, <3>3
  <2>3. CASE i = n - 1
    <3>1. i + 1 = n
      BY <2>3
    <3>2. CASE t = cstack[i].thr
      <4>1. PICK f : f = cstack[i]
        OBVIOUS
      <4>2. Top.top = Floor(f)
        BY <1>1, <2>1, <3>1, <3>2, <4>1 DEF Exact
      <4>3. Len(callstack'[f.thr]) = Floor(f)
        BY <1>7, <3>2, <4>1, <4>2
      <4>4. cstack'[i] = f
        BY <2>1, <4>1
      <4>5. ~(i < Len(cstack'))
        BY <1>4, <2>3
      <4> QED
        BY <4>3, <4>4, <4>5 DEF Exact
    <3>3. CASE t # cstack[i].thr
      <4>1. Len(callstack[cstack[i].thr]) = Floor(cstack[i])
        BY <1>1, <2>1, <3>1, <3>3 DEF Exact
      <4> QED
        BY <1>4, <1>7, <2>1, <2>3, <3>3, <4>1 DEF Exact, Floor
    <3> QED
      BY <3>2, <3>3
  <2> QED
    BY <2>2, <2>3
<1>11. Standing'
  BY <1>4, <1>9, <1>10 DEF Standing
<1>12. Threaded'
  <2>1. Placed(n - 1)'
    BY <1>4 DEF Placed
  <2>2. PICK m \in Nat : m = n - 1
    BY <1>3
  <2>3. \E h, d : Threading(m, h, d)'
    BY <2>2
  <2>4. Placed(m)'
    BY <2>1, <2>2
  <2> QED
    BY <2>3, <2>4 DEF Threaded
<1>13. Counts'
  <2> SUFFICES ASSUME NEW u \in Threads
               PROVE  Extra(u)' = Cardinality(SafeFrames(u))'
    BY DEF Counts
  <2>1. Extra(u) = Cardinality(SafeFrames(u))
    BY DEF LiveInv, Counts
  <2>4. /\ Cardinality(SafeFrames(u)) = Cardinality(SafeFrames(u)') +
             IF cstack[n].kind \in Protected /\ cstack[n].thr = u THEN 1 ELSE 0
        /\ Cardinality(SafeFrames(u)) \in Nat /\ Cardinality(SafeFrames(u)') \in Nat
    BY <1>1, <1>4, PopFrames
  <2>5. Extra(u)' = Extra(u) - (IF u = t THEN more ELSE 0)
    BY <1>7
  <2> QED
    BY <1>1, <2>1, <2>4, <2>5
<1>14. JumpOK'
  BY DEF JumpOK
<1>15. Limits'
  BY <1>4, LimitsAssumption DEF LiveInv, Limits
<1>16. HeapOK'
  <2> SUFFICES ASSUME HeapThread \notin contexts, NEW i \in 1 .. n - 1, cstack[i].thr = HeapThread
               PROVE  \E j \in 1 .. i : cstack'[j].kind = "finalizer"
    BY <1>4 DEF HeapOK, IsFin
  <2>1. i \in 1 .. Len(cstack)
    OBVIOUS
  <2>2. PICK j \in 1 .. i : cstack[j].kind = "finalizer"
    BY <2>1 DEF LiveInv, HeapOK, IsFin
  <2>3. j \in 1 .. n - 1
    OBVIOUS
  <2> QED
    BY <1>4, <2>2, <2>3
<1>17. Typed'
  <2>1. cstack' \in Seq(CallFrames)
    BY <1>2, <1>3, CutTyped
  <2>2. state' \in [Threads -> States]
    BY <1>1, <1>2 DEF Typed
  <2>3. NoJump \in Jumps
    BY DEF NoJump, Jumps
  <2>4. lj' \in Jumps /\ jmpbuf_ptr' \in Nat
    BY <1>1, <2>3 DEF Typed
  <2> QED
    BY <1>1, <1>2, <1>7, <2>1, <2>2, <2>4 DEF Typed
<1> QED
  BY <1>7, <1>11, <1>12, <1>13, <1>14, <1>15, <1>16, <1>17 DEF LiveInv

\* The same when the frame's thread is in control.
LEMMA LeaveInControl ==
  ASSUME Typed, IInv, LiveInv, NEW n \in Nat, n = Len(cstack), n > 0, mode' = "run",
         \E h, d : Threading(n, h, d),
         NEW t, t = Top.thr, t = curr_thread, NEW more, more = (IF Top.kind \in Protected THEN 1 ELSE 0),
         Unwind(t, Top.top, more), Restore(Top),
         jmpbuf_ptr' \in {jmpbuf_ptr, Top.jmpbuf}, lj' \in {lj, NoJump},
         UNCHANGED <<contexts, resumer>>
  PROVE  Typed' /\ LiveInv'
<1>1. PICK h, d : Threading(n, h, d)
  OBVIOUS
<1>2. /\ IsStack /\ Top = cstack[n] /\ n - 1 \in 0 .. Len(cstack)
      /\ curr_thread' = Top.curr
      /\ state' = [state EXCEPT ![t] = Top.state]
      /\ cstack' = SubSeq(cstack, 1, n - 1)
  <2>1. IsStack /\ Top = cstack[n] /\ n - 1 \in 0 .. Len(cstack)
    BY DEF Top, IInv
  <2>2. /\ curr_thread' = Top.curr /\ cstack' = SubSeq(cstack, 1, n - 1)
        /\ state' = [state EXCEPT ![t] = Top.state]
    BY DEF Restore, Front
  <2> QED
    BY <2>1, <2>2
<1>3. Len(cstack') = n - 1 /\ \A i \in 1 .. n - 1 : cstack'[i] = cstack[i]
  BY <1>2, Cut
<1>4. \A u \in Threads : u # curr_thread => callstack'[u] = callstack[u]
  <2>1. callstack' = [callstack EXCEPT ![t] = SubSeq(@, 1, Top.top)]
    BY DEF Unwind
  <2> QED
    BY <2>1 DEF Typed
<1>5. Threading(n - 1, h, d)'
  BY <1>1, <1>2, <1>3, <1>4, LeaveThreading
<1>6. ASSUME NEW i \in 1 .. n, i < n - 1, cstack[i].kind # "ecma", cstack[i + 1].thr # cstack[i].thr
      PROVE  cstack[i].thr # t
  <2>1. Controlled(i, h) /\ Waits(i, n)
    BY <1>1 DEF Threading
  <2>2. Cur(i) = cstack[i].thr
    BY <1>6, <2>1 DEF Controlled
  <2>3. i < n /\ n \in i + 1 .. n
    BY <1>6
  <2>4. \A j \in i + 1 .. n : cstack[j].thr # cstack[i].thr
    BY <1>6, <2>1, <2>2, <2>3 DEF Waits
  <2>5. cstack[n].thr # cstack[i].thr
    BY <2>3, <2>4
  <2> QED
    BY <1>2, <2>5
<1> QED
  BY <1>5, <1>6, LeaveStep

LEMMA ReturnLive ==
  ASSUME Typed, IInv, LiveInv, NativeReturn \/ ReturnFromExecutor \/ SafeReturn
  PROVE  Typed' /\ LiveInv'
<1>1. mode = "run" /\ cstack # <<>>
  BY DEF NativeReturn, ReturnFromExecutor, SafeReturn, In
<1>2. PICK n \in Nat : n = Len(cstack)
  BY StackLen DEF IInv
<1>3. n > 0 /\ Frame = Top
  BY <1>1, <1>2, InControl
<1>4. (\E h, d : Threading(n, h, d)) /\ (curr_thread # Top.thr => Top.kind = "ecma")
  BY <1>1, <1>2, <1>3, Control DEF LiveInv
<1>5. CASE NativeReturn
  <2>1. /\ Top.kind \in {"native", "go"} /\ mode' = mode /\ UNCHANGED <<contexts, resumer, lj, jmpbuf_ptr>>
        /\ Unwind(Top.thr, Top.top, 0) /\ Restore(Top)
    BY <1>3, <1>5 DEF NativeReturn, In, jump
  <2> QED
    BY <1>1, <1>2, <1>3, <1>4, <2>1, LeaveInControl DEF Protected
<1>6. CASE ReturnFromExecutor
  <2>1. /\ Top.kind = "ecma" /\ mode' = mode /\ UNCHANGED <<contexts, resumer, lj>>
        /\ Unwind(Top.thr, Top.top, 0) /\ Restore(Top) /\ jmpbuf_ptr' = Top.jmpbuf
        /\ curr_thread = Top.thr
    BY <1>3, <1>6 DEF ReturnFromExecutor, In, IsEntry
  <2> QED
    BY <1>1, <1>2, <1>3, <1>4, <2>1, LeaveInControl DEF Protected
<1>7. CASE SafeReturn
  <2>1. /\ Top.kind \in Protected /\ mode' = mode /\ UNCHANGED <<contexts, resumer, lj>>
        /\ Unwind(Top.thr, Top.top, 1) /\ Restore(Top) /\ jmpbuf_ptr' = Top.jmpbuf
    BY <1>3, <1>7 DEF SafeReturn, In
  <2> QED
    BY <1>1, <1>2, <1>3, <1>4, <2>1, LeaveInControl DEF Protected
<1> QED
  BY <1>5, <1>6, <1>7

LEMMA SafeErrorLive ==
  ASSUME Typed, IInv, LiveInv, SafeError
  PROVE  Typed' /\ LiveInv'
<1>1. /\ mode = "landed" /\ Frame.kind \in Protected /\ mode' = "run"
      /\ Unwind(Frame.thr, Frame.top, 1) /\ Restore(Frame)
      /\ jmpbuf_ptr' = Frame.jmpbuf /\ lj' = NoJump /\ UNCHANGED <<contexts, resumer>>
  BY DEF SafeError
<1>2. PICK n \in Nat : n = Len(cstack)
  BY StackLen DEF IInv
<1>3. n > 0 /\ cstack # <<>>
  BY <1>1, <1>2 DEF IInv, ModeOK, LandedOK
<1>4. Frame = Top /\ Top = cstack[n] /\ IsStack
  BY <1>1, <1>2, <1>3, InControl DEF Top
<1>5. PICK m \in Nat : Placed(m) /\ \E h, d : Threading(m, h, d)
  BY DEF LiveInv, Threaded
<1>6. CASE m = n
  <2>1. Top.thr = curr_thread
    <3>1. PICK h, d : Threading(n, h, d)
      BY <1>5, <1>6
    <3>2. n \in 1 .. n /\ Cur(n) = curr_thread
      BY <1>2, <1>3 DEF Cur
    <3> QED
      BY <1>1, <1>4, <3>1, <3>2 DEF Threading, Controlled, Protected
  <2> QED
    BY <1>1, <1>2, <1>3, <1>4, <1>5, <1>6, <2>1, LeaveInControl
<1>7. CASE m # n
  <2>1. m = n - 1 /\ Pending
    BY <1>2, <1>5, <1>7 DEF Placed
  <2>2. PICK h, d : Threading(m, h, d)
    BY <1>5
  <2>3. PICK t : t = Top.thr
    OBVIOUS
  <2>4. t \in Threads /\ callstack[t] \in Seq(Acts) /\ Len(callstack[t]) = Top.top
    <3>1. n \in 1 .. Len(cstack)
      BY <1>2, <1>3
    <3> QED
      BY <1>4, <2>1, <2>3, <3>1, FrameType DEF Pending, Typed
  <2>5. callstack'[t] = callstack[t] /\ \A u \in Threads : u # t => callstack'[u] = callstack[u]
    <3>1. callstack' = [callstack EXCEPT ![t] = SubSeq(callstack[t], 1, Len(callstack[t]))]
      BY <1>1, <1>4, <2>3, <2>4 DEF Unwind
    <3>2. SubSeq(callstack[t], 1, Len(callstack[t])) = callstack[t]
      BY <2>4
    <3> QED
      BY <2>4, <3>1, <3>2 DEF Typed
  <2>6. state' = state /\ curr_thread' = curr_thread
    BY <1>1, <1>4, <2>1, <2>3, <2>4 DEF Restore, Pending, Typed
  <2>7. Len(cstack') = m /\ \A i \in 1 .. m : cstack'[i] = cstack[i]
    <3>1. cstack' = SubSeq(cstack, 1, m) /\ m \in 0 .. Len(cstack)
      BY <1>1, <1>2, <1>4, <2>1 DEF Restore, Front
    <3> QED
      BY <1>4, <3>1, Cut
  <2>8. \A i \in 0 .. m : Cur(i)' = Cur(i)
    <3>1. ASSUME NEW i \in 0 .. m PROVE Cur(i)' = Cur(i)
      <4>1. CASE i = m
        BY <1>2, <1>4, <2>1, <2>6, <2>7, <4>1 DEF Cur, Pending
      <4>2. CASE i < m
        <5>1. i + 1 \in 1 .. m /\ i < n
          BY <2>1, <4>2
        <5> QED
          BY <1>2, <2>7, <4>2, <5>1 DEF Cur
      <4> QED
        BY <4>1, <4>2
    <3> QED
      BY <3>1
  <2>9. Threading(m, h, d)'
    <3>1. \A u \in Threads : u # curr_thread => callstack'[u] = callstack[u]
      BY <2>5
    <3> QED
      BY <1>1, <2>2, <2>6, <2>7, <2>8, <3>1, SameThreading
  <2>10. \E hh, dd : Threading(n - 1, hh, dd)'
    BY <2>1, <2>9
  <2> QED
    BY <1>1, <1>2, <1>3, <1>4, <2>3, <2>5, <2>10, LeaveStep
<1> QED
  BY <1>6, <1>7

-----------------------------------------------------------------------------
(* Jumps. *)

\* A jump lands in the frame j, which the current thread has control of.
LEMMA JumpLive ==
  ASSUME Typed, IInv, LiveInv, mode \in {"run", "handle"},
         NEW n \in Nat, n = Len(cstack), NEW h, NEW d, Threading(n, h, d),
         NEW j \in 1 .. n, cstack[j].kind \in Jmpbufs,
         \A k \in j .. n : Cur(k) = curr_thread,
         \A i \in j + 1 .. n : cstack[i].kind \notin Protected,
         \A i \in j + 1 .. n - 1 : cstack[i].kind # "go",
         NEW l \in Jumps, JumpReady(l, j), lj' = l, mode' = "landed",
         cstack' = SubSeq(cstack, 1, j), depth' \in Nat,
         UNCHANGED <<contexts, state, callstack, preventcount, resumer, curr_thread, jmpbuf_ptr>>
  PROVE  Typed' /\ LiveInv'
<1>1. IsStack /\ j \in 0 .. Len(cstack) /\ j \in Nat
  BY DEF IInv
<1>2. IsStack' /\ Len(cstack') = j /\ \A i \in 1 .. j : cstack'[i] = cstack[i]
  BY <1>1, Cut
<1>3. \A i \in 1 .. n : Stands(i) /\ Exact(i)
  BY DEF LiveInv, Standing
<1>4. Threaded'
  <2>1. Threading(j, h, d)'
    BY <1>2, CutThreading
  <2>2. Placed(j)'
    BY <1>2 DEF Placed
  <2> QED
    BY <1>1, <2>1, <2>2 DEF Threaded
<1>5. \A i \in 1 .. j : Keeps(i)
  <2> SUFFICES ASSUME NEW i \in 1 .. j PROVE Keeps(i)
    OBVIOUS
  <2>1. i \in 1 .. Len(cstack)
    BY <1>1
  <2> QED
    BY <1>3, <2>1, SameKeeps
<1>6. \A i \in 1 .. j : Stands(i)'
  BY <1>1, <1>2, <1>5, KeepsStands DEF LiveInv
<1>7. \A i \in 1 .. j : Exact(i)'
  <2> SUFFICES ASSUME NEW i \in 1 .. j PROVE Exact(i)'
    OBVIOUS
  <2>1. CASE i = j
    BY <1>2, <2>1 DEF Exact
  <2>2. CASE i < j
    <3>1. i + 1 \in 1 .. j /\ i < n /\ i # n /\ i \in 1 .. n /\ i # j
      BY <2>2
    <3>2. cstack'[i] = cstack[i] /\ cstack'[i + 1] = cstack[i + 1] /\ Exact(i)
      BY <1>2, <1>3, <3>1
    <3> QED
      BY <1>2, <2>2, <3>1, <3>2 DEF Exact
  <2> QED
    BY <2>1, <2>2
<1>8. Standing'
  BY <1>2, <1>6, <1>7 DEF Standing
<1>9. Natives'
  BY DEF LiveInv, Natives
<1>10. Counts'
  <2>1. ASSUME NEW u \in Threads PROVE SafeFrames(u)' = SafeFrames(u)
    BY <1>1, <1>2, SafeFramesStep
  <2>2. \A u \in Threads : Extra(u)' = Extra(u)
    BY DEF Extra
  <2> QED
    BY <2>1, <2>2, CountsKept DEF LiveInv
<1>11. JumpOK'
  BY <1>2 DEF JumpOK, JumpReady, SuspendedIn, Resumed
<1>12. Limits'
  BY <1>2, LimitsAssumption DEF LiveInv, Limits
<1>13. HeapOK'
  <2> SUFFICES ASSUME HeapThread \notin contexts, NEW i \in 1 .. j, cstack[i].thr = HeapThread
               PROVE  \E k \in 1 .. i : cstack'[k].kind = "finalizer"
    BY <1>2 DEF HeapOK, IsFin
  <2>1. i \in 1 .. Len(cstack)
    BY <1>1
  <2>2. PICK k \in 1 .. i : cstack[k].kind = "finalizer"
    BY <2>1 DEF LiveInv, HeapOK, IsFin
  <2> QED
    BY <1>2, <2>2
<1>14. Typed'
  <2>1. cstack' \in Seq(CallFrames)
    BY <1>1, CutTyped
  <2> QED
    BY <2>1 DEF Typed
<1> QED
  BY <1>4, <1>8, <1>9, <1>10, <1>11, <1>12, <1>13, <1>14 DEF LiveInv

\* What a jump from running code lands in.
LEMMA RunJump ==
  ASSUME Typed, IInv, LiveInv, mode = "run", NEW n \in Nat, n = Len(cstack), n > 0,
         NEW h, NEW d, Threading(n, h, d), NEW j, j = jmpbuf_ptr, j # 0,
         \A i \in j + 1 .. n : cstack[i].kind # "go"
  PROVE  /\ j \in 1 .. n /\ cstack[j].kind \in Jmpbufs
         /\ \A k \in j .. n : Cur(k) = curr_thread
         /\ \A i \in j + 1 .. n : cstack[i].kind \notin Protected \cup {"go"}
<1>1. Innermost(cstack, j, n)
  BY DEF IInv, ModeOK, RunOK
<1>2. j \in 1 .. n /\ cstack[j].kind \in Jmpbufs
  BY <1>1 DEF Innermost
<1>3. \A i \in j + 1 .. n : cstack[i].kind \notin Jmpbufs \cup {"go"}
  BY <1>1, <1>2 DEF Innermost
<1>4. Straight(j, n)
  BY <1>2 DEF Threading
<1>5. ASSUME NEW k \in j .. n PROVE Cur(j) = Cur(k)
  <2>1. \A i \in j + 1 .. k : cstack[i].kind \notin Jmpbufs \cup {"go"}
    BY <1>2, <1>3
  <2>2. cstack[j].kind # "go"
    BY <1>2 DEF Jmpbufs, Protected
  <2> QED
    BY <1>4, <2>1, <2>2 DEF Straight
<1>6. Cur(n) = curr_thread /\ n \in j .. n
  BY <1>2 DEF Cur
<1> QED
  BY <1>2, <1>3, <1>5, <1>6 DEF Jmpbufs

\* An error thrown, or a switch asked for, by running code.
LEMMA ThrowLive ==
  ASSUME Typed, IInv, LiveInv, mode = "run", NEW n \in Nat, n = Len(cstack), n > 0,
         NEW l \in Jumps, NEW p, Longjmp(l, p), mode' \notin {"fatal", "undefined"},
         l.type \in {"resume", "yield"} => Top.kind \notin Jmpbufs,
         JumpReady(l, n - 1) \/ l.type = "throw", depth' \in Nat,
         UNCHANGED <<contexts, state, callstack, preventcount, resumer, curr_thread, jmpbuf_ptr>>
  PROVE  Typed' /\ LiveInv' /\ mode' = "landed"
<1>1. PICK h, d : Threading(n, h, d)
  BY Running
<1>2. PICK j : j = jmpbuf_ptr
  OBVIOUS
<1>3. /\ mode' = "landed" /\ j # 0 /\ cstack' = SubSeq(cstack, 1, j) /\ lj' = l
      /\ \A i \in j + 1 .. n : cstack[i].kind # "go"
  BY <1>2 DEF Longjmp, LongjmpFrom
<1>4. /\ j \in 1 .. n /\ cstack[j].kind \in Jmpbufs
      /\ \A k \in j .. n : Cur(k) = curr_thread
      /\ \A i \in j + 1 .. n : cstack[i].kind \notin Protected \cup {"go"}
  BY <1>1, <1>2, <1>3, RunJump
<1>5. JumpReady(l, j)
  <2>1. CASE l.type = "throw"
    BY <2>1 DEF JumpReady
  <2>2. CASE l.type \in {"resume", "yield"} /\ JumpReady(l, n - 1)
    <3>1. j # n
      BY <1>4, <2>2 DEF Top
    <3>2. j <= n - 1
      BY <1>4, <3>1
    <3> QED
      BY <1>4, <2>2, <3>2, LimitsAssumption DEF JumpReady
  <2>3. CASE l.type \notin {"throw", "resume", "yield"}
    BY <2>3 DEF JumpReady
  <2> QED
    BY <2>1, <2>2, <2>3
<1> QED
  BY <1>1, <1>3, <1>4, <1>5, JumpLive

\* The executor that does not catch an error passes it on.
LEMMA RethrowLive ==
  ASSUME Typed, IInv, LiveInv, Rethrow, mode' \notin {"fatal", "undefined"}
  PROVE  Typed' /\ LiveInv' /\ mode' = "landed"
<1>1. /\ mode = "handle" /\ lj.type = "throw" /\ IsEntry(curr_thread) /\ Longjmp(lj, pf - 1)
      /\ UNCHANGED <<contexts, state, callstack, preventcount, resumer, curr_thread, depth, jmpbuf_ptr>>
  BY DEF Rethrow, Handling, threads
<1>2. HandleOK /\ IsStack /\ FramesOK
  BY <1>1 DEF IInv, ModeOK
<1>3. PICK n \in Nat : n = Len(cstack)
  BY <1>2, StackLen
<1>4. n > 0 /\ Top = cstack[n] /\ cstack[n].kind = "ecma" /\ Frame = Top /\ n \in 1 .. n
  BY <1>2, <1>3, StackLen DEF HandleOK, Top, Frame, Last
<1>5. PICK h, d : Threading(n, h, d)
  BY <1>1, <1>3, <1>4, Control DEF LiveInv
<1>6. PICK j : j = jmpbuf_ptr
  OBVIOUS
<1>7. /\ mode' = "landed" /\ j # 0 /\ cstack' = SubSeq(cstack, 1, j) /\ lj' = lj
      /\ \A i \in j + 1 .. n : cstack[i].kind # "go"
  BY <1>1, <1>3, <1>6 DEF Longjmp, LongjmpFrom
<1>8. Innermost(cstack, j, n - 1)
  BY <1>2, <1>3, <1>4, <1>6 DEF FramesOK, HandleOK
<1>9. j \in 1 .. n - 1 /\ cstack[j].kind \in Jmpbufs
  BY <1>7, <1>8 DEF Innermost
<1>10. \A i \in j + 1 .. n - 1 : cstack[i].kind \notin Jmpbufs \cup {"go"}
  BY <1>7, <1>8, <1>9 DEF Innermost
<1>11. \A i \in j + 1 .. n : cstack[i].kind \notin Protected \cup {"go"}
  <2>1. \A i \in j + 1 .. n : i \in j + 1 .. n - 1 \/ i = n
    BY <1>9
  <2> QED
    BY <1>4, <1>10, <2>1 DEF Jmpbufs, Protected
<1>12. Cur(n) = curr_thread /\ cstack[n].thr = curr_thread
  BY <1>1, <1>3, <1>4 DEF Cur, IsEntry
<1>13. Cur(n - 1) = curr_thread
  <2>1. Entered(n)
    BY <1>4, <1>5 DEF Threading
  <2>2. cstack[n - 1].kind # "go" /\ n # 1
    <3>1. n - 1 \in j + 1 .. n \/ n - 1 = j
      BY <1>9
    <3> QED
      BY <1>7, <1>9, <3>1 DEF Jmpbufs, Protected
  <2> QED
    BY <1>4, <1>12, <2>1, <2>2 DEF Entered, Protected
<1>14. ASSUME NEW k \in j .. n PROVE Cur(k) = curr_thread
  <2>1. Straight(j, n)
    <3>1. j \in 1 .. n
      BY <1>9
    <3> QED
      BY <1>5, <3>1 DEF Threading
  <2>2. ASSUME NEW i \in j .. n - 1 PROVE Cur(j) = Cur(i)
    <3>1. \A e \in j + 1 .. i : cstack[e].kind \notin Jmpbufs \cup {"go"}
      BY <1>9, <1>10
    <3>2. cstack[j].kind # "go" /\ i \in j .. n
      BY <1>9 DEF Jmpbufs, Protected
    <3> QED
      BY <2>1, <3>1, <3>2 DEF Straight
  <2>3. n - 1 \in j .. n - 1 /\ (k \in j .. n - 1 \/ k = n)
    BY <1>9
  <2> QED
    BY <1>12, <1>13, <2>2, <2>3
<1>15. JumpReady(lj, j) /\ lj \in Jumps /\ depth' \in Nat /\ j \in 1 .. n
  BY <1>1, <1>9 DEF JumpReady, Typed
<1>16. PICK l : l = lj
  OBVIOUS
<1> QED
  BY <1>1, <1>3, <1>5, <1>7, <1>9, <1>11, <1>14, <1>15, <1>16, JumpLive

\* What jumps are made with.
LEMMA ErrorType == Error \in Jumps /\ Error.type = "throw"
BY DEF Error, Jumps

\* The error of a Go function that fails.
LEMMA GoFailsLive ==
  ASSUME Typed, IInv, LiveInv, GoFails, mode' \notin {"fatal", "undefined"}
  PROVE  Typed' /\ LiveInv' /\ mode' = "landed"
<1>1. PICK m : m = Len(cstack) - 1
  OBVIOUS
<1>2. /\ m \in Nat /\ Len(cstack) = m + 1 /\ Top = cstack[m + 1] /\ Top.kind = "go"
      /\ Innermost(cstack, jmpbuf_ptr, m) /\ jmpbuf_ptr \in 0 .. m
      /\ Len(Front(cstack)) = m /\ \A i \in 1 .. m : Front(cstack)[i] = cstack[i]
      /\ \A j \in 0 .. m : SubSeq(Front(cstack), 1, j) = SubSeq(cstack, 1, j)
      /\ LongjmpFrom(Front(cstack), Error, pf) /\ mode = "run"
  BY <1>1, FailedFrom
<1>3. PICK n \in Nat : n = m + 1
  BY <1>2
<1>4. n > 0 /\ n = Len(cstack) /\ Top = cstack[n] /\ m = n - 1 /\ n \in 1 .. n
  BY <1>2, <1>3
<1>5. /\ cstack # <<>> /\ Frame = Top
      /\ UNCHANGED <<contexts, state, callstack, preventcount, resumer, curr_thread, depth, jmpbuf_ptr>>
  BY <1>4, InControl, StackLen DEF GoFails, In, threads, IInv
<1>6. PICK h, d : Threading(n, h, d)
  BY <1>2, <1>4, Running
<1>7. PICK j : j = jmpbuf_ptr
  OBVIOUS
<1>8. /\ mode' = "landed" /\ j # 0 /\ cstack' = SubSeq(cstack, 1, j) /\ lj' = Error
      /\ \A i \in j + 1 .. n - 1 : cstack[i].kind # "go"
  <2>1. /\ mode' = "landed" /\ j # 0 /\ cstack' = SubSeq(Front(cstack), 1, j) /\ lj' = Error
        /\ \A i \in j + 1 .. m : Front(cstack)[i].kind # "go"
    BY <1>2, <1>7 DEF LongjmpFrom
  <2>2. \A i \in j + 1 .. m : i \in 1 .. m
    BY <1>2, <1>7
  <2> QED
    BY <1>2, <1>4, <1>7, <2>1, <2>2
<1>9. j \in 1 .. n - 1 /\ cstack[j].kind \in Jmpbufs
  BY <1>2, <1>4, <1>7, <1>8 DEF Innermost
<1>10. \A i \in j + 1 .. n - 1 : cstack[i].kind \notin Jmpbufs \cup {"go"}
  BY <1>2, <1>4, <1>7, <1>8, <1>9 DEF Innermost
<1>11. \A i \in j + 1 .. n : cstack[i].kind \notin Protected
  <2>1. \A i \in j + 1 .. n : i \in j + 1 .. n - 1 \/ i = n
    BY <1>9
  <2> QED
    BY <1>2, <1>4, <1>10, <2>1 DEF Jmpbufs, Protected
<1>12. Cur(n) = curr_thread /\ cstack[n].thr = curr_thread
  <2>1. Controlled(n, h)
    BY <1>4, <1>6 DEF Threading
  <2> QED
    BY <1>2, <1>4, <2>1 DEF Cur, Controlled
<1>13. Cur(n - 1) = curr_thread
  <2>1. Entered(n)
    BY <1>4, <1>6 DEF Threading
  <2>2. cstack[n - 1].kind # "go" /\ n # 1
    <3>1. n - 1 \in j + 1 .. n - 1 \/ n - 1 = j
      BY <1>9
    <3> QED
      BY <1>8, <1>9, <3>1 DEF Jmpbufs, Protected
  <2> QED
    BY <1>2, <1>4, <1>12, <2>1, <2>2 DEF Entered, Protected
<1>14. ASSUME NEW k \in j .. n PROVE Cur(k) = curr_thread
  <2>1. Straight(j, n)
    <3>1. j \in 1 .. n
      BY <1>9
    <3> QED
      BY <1>6, <3>1 DEF Threading
  <2>2. ASSUME NEW i \in j .. n - 1 PROVE Cur(j) = Cur(i)
    <3>1. \A e \in j + 1 .. i : cstack[e].kind \notin Jmpbufs \cup {"go"}
      BY <1>9, <1>10
    <3>2. cstack[j].kind # "go" /\ i \in j .. n
      BY <1>9 DEF Jmpbufs, Protected
    <3> QED
      BY <2>1, <3>1, <3>2 DEF Straight
  <2>3. n - 1 \in j .. n - 1 /\ (k \in j .. n - 1 \/ k = n)
    BY <1>9
  <2> QED
    BY <1>12, <1>13, <2>2, <2>3
<1>15. JumpReady(Error, j) /\ Error \in Jumps /\ depth' \in Nat /\ j \in 1 .. n
  BY <1>5, <1>9, ErrorType DEF JumpReady, Typed
<1>16. PICK l : l = Error
  OBVIOUS
<1> QED
  BY <1>2, <1>4, <1>5, <1>6, <1>8, <1>9, <1>11, <1>14, <1>15, <1>16, JumpLive

\* What Go code asks of the engine outside of any call is never caught.
LEMMA NoLanding ==
  ASSUME IInv, GoRuns, NEW l, NEW p, Longjmp(l, p)
  PROVE  mode' \in {"fatal", "undefined"}
<1> SUFFICES ASSUME mode' \notin {"fatal", "undefined"} PROVE FALSE
  OBVIOUS
<1>1. mode = "run" /\ (cstack # <<>> => Frame.kind = "go")
  BY DEF GoRuns
<1>2. PICK n \in Nat : n = Len(cstack)
  BY StackLen DEF IInv
<1>3. Innermost(cstack, jmpbuf_ptr, n) /\ (n # 0 => Frame = cstack[n]) /\ (n = 0 <=> cstack = <<>>)
  <2>1. Innermost(cstack, jmpbuf_ptr, n)
    BY <1>1, <1>2 DEF IInv, ModeOK, RunOK
  <2> QED
    BY <1>2, <2>1, StackLen DEF IInv, Frame, Last
<1>4. jmpbuf_ptr # 0 /\ \A i \in jmpbuf_ptr + 1 .. n : cstack[i].kind # "go"
  BY <1>2 DEF Longjmp, LongjmpFrom
<1>5. jmpbuf_ptr \in 1 .. n /\ cstack[jmpbuf_ptr].kind \in Jmpbufs
  BY <1>3, <1>4 DEF Innermost
<1>6. cstack[n].kind = "go"
  BY <1>1, <1>3, <1>5
<1>7. jmpbuf_ptr # n
  BY <1>5, <1>6 DEF Jmpbufs, Protected
<1>8. n \in jmpbuf_ptr + 1 .. n
  BY <1>5, <1>7
<1> QED
  BY <1>4, <1>6, <1>8

\* A call that is refused where there is a jmpbuf to land in has not switched
\* threads.
LEMMA CallRefusedLive ==
  ASSUME Typed, IInv, LiveInv, NEW t \in Threads, NEW by, CallRefused(t, by),
         mode' \notin {"fatal", "undefined"}
  PROVE  Typed' /\ LiveInv' /\ mode' = "landed"
<1>1. /\ CanCall(t, by) /\ Longjmp(Error, pf)
      /\ UNCHANGED <<contexts, callstack, preventcount, resumer, jmpbuf_ptr>>
      /\ depth' \in {depth, depth + 1} /\ mode = "run"
      /\ UNCHANGED <<curr_thread, state>> \/ (MayStart(t) /\ Start(t))
  BY DEF CallRefused, CanCall, In, GoRuns
<1>2. PICK n \in Nat : n = Len(cstack)
  BY StackLen DEF IInv
<1>3. Innermost(cstack, jmpbuf_ptr, n) /\ (n # 0 => Frame = cstack[n]) /\ (n = 0 <=> cstack = <<>>)
  <2>1. Innermost(cstack, jmpbuf_ptr, n)
    BY <1>1, <1>2 DEF IInv, ModeOK, RunOK
  <2> QED
    BY <1>2, <2>1, StackLen DEF IInv, Frame, Last
<1>4. ~GoRuns
  BY <1>1, NoLanding
<1>5. t = curr_thread /\ n > 0
  BY <1>1, <1>2, <1>3, <1>4 DEF CanCall, In
<1>6. UNCHANGED <<curr_thread, state>>
  <2>1. CASE MayStart(t) /\ Start(t)
    BY <1>5, <2>1 DEF MayStart, Start, Typed
  <2> QED
    BY <1>1, <2>1
<1>7. depth' \in Nat
  BY <1>1 DEF Typed
<1> QED
  BY <1>1, <1>2, <1>5, <1>6, <1>7, ErrorType, ThrowLive

LEMMA ThrowRefusedLive ==
  ASSUME Typed, IInv, LiveInv, Throw \/ SwitchRefused, mode' \notin {"fatal", "undefined"}
  PROVE  Typed' /\ LiveInv' /\ mode' = "landed"
<1>1. /\ mode = "run" /\ cstack # <<>> /\ Longjmp(Error, pf)
      /\ UNCHANGED <<contexts, state, callstack, preventcount, resumer, curr_thread, depth, jmpbuf_ptr>>
  <2>1. /\ Longjmp(Error, pf)
        /\ (mode = "run" /\ cstack # <<>>) \/ GoRuns
        /\ UNCHANGED <<contexts, state, callstack, preventcount, resumer, curr_thread, depth, jmpbuf_ptr>>
    BY DEF Throw, SwitchRefused, In, threads
  <2> QED
    BY <2>1, NoLanding
<1>2. PICK n \in Nat : n = Len(cstack)
  BY StackLen DEF IInv
<1>3. n > 0 /\ depth' \in Nat
  BY <1>1, <1>2, InControl DEF Typed
<1> QED
  BY <1>1, <1>2, <1>3, ErrorType, ThrowLive

\* A function that has called resume or yield is suspended in it.
LEMMA SuspendedTop ==
  ASSUME Typed, IInv, LiveInv, NEW k \in {"resume", "yield"}, In({k}), EcmaCaller(curr_thread)
  PROVE  SuspendedIn(curr_thread, k) /\ Len(cstack) > 0 /\ Top.kind = k
<1>1. mode = "run" /\ cstack # <<>> /\ Frame.kind = k
  BY DEF In
<1>2. PICK n \in Nat : n = Len(cstack)
  BY StackLen DEF IInv
<1>3. n > 0 /\ Frame = Top /\ Top = cstack[n] /\ n \in 1 .. Len(cstack)
  BY <1>1, <1>2, InControl DEF Top
<1>4. curr_thread = Top.thr
  BY <1>1, <1>2, <1>3, Control DEF LiveInv
<1>5. Stands(n) /\ Exact(n)
  BY <1>3 DEF LiveInv, Standing
<1>6. Floor(Top) = Top.top + 1 /\ Top.kind \notin Protected /\ Top.kind # "ecma" /\ Top.kind = k
  BY <1>1, <1>3 DEF Floor, Protected
<1>7. Len(callstack[curr_thread]) = Top.top + 1
  BY <1>1, <1>2, <1>3, <1>4, <1>5, <1>6 DEF Exact
<1>8. callstack[curr_thread][Top.top + 1].kind = k
  BY <1>3, <1>4, <1>5, <1>6 DEF Stands
<1> QED
  BY <1>2, <1>3, <1>6, <1>7, <1>8 DEF EcmaCaller, SuspendedIn

LEMMA ResumeLive ==
  ASSUME Typed, IInv, LiveInv, NEW r \in Threads, NEW iserror \in BOOLEAN, Resume(r, iserror),
         mode' \notin {"fatal", "undefined"}
  PROVE  Typed' /\ LiveInv' /\ mode' = "landed"
<1>1. PICK l : l = [type |-> "resume", thr |-> r, iserror |-> iserror]
  OBVIOUS
<1>2. /\ In({"resume"}) /\ MayResume(curr_thread, r) /\ Longjmp(l, pf) /\ mode = "run"
      /\ UNCHANGED <<contexts, state, callstack, preventcount, resumer, curr_thread, depth, jmpbuf_ptr>>
  BY <1>1 DEF Resume, threads, In
<1>3. SuspendedIn(curr_thread, "resume") /\ Len(cstack) > 0 /\ Top.kind = "resume"
  BY <1>2, SuspendedTop DEF MayResume
<1>4. PICK n \in Nat : n = Len(cstack)
  BY StackLen DEF IInv
<1>5. n <= CallRecursionLimit /\ \E h, d : Threading(n, h, d)
  BY <1>2, <1>4, Running
<1>6. r \in Coroutines
  <2>1. state[r] = "yielded" => r \in Coroutines
    BY <1>5 DEF Threading, ThreadOK
  <2> QED
    BY <1>2, <2>1 DEF MayResume
<1>7. l \in Jumps /\ l.type = "resume" /\ l.thr = r
  BY <1>1 DEF Jumps
<1>8. JumpReady(l, n - 1)
  BY <1>2, <1>3, <1>5, <1>6, <1>7, LimitsAssumption DEF JumpReady, MayResume
<1>9. Top.kind \notin Jmpbufs /\ depth' \in Nat
  BY <1>2, <1>3 DEF Jmpbufs, Protected, Typed
<1> QED
  BY <1>2, <1>3, <1>4, <1>7, <1>8, <1>9, ThrowLive

LEMMA YieldLive ==
  ASSUME Typed, IInv, LiveInv, NEW iserror \in BOOLEAN, Yield(iserror),
         mode' \notin {"fatal", "undefined"}
  PROVE  Typed' /\ LiveInv' /\ mode' = "landed"
<1>1. PICK l : l = [type |-> "yield", thr |-> None, iserror |-> iserror]
  OBVIOUS
<1>2. /\ In({"yield"}) /\ MayYield(curr_thread) /\ Longjmp(l, pf) /\ mode = "run"
      /\ UNCHANGED <<contexts, state, callstack, preventcount, resumer, curr_thread, depth, jmpbuf_ptr>>
  BY <1>1 DEF Yield, threads, In
<1>3. SuspendedIn(curr_thread, "yield") /\ Len(cstack) > 0 /\ Top.kind = "yield"
  BY <1>2, SuspendedTop DEF MayYield
<1>4. PICK n \in Nat : n = Len(cstack)
  BY StackLen DEF IInv
<1>5. l \in Jumps /\ l.type = "yield"
  BY <1>1 DEF Jumps
<1>6. JumpReady(l, n - 1)
  BY <1>2, <1>3, <1>5 DEF JumpReady, MayYield, Resumed
<1>7. Top.kind \notin Jmpbufs /\ depth' \in Nat
  BY <1>2, <1>3 DEF Jmpbufs, Protected, Typed
<1> QED
  BY <1>2, <1>3, <1>4, <1>5, <1>6, <1>7, ThrowLive

\* An executor takes a jump up.
LEMMA ExecutorErrorLive ==
  ASSUME Typed, IInv, LiveInv, ExecutorError
  PROVE  Typed' /\ LiveInv'
<1>1. /\ mode = "landed" /\ Frame.kind = "ecma" /\ mode' = "handle"
      /\ depth' = Frame.depth + 1 /\ jmpbuf_ptr' = Frame.jmpbuf
      /\ UNCHANGED <<contexts, state, callstack, preventcount, resumer, curr_thread, lj, cstack>>
  BY DEF ExecutorError, threads
<1>2. PICK n \in Nat : n = Len(cstack)
  BY StackLen DEF IInv
<1>3. n > 0 /\ cstack # <<>>
  BY <1>1, <1>2 DEF IInv, ModeOK, LandedOK
<1>4. Frame = Top /\ Top = cstack[n] /\ n \in 1 .. Len(cstack)
  BY <1>1, <1>2, <1>3, InControl DEF Top
<1>5. Top.depth \in Nat /\ Top.jmpbuf \in Nat
  BY <1>4, FrameType
<1>6. Threaded'
  <2>1. PICK m \in Nat : Placed(m) /\ \E h, d : Threading(m, h, d)
    BY DEF LiveInv, Threaded
  <2>2. m = n
    BY <1>1, <1>2, <1>4, <2>1 DEF Placed, Pending, Protected
  <2>3. PICK h, d : Threading(m, h, d)
    BY <2>1
  <2>4. Threading(m, h, d)'
    BY <1>1, <2>3, SameThreading DEF Cur
  <2>5. Placed(m)'
    BY <1>1, <1>2, <2>2 DEF Placed
  <2> QED
    BY <2>4, <2>5 DEF Threaded
<1>7. Standing'
  <2>1. \A i \in 1 .. n : Exact(i)'
    <3> SUFFICES ASSUME NEW i \in 1 .. n PROVE Exact(i)'
      OBVIOUS
    <3>1. Exact(i) /\ (i = n => cstack[i].kind = "ecma")
      BY <1>1, <1>2, <1>4 DEF LiveInv, Standing
    <3> QED
      BY <1>1, <1>2, <3>1 DEF Exact
  <2>2. \A i \in 1 .. n : Stands(i)'
    BY <1>1, <1>2 DEF LiveInv, Standing, Stands
  <2> QED
    BY <1>1, <1>2, <2>1, <2>2 DEF Standing
<1>8. Natives' /\ Counts' /\ HeapOK'
  BY <1>1 DEF LiveInv, Natives, Counts, Extra, SafeFrames, HeapOK, IsFin
<1>9. JumpOK'
  BY <1>1 DEF LiveInv, JumpOK, JumpReady, SuspendedIn, Resumed
<1>10. Limits'
  BY <1>1, <1>4 DEF LiveInv, Limits
<1>11. Typed'
  BY <1>1, <1>4, <1>5 DEF Typed
<1> QED
  BY <1>6, <1>7, <1>8, <1>9, <1>10, <1>11 DEF LiveInv

-----------------------------------------------------------------------------
\* What is in bounds whatever happens.
Books ==
  /\ pf \in Nat /\ jmpbuf_ptr \in 0 .. Len(cstack)
  /\ preventcount \in [Threads -> Nat] /\ depth \in 0 .. CallRecursionLimit

TInv ==
  /\ Typed /\ IInv
  /\ IF Live THEN LiveInv /\ (mode = "landed" => depth <= CallRecursionLimit) ELSE Books

LEMMA BooksHold ==
  ASSUME Typed, IInv, LiveInv, Live, mode = "landed" => depth <= CallRecursionLimit
  PROVE  Books
<1>1. PICK n \in Nat : n = Len(cstack)
  BY StackLen DEF IInv
<1>2. pf \in Nat
  BY DEF Live, IInv, ModeOK, RunOK, EnterOK, LandedOK, HandleOK, Fin
<1>3. jmpbuf_ptr \in 0 .. n
  <2>1. CASE mode = "handle"
    <3>1. n > 0 /\ jmpbuf_ptr = cstack[n].jmpbuf
      BY <1>1, <2>1 DEF IInv, ModeOK, HandleOK, Top
    <3>2. Innermost(cstack, cstack[n].jmpbuf, n - 1)
      BY <1>1, <3>1 DEF IInv, FramesOK
    <3> QED
      BY <3>1, <3>2 DEF Innermost
  <2>2. CASE mode # "handle"
    BY <1>1, <2>2 DEF Live, IInv, ModeOK, RunOK, EnterOK, LandedOK, Innermost
  <2> QED
    BY <2>1, <2>2
<1>4. preventcount \in [Threads -> Nat]
  <2>1. ASSUME NEW t \in Threads PROVE preventcount[t] \in Nat
    <3>1. callstack[t] \in Seq(Acts) /\ preventcount[t] \in Int
      BY DEF Typed
    <3>2. Cardinality(Preventing(callstack[t])) \in Nat
      BY <3>1, PreventingType
    <3>3. Cardinality(SafeFrames(t)) \in Nat
      <4>1. SafeFrames(t) = SafeOf(cstack, n, t)
        BY <1>1, StackLen DEF IInv, SafeFrames, SafeOf
      <4> QED
        BY <4>1, SafeOfType
    <3> QED
      BY <3>1, <3>2, <3>3 DEF LiveInv, Counts, Extra
  <2> QED
    BY <2>1 DEF Typed
<1>5. depth \in 0 .. CallRecursionLimit
  <2>1. depth \in Nat
    BY DEF Typed
  <2>2. CASE mode = "run"
    BY <1>1, <2>1, <2>2, LimitsAssumption DEF IInv, ModeOK, RunOK, LiveInv, Limits
  <2>3. CASE mode = "handle"
    BY <1>1, <2>1, <2>3, LimitsAssumption DEF IInv, ModeOK, HandleOK, LiveInv, Limits
  <2>4. CASE mode = "enter"
    BY <1>1, <2>1, <2>4, LimitsAssumption DEF IInv, ModeOK, EnterOK, LiveInv, Limits
  <2>5. CASE mode = "landed"
    BY <2>1, <2>5, LimitsAssumption
  <2> QED
    BY <2>2, <2>3, <2>4, <2>5 DEF Live, IInv, ModeOK
<1> QED
  BY <1>1, <1>2, <1>3, <1>4, <1>5 DEF Books

\* A jump that nothing catches, or that passes over Go code.
LEMMA DeadHolds ==
  ASSUME Typed, Books, NEW l \in Jumps, NEW p \in Nat, NEW frames,
         LongjmpFrom(frames, l, p), frames \in Seq(CallFrames), jmpbuf_ptr <= Len(frames),
         mode' \in {"fatal", "undefined"}, UNCHANGED <<contexts, callstack, preventcount, resumer, jmpbuf_ptr>>,
         state' \in [Threads -> States], curr_thread' \in Threads \cup {None},
         depth' \in 0 .. CallRecursionLimit
  PROVE  Typed' /\ Books'
<1>1. lj' = l /\ pf' = p + 1 /\ cstack' = frames
  BY DEF LongjmpFrom
<1>2. jmpbuf_ptr' \in 0 .. Len(cstack')
  BY <1>1 DEF Typed
<1> QED
  BY <1>1, <1>2, LimitsAssumption DEF Typed, Books

LEMMA TInit == Init => TInv
<1> SUFFICES ASSUME Init PROVE TInv
  OBVIOUS
<1>1. cstack = <<>> /\ Len(cstack) = 0 /\ mode = "run"
  BY DEF Init
<1>2. Typed
  <2>1. <<>> \in Seq(CallFrames) /\ <<>> \in Seq(Acts)
    BY EmptySeq
  <2>2. NoJump \in Jumps
    BY DEF NoJump, Jumps
  <2> QED
    BY <1>1, <2>1, <2>2 DEF Init, Typed, States
<1>3. IInv
  BY InitHolds
<1>4. Threaded
  <2>1. ASSUME NEW h, NEW d PROVE Threading(0, h, d)
    <3>1. Cur(0) = None /\ curr_thread = None
      BY <1>1 DEF Cur, Init
    <3>2. ASSUME NEW t \in Threads PROVE Chained(t, 0, h, d) /\ ThreadOK(t, 0)
      <4>1. state[t] = "inactive" /\ resumer[t] = None
        BY DEF Init
      <4> QED
        BY <4>1 DEF Chained, ThreadOK, Resumed, Active
    <3> QED
      BY <3>1, <3>2 DEF Threading
  <2>2. Placed(0)
    BY <1>1 DEF Placed
  <2> QED
    BY <2>1, <2>2 DEF Threaded
<1>5. Standing /\ JumpOK /\ HeapOK /\ Limits
  BY <1>1, LimitsAssumption DEF Standing, JumpOK, HeapOK, Limits
<1>6. Natives
  BY DEF Init, Natives, NativesPrevent
<1>7. Counts
  <2> SUFFICES ASSUME NEW t \in Threads PROVE Extra(t) = Cardinality(SafeFrames(t))
    BY DEF Counts
  <2>1. Preventing(callstack[t]) = {} /\ SafeFrames(t) = {} /\ preventcount[t] = 0
    BY DEF Init, Preventing, SafeFrames
  <2>2. Cardinality({}) = 0
    BY FS_EmptySet
  <2> QED
    BY <2>1, <2>2 DEF Extra
<1> QED
  BY <1>1, <1>2, <1>3, <1>4, <1>5, <1>6, <1>7 DEF TInv, LiveInv, Live

\* Nothing more happens once the process is aborted.
LEMMA DeadStays ==
  ASSUME ~Live, Next
  PROVE  UNCHANGED vars
<1>1. mode \in {"fatal", "undefined"}
  BY DEF Live
<1>2. ASSUME NEW t \in Threads, NEW by \in {"C", "Go"}, NEW k \in Functions, Call(t, k, by)
      PROVE  FALSE
  BY <1>1, <1>2 DEF Call, CanCall, In, GoRuns
<1>3. ASSUME NEW t \in Threads, NEW by \in {"C", "Go"}, CallRefused(t, by) \/ SafeCall(t, by)
      PROVE  FALSE
  BY <1>1, <1>3 DEF CallRefused, SafeCall, CanCall, In, GoRuns
<1>4. ASSUME NEW r \in Threads, NEW e \in BOOLEAN, Resume(r, e)
      PROVE  FALSE
  BY <1>1, <1>4 DEF Resume, In
<1>5. CASE EcmaCall \/ TailCall \/ TryCatch \/ Throw \/ NativeReturn \/ ReturnToFinally
           \/ ReturnFromExecutor \/ ReturnToCaller \/ ReturnToResumer \/ Finalizer \/ SafeReturn
           \/ SwitchRefused \/ GoFails
  BY <1>1, <1>5 DEF EcmaCall, TailCall, TryCatch, Throw, GoRuns, NativeReturn, ReturnToFinally,
     ReturnFromExecutor, ReturnToCaller, ReturnToResumer, Finalizer, SafeReturn, SwitchRefused,
     GoFails, In
<1>6. CASE SafeEnter \/ SafeRefused \/ SafeError \/ ExecutorError \/ HandleResume \/ HandleYield
           \/ Catch \/ UnwindActivation \/ Rethrow \/ ThreadDies
  BY <1>1, <1>6 DEF SafeEnter, SafeRefused, SafeError, ExecutorError, HandleResume, HandleYield,
     Catch, UnwindActivation, Rethrow, ThreadDies, Handling
<1>7. CASE Stopped
  BY <1>7 DEF Stopped
<1>8. ASSUME NEW e \in BOOLEAN, Yield(e) PROVE FALSE
  BY <1>1, <1>8 DEF Yield, In
<1> QED
  BY <1>2, <1>3, <1>4, <1>5, <1>6, <1>7, <1>8 DEF Next

\* A jump, from where there is one.
LEMMA JumpStep ==
  ASSUME Typed, Books, NEW l \in Jumps, NEW p \in Nat, NEW frames,
         LongjmpFrom(frames, l, p), frames \in Seq(CallFrames), jmpbuf_ptr <= Len(frames),
         mode' \notin {"fatal", "undefined"} => Typed' /\ LiveInv',
         UNCHANGED <<contexts, callstack, preventcount, resumer, jmpbuf_ptr>>,
         state' \in [Threads -> States], curr_thread' \in Threads \cup {None},
         depth' \in 0 .. CallRecursionLimit
  PROVE  /\ Typed'
         /\ IF Live' THEN LiveInv' /\ (mode' = "landed" => depth' <= CallRecursionLimit) ELSE Books'
<1>1. CASE mode' \in {"fatal", "undefined"}
  BY <1>1, DeadHolds DEF Live
<1>2. CASE mode' \notin {"fatal", "undefined"}
  BY <1>2, LimitsAssumption DEF Live
<1> QED
  BY <1>1, <1>2

LEMMA TNext ==
  ASSUME Typed, IInv, LiveInv, Live, Books, Next
  PROVE  /\ Typed'
         /\ IF Live' THEN LiveInv' /\ (mode' = "landed" => depth' <= CallRecursionLimit) ELSE Books'
<1> DEFINE Goal == /\ Typed'
                   /\ IF Live' THEN LiveInv' /\ (mode' = "landed" => depth' <= CallRecursionLimit)
                      ELSE Books'
<1>1. ASSUME Typed' /\ LiveInv', mode' \in {"run", "enter", "handle"}
      PROVE  Goal
  BY <1>1 DEF Live
<1>2. state \in [Threads -> States] /\ curr_thread \in Threads \cup {None}
      /\ depth \in 0 .. CallRecursionLimit /\ pf \in Nat
  BY DEF Typed, Books
<1>2a. cstack \in Seq(CallFrames) /\ jmpbuf_ptr <= Len(cstack)
       /\ \A l, p : Longjmp(l, p) => LongjmpFrom(cstack, l, p)
  BY DEF Typed, Books, Longjmp
<1>3. ASSUME NEW t \in Threads, NEW by \in {"C", "Go"}, NEW k \in Functions, Call(t, k, by)
      PROVE  Goal
  <2>1. mode' = "run"
    BY <1>3 DEF Call, CanCall, In, GoRuns
  <2> QED
    BY <1>1, <1>3, <2>1, CallLive
<1>4. ASSUME NEW t \in Threads, NEW by \in {"C", "Go"}, CallRefused(t, by)
      PROVE  Goal
  <2>1. /\ Longjmp(Error, pf) /\ UNCHANGED <<contexts, callstack, preventcount, resumer, jmpbuf_ptr>>
        /\ UNCHANGED <<curr_thread, state>> \/ Start(t)
        /\ depth' = depth \/ (depth < CallRecursionLimit /\ depth' = depth + 1)
    BY <1>4 DEF CallRefused
  <2>2. curr_thread' \in Threads \cup {None} /\ state' \in [Threads -> States]
    BY <1>2, <2>1 DEF Start, States
  <2>3. depth' \in 0 .. CallRecursionLimit
    BY <1>2, <2>1, LimitsAssumption
  <2>4. mode' \notin {"fatal", "undefined"} => Typed' /\ LiveInv'
    BY <1>4, CallRefusedLive
  <2> QED
    BY <1>2, <1>2a, <2>1, <2>2, <2>3, <2>4, ErrorType, JumpStep
<1>5. ASSUME NEW t \in Threads, NEW by \in {"C", "Go"}, SafeCall(t, by)
      PROVE  Goal
  <2>1. mode = "run" /\ Protect("safe", t, by) /\ mode' = "enter" /\ "safe" \in Protected
    BY <1>5 DEF SafeCall, In, GoRuns, Protected, Protect
  <2>2. t = curr_thread \/ t \in contexts
    BY <1>5 DEF SafeCall
  <2> QED
    BY <1>1, <2>1, <2>2, ProtectLive
<1>6. CASE Finalizer
  <2>1. /\ mode = "run" /\ Protect("finalizer", HeapThread, "C") /\ mode' = "enter"
        /\ "finalizer" \in Protected /\ HeapThread \in Threads
    BY <1>6 DEF Finalizer, Protected, Protect, Threads
  <2> QED
    BY <1>1, <2>1, ProtectLive
<1>7. CASE \/ EcmaCall \/ TailCall \/ TryCatch \/ ReturnToFinally \/ ReturnToCaller
           \/ ReturnToResumer
  <2>1. mode' = "run"
    BY <1>7 DEF EcmaCall, TailCall, TryCatch, ReturnToFinally, ReturnToCaller, ReturnToResumer, In
  <2>2. Typed' /\ LiveInv'
    BY <1>7, EcmaCallLive, TailCallLive, TryCatchLive, CatchLive, LeaveActivationLive,
       ReturnToResumerLive
  <2> QED
    BY <1>1, <2>1, <2>2
<1>8. CASE UnwindActivation \/ ThreadDies
  <2>1. mode' = "handle"
    BY <1>8 DEF UnwindActivation, ThreadDies, Handling
  <2>2. Typed' /\ LiveInv'
    BY <1>8, LeaveActivationLive, ThreadDiesLive
  <2> QED
    BY <1>1, <2>1, <2>2
<1>9. CASE Catch \/ HandleResume \/ HandleYield
  <2>1. mode' \in {"run", "handle"}
    BY <1>9 DEF Catch, HandleResume, HandleYield, Restart
  <2>2. Typed' /\ LiveInv'
    BY <1>9, CatchLive, HandleResumeLive, HandleYieldLive
  <2> QED
    BY <1>1, <2>1, <2>2
<1>10. CASE Throw \/ SwitchRefused
  <2>1. /\ Longjmp(Error, pf)
        /\ UNCHANGED <<contexts, state, callstack, preventcount, resumer, curr_thread, depth, jmpbuf_ptr>>
    BY <1>10 DEF Throw, SwitchRefused, threads
  <2>2. mode' \notin {"fatal", "undefined"} => Typed' /\ LiveInv'
    BY <1>10, ThrowRefusedLive
  <2> QED
    BY <1>2, <1>2a, <2>1, <2>2, ErrorType, JumpStep
<1>11. ASSUME NEW r \in Threads, NEW e \in BOOLEAN, Resume(r, e)
      PROVE  Goal
  <2>1. PICK l : l = [type |-> "resume", thr |-> r, iserror |-> e]
    OBVIOUS
  <2>2. /\ Longjmp(l, pf) /\ l \in Jumps
        /\ UNCHANGED <<contexts, state, callstack, preventcount, resumer, curr_thread, depth, jmpbuf_ptr>>
    BY <1>11, <2>1 DEF Resume, threads, Jumps
  <2>3. mode' \notin {"fatal", "undefined"} => Typed' /\ LiveInv'
    BY <1>11, ResumeLive
  <2> QED
    BY <1>2, <1>2a, <2>2, <2>3, JumpStep
<1>12. ASSUME NEW e \in BOOLEAN, Yield(e)
      PROVE  Goal
  <2>1. PICK l : l = [type |-> "yield", thr |-> None, iserror |-> e]
    OBVIOUS
  <2>2. /\ Longjmp(l, pf) /\ l \in Jumps
        /\ UNCHANGED <<contexts, state, callstack, preventcount, resumer, curr_thread, depth, jmpbuf_ptr>>
    BY <1>12, <2>1 DEF Yield, threads, Jumps
  <2>3. mode' \notin {"fatal", "undefined"} => Typed' /\ LiveInv'
    BY <1>12, YieldLive
  <2> QED
    BY <1>2, <1>2a, <2>2, <2>3, JumpStep
<1>13. CASE SafeRefused
  <2>1. mode' = "landed" /\ depth' = depth
    BY <1>13, SafeRefusedLive DEF SafeRefused
  <2> QED
    BY <1>2, <1>13, <2>1, SafeRefusedLive, LimitsAssumption DEF Live
<1>14. CASE Rethrow
  <2>1. /\ Longjmp(lj, pf - 1) /\ mode = "handle"
        /\ UNCHANGED <<contexts, state, callstack, preventcount, resumer, curr_thread, depth, jmpbuf_ptr>>
    BY <1>14 DEF Rethrow, Handling, threads
  <2>2. PICK l \in Jumps, p \in Nat : l = lj /\ p = pf - 1
    BY <2>1 DEF IInv, ModeOK, HandleOK, Fin, Typed
  <2>3. mode' \notin {"fatal", "undefined"} => Typed' /\ LiveInv'
    BY <1>14, RethrowLive
  <2> QED
    BY <1>2, <1>2a, <2>1, <2>2, <2>3, JumpStep
<1>15. CASE NativeReturn \/ ReturnFromExecutor \/ SafeReturn \/ SafeError
  <2>1. mode' = "run"
    BY <1>15 DEF NativeReturn, ReturnFromExecutor, SafeReturn, SafeError, In
  <2>2. Typed' /\ LiveInv'
    BY <1>15, ReturnLive, SafeErrorLive
  <2> QED
    BY <1>1, <2>1, <2>2
<1>16. CASE SafeEnter \/ ExecutorError
  <2>1. mode' \in {"run", "handle"}
    BY <1>16 DEF SafeEnter, ExecutorError
  <2>2. Typed' /\ LiveInv'
    BY <1>16, SafeEnterLive, ExecutorErrorLive
  <2> QED
    BY <1>1, <2>1, <2>2
<1>17. ~Stopped
  BY DEF Stopped, Live
<1>18. CASE GoFails
  <2>1. PICK m : m = Len(cstack) - 1
    OBVIOUS
  <2>2. /\ m \in Nat /\ Len(cstack) = m + 1 /\ jmpbuf_ptr \in 0 .. m
        /\ Len(Front(cstack)) = m /\ LongjmpFrom(Front(cstack), Error, pf)
    BY <1>18, <2>1, FailedFrom
  <2>3. Front(cstack) \in Seq(CallFrames)
    <3>1. cstack \in Seq(CallFrames) /\ \A i \in 1 .. m : cstack[i] \in CallFrames
      BY <2>2 DEF Typed
    <3> QED
      BY <2>2, <3>1, SubSeqProperties DEF Front
  <2>4. UNCHANGED <<contexts, state, callstack, preventcount, resumer, curr_thread, depth, jmpbuf_ptr>>
    BY <1>18 DEF GoFails, threads
  <2>5. mode' \notin {"fatal", "undefined"} => Typed' /\ LiveInv'
    BY <1>18, GoFailsLive
  <2> QED
    BY <1>2, <2>2, <2>3, <2>4, <2>5, ErrorType, JumpStep
<1> QED
  BY <1>3, <1>4, <1>5, <1>6, <1>7, <1>8, <1>9, <1>10, <1>11, <1>12, <1>13, <1>14, <1>15, <1>16,
     <1>17, <1>18 DEF Next

\* Where nothing happens.
LEMMA TStutter ==
  ASSUME TInv, UNCHANGED vars
  PROVE  TInv'
<1>1. UNCHANGED <<contexts, state, callstack, preventcount, resumer, curr_thread,
                  depth, pf, lj, jmpbuf_ptr, cstack, mode>>
  BY DEF vars
<1>2. Typed' /\ (Books => Books')
  BY <1>1 DEF TInv, Typed, Books
<1>3. IInv'
  BY StepHolds DEF TInv
<1>4. ASSUME LiveInv PROVE LiveInv'
  <2>1. Threaded'
    <3>1m. PICK m \in Nat : \E h, d : Placed(m) /\ Threading(m, h, d)
      BY <1>4 DEF LiveInv, Threaded
    <3>1. PICK h, d : Placed(m) /\ Threading(m, h, d)
      BY <3>1m
    <3>2. Threading(m, h, d)'
      BY <1>1, <3>1, SameThreading DEF TInv, Cur
    <3>3. Placed(m)'
      BY <1>1, <3>1 DEF Placed, Pending, Top
    <3> QED
      BY <3>2, <3>3 DEF Threaded
  <2>2. Standing' /\ Natives' /\ Counts'
    BY <1>1, <1>4 DEF LiveInv, Standing, Stands, Exact, Natives, Counts, Extra, SafeFrames
  <2>3. JumpOK' /\ Limits' /\ HeapOK'
    BY <1>1, <1>4 DEF LiveInv, JumpOK, JumpReady, SuspendedIn, Resumed, Limits, Top, HeapOK, IsFin
  <2> QED
    BY <2>1, <2>2, <2>3 DEF LiveInv
<1>5. Live' = Live
  BY <1>1 DEF Live
<1> QED
  BY <1>1, <1>2, <1>3, <1>4, <1>5 DEF TInv

LEMMA TStep == TInv /\ [Next]_vars => TInv'
<1> SUFFICES ASSUME TInv, [Next]_vars PROVE TInv'
  OBVIOUS
<1>1. CASE UNCHANGED vars
  BY <1>1, TStutter
<1>2. CASE Next /\ ~Live
  BY <1>2, DeadStays, TStutter
<1>3. CASE Next /\ Live
  <2>1. Typed /\ IInv /\ LiveInv /\ (mode = "landed" => depth <= CallRecursionLimit)
    BY <1>3 DEF TInv
  <2>2. Books
    BY <1>3, <2>1, BooksHold
  <2>3. IInv'
    BY <1>3, <2>1, StepHolds
  <2>4. /\ Typed'
        /\ IF Live' THEN LiveInv' /\ (mode' = "landed" => depth' <= CallRecursionLimit) ELSE Books'
    BY <1>3, <2>1, <2>2, TNext
  <2> QED
    BY <2>3, <2>4 DEF TInv
<1> QED
  BY <1>1, <1>2, <1>3

\* The threads' invariant holds in every reachable state: whatever calls,
\* errors, resumes, yields and finalizers have done, each part of the C stack
\* belongs to one thread or to an executor and the coroutines it has resumed,
\* and their callstacks have what these calls go back to (duktape.c:68406,
\* 68626, 78603).
THEOREM ThreadInvariant == Spec => []TInv
<1>1. Init => TInv
  BY TInit
<1>2. TInv /\ [Next]_vars => TInv'
  BY TStep
<1> QED
  BY <1>1, <1>2, PTL DEF Spec

LEMMA TBooks == TInv => Books
BY BooksHold DEF TInv

\* The engine's call state keeps its shape; preventcount, which the C code
\* holds in an unsigned field, never falls below 0.
THEOREM TypesHold == Spec => []TypeOK
<1>1. TInv => TypeOK
  <2> SUFFICES ASSUME TInv PROVE TypeOK
    OBVIOUS
  <2>1. Typed /\ Books /\ mode \in {"run", "enter", "landed", "handle", "fatal", "undefined"}
    BY TBooks DEF TInv, IInv, ModeOK
  <2> QED
    BY <2>1 DEF TypeOK, Typed, Books, Acts, CallFrames, Jumps
<1> QED
  BY <1>1, ThreadInvariant, PTL

\* Under each C frame is what it goes back to (duktape.c:68406, 68626, 78603): no
\* error, resume or yield has unwound an activation, or moved the callstack,
\* of a call that is still on the C stack.
THEOREM EntriesKept == Spec => []EntriesStand
<1>1. TInv => EntriesStand
  <2> SUFFICES ASSUME TInv, mode \notin {"fatal", "undefined"}, NEW i \in DOMAIN cstack
               PROVE  LET f == cstack[i] IN
                      \/ f.kind \in Protected /\ Len(callstack[f.thr]) >= f.top
                      \/ /\ Len(callstack[f.thr]) > f.top
                         /\ callstack[f.thr][f.top + 1].kind = f.kind
                         /\ callstack[f.thr][f.top + 1].prevent
    BY DEF EntriesStand
  <2>1. Typed /\ LiveInv /\ i \in 1 .. Len(cstack)
    BY StackLen DEF TInv, Live, IInv
  <2>2. Stands(i) /\ cstack[i].top \in Nat /\ callstack[cstack[i].thr] \in Seq(Acts)
    BY <2>1, FrameType, FloorType DEF LiveInv, Standing
  <2>3. Len(callstack[cstack[i].thr]) \in Nat
    BY <2>2
  <2> QED
    BY <2>2, <2>3 DEF Stands, Floor
<1> QED
  BY <1>1, ThreadInvariant, PTL

\* All of what a call has changed is accounted for by the calls under way, the
\* yield prevention counts too (duktape.c:68314, 68793, 68934): a
\* thread that cannot yield is in a C call, and one in no C call can.
THEOREM BooksBalanced == Spec => []BooksBalance
<1>1. TInv => ThreadBooks
  <2> SUFFICES ASSUME TInv, mode = "run", NEW t \in Threads
               PROVE  preventcount[t] = Prevents(t, 0) + Cardinality(SafeFrames(t))
    BY DEF ThreadBooks
  <2>1. Typed /\ IInv /\ LiveInv
    BY DEF TInv, Live
  <2>2. callstack[t] \in Seq(Acts) /\ preventcount[t] \in Int
    BY <2>1 DEF Typed
  <2>3. Prevents(t, 0) = Cardinality(Preventing(callstack[t]))
    <3>1. 0 + 1 = 1
      OBVIOUS
    <3> QED
      BY <3>1 DEF Prevents, Preventing
  <2>4. Cardinality(Preventing(callstack[t])) \in Nat
    BY <2>2, PreventingType
  <2>5. Extra(t) = Cardinality(SafeFrames(t))
    BY <2>1 DEF LiveInv, Counts
  <2> QED
    BY <2>2, <2>3, <2>4, <2>5 DEF Extra
<1>2. TInv => (mode = "run" /\ cstack = <<>> =>
                 curr_thread = None /\ \A t \in Threads : state[t] \notin {"running", "resumed"})
  <2> SUFFICES ASSUME TInv, mode = "run", cstack = <<>>
               PROVE  curr_thread = None /\ \A t \in Threads : state[t] \notin {"running", "resumed"}
    OBVIOUS
  <2>1. Typed /\ IInv /\ LiveInv /\ Len(cstack) = 0
    BY DEF TInv, Live
  <2>2. PICK h, d : Threading(0, h, d)
    BY <2>1, Running
  <2>3. curr_thread = None
    BY <2>1, Running
  <2>4. ASSUME NEW t \in Threads, state[t] \in Active PROVE FALSE
    <3>1. Chained(t, 0, h, d) /\ ThreadOK(t, 0)
      BY <2>2 DEF Threading
    <3>2. Resumed(t)
      BY <2>4, <3>1 DEF ThreadOK
    <3>3. h[t] \in 1 .. 0
      BY <3>1, <3>2 DEF Chained
    <3> QED
      BY <3>3
  <2> QED
    BY <2>3, <2>4 DEF Active
<1> QED
  BY <1>1, <1>2, ThreadInvariant, NothingLeftOver, PTL DEF BooksBalance

\* What the executor's handling of jumps takes for granted of the threads, in
\* assertions that the build leaves out (duktape.c:78321, 78359, 78474, 78486,
\* 78622, 78864), is so.
THEOREM SwitchesHold == Spec => []SwitchesAgree
<1>1. TInv => SwitchesAgree
  <2> SUFFICES ASSUME TInv, Live PROVE SwitchesAgree
    BY DEF SwitchesAgree, Live
  <2>1. Typed /\ IInv /\ LiveInv
    BY DEF TInv
  <2>2m. PICK m \in Nat : \E h, d : Threading(m, h, d)
    BY <2>1 DEF LiveInv, Threaded
  <2>2. PICK h, d : Threading(m, h, d)
    BY <2>2m
  <2>3. curr_thread # None => state[curr_thread] = "running"
    BY <2>2 DEF Threading
  <2>4. ASSUME NEW t \in Threads
        PROVE  /\ state[t] = "yielded" => SuspendedIn(t, "yield")
               /\ state[t] = "resumed" =>
                    SuspendedIn(t, "resume") /\ \E u \in Threads : resumer[u] = t
               /\ resumer[t] # None =>
                    state[resumer[t]] = "resumed" /\ state[t] \in {"running", "resumed"}
    BY <2>2 DEF Threading, ThreadOK, Chained, Resumed, Active
  <2>5. ASSUME mode = "handle"
        PROVE  /\ lj.type = "resume" =>
                    /\ SuspendedIn(curr_thread, "resume")
                    /\ resumer[lj.thr] = None
                    /\ state[lj.thr] = "inactive" =>
                         depth < CallRecursionLimit /\ callstack[lj.thr] = <<>>
               /\ lj.type = "yield" =>
                    SuspendedIn(curr_thread, "yield") /\ resumer[curr_thread] # None
               /\ callstack[curr_thread] = <<>> => resumer[curr_thread] # None
    <3>1. JumpReady(lj, Len(cstack)) /\ HandleOK
      BY <2>1, <2>5 DEF LiveInv, JumpOK, IInv, ModeOK
    <3>2. Len(cstack) > 0 /\ depth = Len(cstack) /\ Top.kind = "ecma"
      BY <3>1 DEF HandleOK
    <3>3. lj.type = "resume" => resumer[lj.thr] = None
      <4>1. lj.type = "resume" => lj.thr \in Threads /\ state[lj.thr] \notin Active
        BY <3>1 DEF JumpReady, Threads, Active
      <4> QED
        BY <2>2, <4>1 DEF Threading, Chained, Resumed
    <3>4. ASSUME callstack[curr_thread] = <<>> PROVE resumer[curr_thread] # None
      <4>1. PICK n \in Nat : n = Len(cstack)
        BY <2>1, StackLen DEF IInv
      <4>2. n \in 1 .. Len(cstack) /\ Top = cstack[n]
        BY <3>2, <4>1 DEF Top
      <4>3. Stands(n) /\ Top.top \in Nat
        BY <2>1, <4>2, FrameType DEF LiveInv, Standing
      <4>4. Top.top + 1 <= Len(callstack[Top.thr])
        BY <3>2, <4>2, <4>3 DEF Stands, Floor, Protected
      <4>5. curr_thread # Top.thr
        <5>1. Len(<<>>) = 0
          OBVIOUS
        <5> QED
          BY <3>4, <4>3, <4>4, <5>1
      <4> QED
        BY <2>1, <2>5, <3>2, <4>5, Control DEF LiveInv, Resumed
    <3> QED
      BY <3>1, <3>2, <3>3, <3>4 DEF JumpReady, Resumed
  <2> QED
    BY <2>3, <2>4, <2>5 DEF SwitchesAgree
<1> QED
  BY <1>1, ThreadInvariant, PTL

\* Finalizers are called on heap_thread.
FinHeap == \A i \in 1 .. Len(cstack) : IsFin(i) => cstack[i].thr = HeapThread

LEMMA FinHeapPush ==
  ASSUME IInv, FinHeap, NEW k, NEW t, NEW by, cstack' = Append(cstack, NewFrame(k, t, by)),
         k = "finalizer" => t = HeapThread
  PROVE  FinHeap'
<1>1. PICK f : f = NewFrame(k, t, by)
  OBVIOUS
<1>2. f.kind = k /\ f.thr = t
  BY <1>1 DEF NewFrame
<1>3. PICK n \in Nat : n = Len(cstack)
  BY StackLen DEF IInv
<1>4. /\ Len(cstack') = n + 1 /\ cstack'[n + 1] = f
      /\ \A i \in 1 .. n : cstack'[i] = cstack[i]
  BY <1>1, <1>3, Push DEF IInv
<1>5. \A i \in 1 .. n + 1 : i \in 1 .. n \/ i = n + 1
  OBVIOUS
<1> QED
  BY <1>2, <1>3, <1>4, <1>5 DEF FinHeap, IsFin

LEMMA FinHeapCut ==
  ASSUME IInv, FinHeap, NEW n \in 0 .. Len(cstack), cstack' = SubSeq(cstack, 1, n)
  PROVE  FinHeap'
<1>1. Len(cstack') = n /\ \A i \in 1 .. n : cstack'[i] = cstack[i] /\ i \in 1 .. Len(cstack)
  BY Cut, StackLen DEF IInv
<1> QED
  BY <1>1 DEF FinHeap, IsFin

LEMMA FinHeapStep ==
  ASSUME TInv, FinHeap, [Next]_vars
  PROVE  FinHeap'
<1>1. IInv /\ Books /\ Len(cstack) \in Nat
  BY TBooks, StackLen DEF TInv, IInv
<1>2. CASE UNCHANGED cstack
  BY <1>2 DEF FinHeap, IsFin
<1>3. ASSUME NEW l, NEW p, Longjmp(l, p) PROVE FinHeap'
  <2>1. cstack' = cstack \/ cstack' = SubSeq(cstack, 1, jmpbuf_ptr)
    BY <1>3 DEF Longjmp, LongjmpFrom
  <2> QED
    BY <1>1, <1>2, <2>1, FinHeapCut DEF Books
<1>4. ASSUME cstack # <<>>, cstack' = Front(cstack) PROVE FinHeap'
  <2>1. Len(cstack) - 1 \in 0 .. Len(cstack)
    BY <1>1, <1>4, StackLen DEF IInv
  <2> QED
    BY <1>1, <1>4, <2>1, FinHeapCut DEF Front
<1>5. ASSUME NEW t \in Threads, NEW by \in {"C", "Go"}, NEW k \in Functions, Call(t, k, by)
      PROVE  FinHeap'
  <2>1. cstack' = Append(cstack, NewFrame(k, t, by)) /\ k # "finalizer"
    BY <1>5 DEF Call, Functions
  <2> QED
    BY <1>1, <2>1, FinHeapPush
<1>6. ASSUME NEW t \in Threads, NEW by \in {"C", "Go"}, SafeCall(t, by)
      PROVE  FinHeap'
  <2>1. cstack' = Append(cstack, NewFrame("safe", t, by))
    BY <1>6 DEF SafeCall, Protect
  <2> QED
    BY <1>1, <2>1, FinHeapPush
<1>7. CASE Finalizer
  <2>1. cstack' = Append(cstack, NewFrame("finalizer", HeapThread, "C"))
    BY <1>7 DEF Finalizer, Protect
  <2> QED
    BY <1>1, <2>1, FinHeapPush
<1>8. ASSUME NEW t \in Threads, NEW by \in {"C", "Go"}, CallRefused(t, by)
      PROVE  FinHeap'
  BY <1>3, <1>8 DEF CallRefused
<1>9. ASSUME NEW r \in Threads, NEW e \in BOOLEAN, Resume(r, e)
      PROVE  FinHeap'
  BY <1>3, <1>9 DEF Resume
<1>10. ASSUME NEW e \in BOOLEAN, Yield(e)
       PROVE  FinHeap'
  BY <1>3, <1>10 DEF Yield
<1>11. CASE Throw \/ SwitchRefused \/ SafeRefused \/ Rethrow
  BY <1>3, <1>11 DEF Throw, SwitchRefused, SafeRefused, Rethrow
<1>12. CASE NativeReturn \/ ReturnFromExecutor \/ SafeReturn
  BY <1>4, <1>12 DEF NativeReturn, ReturnFromExecutor, SafeReturn, In, Restore
<1>13. CASE SafeError
  <2>1. cstack # <<>> /\ cstack' = Front(cstack)
    BY <1>1, <1>13, StackLen DEF SafeError, Restore, IInv, ModeOK, LandedOK
  <2> QED
    BY <1>4, <2>1
<1>15. CASE GoFails
  <2>1. PICK m : m = Len(cstack) - 1
    OBVIOUS
  <2>2. /\ m \in Nat /\ Len(cstack) = m + 1 /\ jmpbuf_ptr \in 0 .. m
        /\ \A j \in 0 .. m : SubSeq(Front(cstack), 1, j) = SubSeq(cstack, 1, j)
        /\ LongjmpFrom(Front(cstack), Error, pf)
    BY <1>1, <1>15, <2>1, FailedFrom
  <2>3. cstack' = Front(cstack) \/ cstack' = SubSeq(cstack, 1, jmpbuf_ptr)
    BY <2>2 DEF LongjmpFrom
  <2>4. cstack # <<>> /\ jmpbuf_ptr \in 0 .. Len(cstack)
    BY <2>2
  <2> QED
    BY <1>1, <1>4, <2>3, <2>4, FinHeapCut
<1>14. CASE \/ EcmaCall \/ TailCall \/ TryCatch \/ ReturnToFinally \/ ReturnToCaller
            \/ ReturnToResumer \/ SafeEnter \/ ExecutorError \/ HandleResume \/ HandleYield
            \/ Catch \/ UnwindActivation \/ ThreadDies \/ Stopped \/ UNCHANGED vars
  <2>1. UNCHANGED cstack
    BY <1>14 DEF EcmaCall, TailCall, TryCatch, ReturnToFinally, ReturnToCaller, ReturnToResumer,
       SafeEnter, ExecutorError, HandleResume, HandleYield, Catch, UnwindActivation, ThreadDies,
       Stopped, vars
  <2> QED
    BY <1>2, <2>1
<1> QED
  BY <1>5, <1>6, <1>7, <1>8, <1>9, <1>10, <1>11, <1>12, <1>13, <1>14, <1>15 DEF Next

\* A finalizer whose call is refused, at no limit, finds heap_thread resuming.
LEMMA FinalizerRefused ==
  ASSUME TInv, FinHeap, SafeRefused, Frame.kind = "finalizer"
  PROVE  depth = CallRecursionLimit \/ (state[HeapThread] = "resumed" /\ HeapThread \in contexts)
<1>1. Typed /\ IInv /\ LiveInv /\ mode = "enter"
  BY DEF TInv, Live, SafeRefused
<1>2m. PICK m \in Nat : \E h, d :
           /\ Len(cstack) = m + 1 /\ Threading(m, h, d) /\ Cur(m) = curr_thread
           /\ Pending /\ Frame = cstack[m + 1] /\ Frame.thr \in Threads
  BY <1>1, Entering
<1>2. PICK h, d :
           /\ Len(cstack) = m + 1 /\ Threading(m, h, d) /\ Cur(m) = curr_thread
           /\ Pending /\ Frame = cstack[m + 1] /\ Frame.thr \in Threads
  BY <1>2m
<1>3. PICK t : t = HeapThread
  OBVIOUS
<1>4. t \in Threads /\ t \notin Coroutines /\ Frame.thr = t /\ IsFin(m + 1)
  <2>1. m + 1 \in 1 .. Len(cstack)
    BY <1>2
  <2> QED
    BY <1>2, <1>3, <2>1, ThreadsAssumption DEF FinHeap, IsFin
<1>5. SUFFICES ASSUME ~MayStart(t)
               PROVE  state[t] = "resumed" /\ t \in contexts
  BY <1>3, <1>4 DEF SafeRefused
<1>6. ThreadOK(t, m) /\ ~Resumed(t) /\ state[t] \in States
  BY <1>1, <1>2, <1>4 DEF Threading, Chained, Typed
<1>7. t # curr_thread /\ state[t] \in Active
  <2>1. t = curr_thread => state[t] = "running"
    BY <1>2, <1>4, ThreadsAssumption DEF Threading
  <2> QED
    BY <1>4, <1>5, <1>6, <2>1 DEF MayStart, ThreadOK, States, Active
<1>8. t \in contexts
  <2> SUFFICES ASSUME t \notin contexts PROVE FALSE
    OBVIOUS
  <2>1. PICK i \in 1 .. m : cstack[i].thr = t
    BY <1>6, <1>7 DEF ThreadOK
  <2>2. i \in 1 .. Len(cstack)
    BY <1>2
  <2>3. PICK j \in 1 .. i : IsFin(j)
    BY <1>1, <1>3, <2>1, <2>2 DEF LiveInv, HeapOK
  <2>4. j \in 1 .. Len(cstack) /\ m + 1 \in 1 .. Len(cstack) /\ j # m + 1
    BY <1>2
  <2> QED
    BY <1>1, <1>4, <2>3, <2>4 DEF IInv, FinOnce
<1>9. state[t] # "running"
  <2> SUFFICES ASSUME state[t] = "running" PROVE FALSE
    OBVIOUS
  <2>1. PICK i \in 1 .. m - 1 : t = Cur(i) /\ cstack[i + 1].thr # Cur(i)
    BY <1>6, <1>7 DEF ThreadOK
  <2>2. i + 1 \in 1 .. m /\ i + 1 - 1 = i
    OBVIOUS
  <2>3. Entered(i + 1)
    BY <1>2, <2>2 DEF Threading
  <2>4. cstack[i + 1].thr \in contexts \cup {HeapThread}
    BY <2>1, <2>2, <2>3 DEF Entered
  <2>5. contexts = {HeapThread}
    BY <1>1, <1>3, <1>8, ThreadsAssumption DEF Typed
  <2> QED
    BY <1>3, <2>1, <2>4, <2>5
<1> QED
  BY <1>7, <1>8, <1>9 DEF Active

\* A finalizer is called unless the recursion limit is reached or heap_thread
\* waits in a coroutine's resume (duktape.c:67993, 51921): nothing else of what
\* scripts and Go functions do can lose what it gives back to the Go side.
THEOREM FinalizersCalled == Spec => FinalizersRun
<1> DEFINE Refused ==
      mode = "enter" /\ Frame.kind = "finalizer" /\ mode' = "landed" =>
        \/ depth = CallRecursionLimit
        \/ state[HeapThread] = "resumed" /\ HeapThread \in contexts
<1>1. Init => FinHeap
  BY DEF Init, FinHeap
<1>2. TInv /\ FinHeap /\ [Next]_vars => FinHeap'
  BY FinHeapStep
<1>3. TInv /\ FinHeap /\ [Next]_vars => [Refused]_vars
  <2> SUFFICES ASSUME TInv, FinHeap, Next, mode = "enter", Frame.kind = "finalizer", mode' = "landed"
               PROVE  \/ depth = CallRecursionLimit
                      \/ state[HeapThread] = "resumed" /\ HeapThread \in contexts
    OBVIOUS
  <2>1. SafeRefused
    <3>1. ~ (\E t \in Threads, by \in {"C", "Go"} :
               (\E k \in Functions : Call(t, k, by)) \/ CallRefused(t, by) \/ SafeCall(t, by))
      BY DEF Call, CallRefused, SafeCall, CanCall, In, GoRuns
    <3>2. ~ (EcmaCall \/ TailCall \/ TryCatch \/ Throw \/ NativeReturn \/ ReturnToFinally
             \/ ReturnFromExecutor \/ ReturnToCaller \/ ReturnToResumer \/ Finalizer \/ SafeReturn
             \/ SwitchRefused \/ GoFails)
      BY DEF EcmaCall, TailCall, TryCatch, Throw, GoRuns, NativeReturn, ReturnToFinally,
         ReturnFromExecutor, ReturnToCaller, ReturnToResumer, Finalizer, SafeReturn, SwitchRefused,
         GoFails, In
    <3>3. ~ (SafeEnter \/ SafeError \/ ExecutorError \/ HandleResume \/ HandleYield
             \/ Catch \/ UnwindActivation \/ Rethrow \/ ThreadDies \/ Stopped)
      BY DEF SafeEnter, SafeError, ExecutorError, HandleResume, HandleYield,
         Catch, UnwindActivation, Rethrow, ThreadDies, Handling, Stopped
    <3>4. ~ ((\E r \in Threads, e \in BOOLEAN : Resume(r, e)) \/ (\E e \in BOOLEAN : Yield(e)))
      BY DEF Resume, Yield, In
    <3> QED
      BY <3>1, <3>2, <3>3, <3>4 DEF Next
  <2> QED
    BY <2>1, FinalizerRefused
<1>4. FinalizersRun <=> [][Refused]_vars
  BY DEF FinalizersRun
<1> QED
  BY <1>1, <1>2, <1>3, <1>4, ThreadInvariant, PTL DEF Spec
=============================================================================
