------------------------------- MODULE Calls -------------------------------
(***************************************************************************)
(* Calls in the engine (duktape.c): how a call enters and leaves, what a   *)
(* longjmp unwinds, coroutines, and the ways in which Go enters the engine *)
(* and is entered by it.                                                   *)
(*                                                                         *)
(* One C stack (cstack) serves all threads of a heap; each thread has a    *)
(* callstack of its own.  A frame of cstack is a duk__handle_call_raw,     *)
(* which runs a native function, a Go function or (with a setjmp of its    *)
(* own) the bytecode executor, or a duk_handle_safe_call.  Frames restore, *)
(* when they are left in whichever way, what they saved when entered.      *)
(*                                                                         *)
(* The program is any program: the function in control calls, throws,      *)
(* returns, resumes and yields as it likes.  Values, memory (no allocation *)
(* fails), the locks of JsContexts (see CtxLocks) and finalize_list (see   *)
(* HeapGC) are left out.  A getter, a setter or a coercion that runs a     *)
(* script is a call like any other, also when Go code causes it.           *)
(***************************************************************************)
EXTENDS Naturals, FiniteSets, SequencesExt

CONSTANTS
  HeapThread,      \* heap->heap_thread
  SharedThreads,   \* threads NewContext has pushed in the shared heap
  Coroutines,      \* threads that scripts have made
  None,            \* no thread
  CallRecursionLimit,  \* heap->call_recursion_limit
  CallstackLimit,      \* DUK_USE_CALLSTACK_LIMIT
  MaxTries             \* bound: try statements under way at once

Threads == {HeapThread} \cup SharedThreads \cup Coroutines

ASSUME ThreadsAssumption ==
  /\ IsFiniteSet(Threads) /\ None \notin Threads
  /\ HeapThread \notin SharedThreads \cup Coroutines
  /\ SharedThreads \cap Coroutines = {}
ASSUME LimitsAssumption ==
  /\ CallRecursionLimit \in Nat \ {0} /\ CallstackLimit \in Nat \ {0}
  /\ MaxTries \in Nat

VARIABLES
  contexts,      \* the threads of the heap's JsContexts
  state,         \* state of each thread
  callstack,     \* activations of each thread
  preventcount,  \* callstack_preventcount of each thread
  resumer,       \* resumer of each thread, or None
  curr_thread,   \* heap->curr_thread
  depth,         \* heap->call_recursion_depth
  pf,            \* heap->pf_prevent_count
  lj,            \* heap->lj, but for the jmpbuf
  jmpbuf_ptr,    \* the frame of cstack that heap->lj.jmpbuf_ptr is of, or 0
  cstack,        \* the C stack: frames of calls
  mode           \* what the C code is at

threads == <<state, callstack, preventcount, resumer, curr_thread>>
jump == <<pf, lj, jmpbuf_ptr>>
vars == <<contexts, state, callstack, preventcount, resumer, curr_thread,
          depth, pf, lj, jmpbuf_ptr, cstack, mode>>

States == {"inactive", "running", "resumed", "yielded", "terminated"}
Functions == {"ecma", "native", "go", "resume", "yield"}
Protected == {"safe", "finalizer"}
Jmpbufs == {"ecma"} \cup Protected
NoJump == [type |-> "none", thr |-> None, iserror |-> FALSE]
Error == [type |-> "throw", thr |-> None, iserror |-> TRUE]

Activation(k, p) == [kind |-> k, prevent |-> p, enabled |-> {}]

\* The handlers of the innermost try statement of an activation that are
\* enabled are its "catch" and "finally" flags; at most one statement deep.
TypeOK ==
  /\ contexts \in {{HeapThread}, SharedThreads}
  /\ state \in [Threads -> States]
  /\ callstack \in [Threads -> Seq([kind : Functions, prevent : BOOLEAN,
                                    enabled : SUBSET {"catch", "finally"}])]
  /\ preventcount \in [Threads -> Nat]
  /\ resumer \in [Threads -> Threads \cup {None}]
  /\ curr_thread \in Threads \cup {None}
  /\ depth \in 0..CallRecursionLimit /\ pf \in Nat
  /\ lj \in [type : {"none", "throw", "resume", "yield"},
             thr : Threads \cup {None}, iserror : BOOLEAN]
  /\ jmpbuf_ptr \in 0..Len(cstack)
  /\ cstack \in Seq([kind : Functions \cup Protected, thr : Threads,
                     top : Nat, depth : Nat, curr : Threads \cup {None},
                     state : States, jmpbuf : Nat,
                     by : {"C", "Go"}])
  /\ mode \in {"run", "enter", "landed", "handle", "fatal", "undefined"}

Init ==
  /\ contexts \in {{HeapThread}, SharedThreads}
  /\ state = [t \in Threads |-> "inactive"]
  /\ callstack = [t \in Threads |-> <<>>]
  /\ preventcount = [t \in Threads |-> 0]
  /\ resumer = [t \in Threads |-> None]
  /\ curr_thread = None /\ depth = 0 /\ pf = 0
  /\ lj = NoJump /\ jmpbuf_ptr = 0 /\ cstack = <<>> /\ mode = "run"

-----------------------------------------------------------------------------
(* Who is in control, and small steps that many actions share *)

Frame == Last(cstack)
Act(t) == Last(callstack[t])
In(kinds) == mode = "run" /\ cstack # <<>> /\ Frame.kind \in kinds

\* Go code runs outside of any call, or as a Go function that a script called.
GoRuns == mode = "run" /\ (cstack # <<>> => Frame.kind = "go")

\* Go holds its contexts, and, in closures of bindGoFunc, the threads that
\* called a Go function: a coroutine only if ProxyStores' lookups allow it.
GoHolds == contexts \cup {t \in Coroutines : state[t] # "inactive"}

\* Who may call on thread t now.
CanCall(t, by) ==
  \/ by = "C" /\ In(Jmpbufs \cup {"native"}) /\ t = curr_thread
  \/ by = "Go" /\ GoRuns /\ t \in GoHolds

\* The check of duk__call_thread_state_update, and its update.
MayStart(t) ==
  state[t] = IF t = curr_thread THEN "running" ELSE "inactive"
Start(t) ==
  /\ curr_thread' = t
  /\ state' = [state EXCEPT ![t] = "running"]

NewFrame(k, t, by) ==
  [kind |-> k, thr |-> t, top |-> Len(callstack[t]), depth |-> depth,
   curr |-> curr_thread, state |-> state[t], jmpbuf |-> jmpbuf_ptr, by |-> by]

\* How many activations of t beyond the first n prevent yields.
Prevents(t, n) ==
  Cardinality({i \in (n + 1)..Len(callstack[t]) : callstack[t][i].prevent})

\* Unwinding t to n activations; `more' comes off the count besides.
Unwind(t, n, more) ==
  /\ callstack' = [callstack EXCEPT ![t] = SubSeq(@, 1, n)]
  /\ preventcount' = [preventcount EXCEPT ![t] = @ - more - Prevents(t, n)]

\* Variant: the thread's state is not put back.
ForgetsState(f) ==
  /\ curr_thread' = f.curr /\ UNCHANGED state
  /\ depth' = f.depth
  /\ cstack' = Front(cstack)

\* What every frame restores.
Restore(f) ==
  /\ curr_thread' = f.curr
  /\ state' = [state EXCEPT ![f.thr] = f.state]
  /\ depth' = f.depth
  /\ cstack' = Front(cstack)

\* duk_err_longjmp, with pf_prevent_count at p, where the C stack has come to
\* frames.  Without a jmpbuf the fatal handler aborts.  A longjmp over frames
\* of Go code is undefined.
LongjmpFrom(frames, l, p) ==
  /\ lj' = l /\ pf' = p + 1
  /\ \/ /\ jmpbuf_ptr = 0
        /\ mode' = "fatal" /\ cstack' = frames
     \/ /\ jmpbuf_ptr # 0
        /\ \E i \in (jmpbuf_ptr + 1)..Len(frames) : frames[i].kind = "go"
        /\ mode' = "undefined" /\ cstack' = frames
     \/ /\ jmpbuf_ptr # 0
        /\ \A i \in (jmpbuf_ptr + 1)..Len(frames) : frames[i].kind # "go"
        /\ mode' = "landed" /\ cstack' = SubSeq(frames, 1, jmpbuf_ptr)
Longjmp(l, p) == LongjmpFrom(cstack, l, p)

-----------------------------------------------------------------------------
(* Calls and returns *)

\* duk__handle_call_raw: a call that takes C stack.
Call(t, k, by) ==
  /\ CanCall(t, by) /\ MayStart(t)
  /\ depth < CallRecursionLimit /\ Len(callstack[t]) < CallstackLimit
  /\ Start(t) /\ depth' = depth + 1
  /\ callstack' = [callstack EXCEPT ![t] = Append(@, Activation(k, TRUE))]
  /\ preventcount' = [preventcount EXCEPT ![t] = @ + 1]
  /\ cstack' = Append(cstack, NewFrame(k, t, by))
  /\ jmpbuf_ptr' = IF k = "ecma" THEN Len(cstack) + 1 ELSE jmpbuf_ptr
  /\ UNCHANGED <<contexts, resumer, pf, lj, mode>>

\* The error paths before the function runs: the thread's state; the limit;
\* what is called is no function, or the callstack is full.
CallRefused(t, by) ==
  /\ CanCall(t, by)
  /\ \/ ~MayStart(t) /\ UNCHANGED <<curr_thread, state, depth>>
     \/ /\ MayStart(t) /\ depth = CallRecursionLimit
        /\ Start(t) /\ UNCHANGED depth
     \/ /\ MayStart(t) /\ depth < CallRecursionLimit
        /\ Start(t) /\ depth' = depth + 1
  /\ Longjmp(Error, pf)
  /\ UNCHANGED <<contexts, callstack, preventcount, resumer, jmpbuf_ptr>>

\* A call between ECMAScript functions stays in the executor.
EcmaCall ==
  /\ In({"ecma"})
  /\ depth < CallRecursionLimit /\ Len(callstack[curr_thread]) < CallstackLimit
  /\ callstack' = [callstack EXCEPT ![curr_thread] =
                     Append(@, Activation("ecma", FALSE))]
  /\ UNCHANGED <<contexts, state, preventcount, resumer, curr_thread, depth,
                 jump, cstack, mode>>

\* A tail call reuses the activation, unless it is an executor's first.
Reusable(a) == ~a.prevent
TailCall ==
  /\ In({"ecma"}) /\ depth < CallRecursionLimit
  /\ Reusable(Act(curr_thread)) /\ Act(curr_thread).enabled = {}
  /\ callstack' = [callstack EXCEPT ![curr_thread] =
                     Append(Front(@), Activation("ecma", FALSE))]
  /\ UNCHANGED <<contexts, state, preventcount, resumer, curr_thread, depth,
                 jump, cstack, mode>>

\* A native or Go function returns.
NativeReturn ==
  /\ In({"native", "go"})
  /\ Unwind(Frame.thr, Frame.top, 0) /\ Restore(Frame)
  /\ UNCHANGED <<contexts, resumer, jump, mode>>

\* Scripts, native functions, and what a protected call runs may throw; so
\* may what Go code itself asks of the engine outside of any call, as a
\* duk_push_proxy with what a script has put in the handler's place.
Throw ==
  /\ In(Jmpbufs \cup {"native"}) \/ GoRuns
  /\ Longjmp(Error, pf)
  /\ UNCHANGED <<contexts, threads, depth, jmpbuf_ptr>>

\* A Go function returns DUK_RET_ERROR: its C frame is left, and the engine
\* throws.
GoFails ==
  /\ In({"go"})
  /\ LongjmpFrom(Front(cstack), Error, pf)
  /\ UNCHANGED <<contexts, threads, depth, jmpbuf_ptr>>

\* Activations in a try statement.
Tries == {a \in Threads \X (1..CallstackLimit) :
            /\ a[2] <= Len(callstack[a[1]])
            /\ callstack[a[1]][a[2]].enabled # {}}
SetEnabled(t, handlers) ==
  callstack' = [callstack EXCEPT ![t][Len(callstack[t])].enabled = handlers]

\* TRYCATCH; the end of a part that no other follows; and what leaves a try
\* part through its finally part: ENDTRY, which disables the catch part
\* first, or break and continue, which do not.
TryCatch ==
  /\ In({"ecma"})
  /\ LET now == Act(curr_thread).enabled IN
     \/ /\ now = {} /\ Cardinality(Tries) < MaxTries
        /\ \E h \in (SUBSET {"catch", "finally"}) \ {{}} : SetEnabled(curr_thread, h)
     \/ /\ now # {} /\ SetEnabled(curr_thread, {})
     \/ /\ "finally" \in now /\ SetEnabled(curr_thread, now \ {"finally"})
  /\ UNCHANGED <<contexts, state, preventcount, resumer, curr_thread, depth,
                 jump, cstack, mode>>

\* Is the activation on top of t the one that the executor was entered with?
IsEntry(t) == t = Frame.thr /\ Len(callstack[t]) = Frame.top + 1

\* duk__handle_return, to the finally part of the statement it is in.
ReturnToFinally ==
  /\ In({"ecma"}) /\ "finally" \in Act(curr_thread).enabled
  /\ SetEnabled(curr_thread, Act(curr_thread).enabled \ {"finally"})
  /\ UNCHANGED <<contexts, state, preventcount, resumer, curr_thread, depth,
                 jump, cstack, mode>>

\* Out of the executor, and of the call that entered it.
ReturnFromExecutor ==
  /\ In({"ecma"}) /\ "finally" \notin Act(curr_thread).enabled
  /\ IsEntry(curr_thread)
  /\ Unwind(Frame.thr, Frame.top, 0) /\ Restore(Frame)
  /\ jmpbuf_ptr' = Frame.jmpbuf
  /\ UNCHANGED <<contexts, resumer, pf, lj, mode>>

ReturnToCaller ==
  /\ In({"ecma"}) /\ "finally" \notin Act(curr_thread).enabled
  /\ ~IsEntry(curr_thread) /\ Len(callstack[curr_thread]) >= 2
  /\ Unwind(curr_thread, Len(callstack[curr_thread]) - 1, 0)
  /\ UNCHANGED <<contexts, state, resumer, curr_thread, depth, jump, cstack,
                 mode>>

\* The last function of a coroutine returns to the resume call.
ReturnToResumer ==
  /\ In({"ecma"}) /\ "finally" \notin Act(curr_thread).enabled
  /\ ~IsEntry(curr_thread) /\ Len(callstack[curr_thread]) = 1
  /\ LET t == curr_thread
         r == resumer[t] IN
     /\ callstack' = [callstack EXCEPT ![t] = <<>>, ![r] = Front(@)]
     /\ preventcount' = [preventcount EXCEPT ![t] = @ - Prevents(t, 0),
                                             ![r] = @ - 1]
     /\ state' = [state EXCEPT ![t] = "terminated", ![r] = "running"]
     /\ resumer' = [resumer EXCEPT ![t] = None]
     /\ curr_thread' = r
  /\ UNCHANGED <<contexts, depth, jump, cstack, mode>>

-----------------------------------------------------------------------------
(* Protected calls: duk_handle_safe_call *)

\* Variant: the jmpbuf is set only after the checks.
LateJmpbuf(k, t, by) ==
  /\ cstack' = Append(cstack, NewFrame(k, t, by))
  /\ preventcount' = [preventcount EXCEPT ![t] = @ + 1]
  /\ mode' = "enter"
  /\ UNCHANGED <<contexts, state, callstack, resumer, curr_thread, depth, lj,
                 jmpbuf_ptr>>

\* Entry: the jmpbuf is set and yields are prevented before anything is
\* checked, so that what the checks throw is caught here.
Protect(k, t, by) ==
  /\ cstack' = Append(cstack, NewFrame(k, t, by))
  /\ jmpbuf_ptr' = Len(cstack) + 1
  /\ preventcount' = [preventcount EXCEPT ![t] = @ + 1]
  /\ mode' = "enter"
  /\ UNCHANGED <<contexts, state, callstack, resumer, curr_thread, depth, lj>>

SafeCall(t, by) ==
  /\ \/ by = "C" /\ In({"native"} \cup Protected) /\ t = curr_thread
     \/ by = "Go" /\ GoRuns /\ t \in contexts
  /\ Protect("safe", t, by)
  /\ UNCHANGED pf

\* duk_heap_process_finalize_list, wherever it may run: a finalizer is called
\* on heap_thread, whichever thread is current.
Finalizer ==
  /\ mode = "run" /\ pf = 0 /\ pf' = 1
  /\ Protect("finalizer", HeapThread, "C")

\* duk__handle_safe_call_inner, up to the function.
SafeEnter ==
  /\ mode = "enter" /\ MayStart(Frame.thr) /\ depth < CallRecursionLimit
  /\ Start(Frame.thr) /\ depth' = depth + 1 /\ mode' = "run"
  /\ UNCHANGED <<contexts, callstack, preventcount, resumer, jump, cstack>>

SafeRefused ==
  /\ mode = "enter"
  /\ \/ ~MayStart(Frame.thr) /\ UNCHANGED <<curr_thread, state>>
     \/ /\ MayStart(Frame.thr) /\ depth = CallRecursionLimit
        /\ Start(Frame.thr)
  /\ Longjmp(Error, pf)
  /\ UNCHANGED <<contexts, callstack, preventcount, resumer, depth, jmpbuf_ptr>>

\* A return, and an error (or what a finalizer that is Duktape.Thread.resume
\* throws), end the call alike.
SafeReturn ==
  /\ In(Protected)
  /\ Unwind(Frame.thr, Frame.top, 1) /\ Restore(Frame)
  /\ jmpbuf_ptr' = Frame.jmpbuf
  /\ pf' = IF Frame.kind = "finalizer" THEN 0 ELSE pf
  /\ UNCHANGED <<contexts, resumer, lj, mode>>

SafeError ==
  /\ mode = "landed" /\ Frame.kind \in Protected
  /\ Unwind(Frame.thr, Frame.top, 1) /\ Restore(Frame)
  /\ jmpbuf_ptr' = Frame.jmpbuf
  /\ pf' = IF Frame.kind = "finalizer" THEN 0 ELSE pf - 1
  /\ lj' = NoJump /\ mode' = "run"
  /\ UNCHANGED <<contexts, resumer>>

-----------------------------------------------------------------------------
(* Coroutines: Duktape.Thread.resume and Duktape.Thread.yield *)

AnyCaller(t) == Len(callstack[t]) >= 2  \* variant: whatever has called

\* The function that called the native function on top of t is ECMAScript.
EcmaCaller(t) ==
  Len(callstack[t]) >= 2 /\ callstack[t][Len(callstack[t]) - 1].kind = "ecma"

\* A thread that is inactive holds the function it was made with, unless it
\* is the thread of a context.
MayResume(t, r) ==
  /\ EcmaCaller(t)
  /\ \/ state[r] = "yielded"
     \/ state[r] = "inactive" /\ callstack[r] = <<>> /\ r \in Coroutines

Resume(r, iserror) ==
  /\ In({"resume"}) /\ MayResume(curr_thread, r)
  /\ Longjmp([type |-> "resume", thr |-> r, iserror |-> iserror], pf)
  /\ UNCHANGED <<contexts, threads, depth, jmpbuf_ptr>>

YieldsAnyway(t) == resumer[t] # None /\ EcmaCaller(t)  \* variant: not counted
MayYield(t) == resumer[t] # None /\ EcmaCaller(t) /\ preventcount[t] = 1

Yield(iserror) ==
  /\ In({"yield"}) /\ MayYield(curr_thread)
  /\ Longjmp([type |-> "yield", thr |-> None, iserror |-> iserror], pf)
  /\ UNCHANGED <<contexts, threads, depth, jmpbuf_ptr>>

\* "invalid state"
SwitchRefused ==
  /\ \/ In({"resume"}) /\ \E r \in Threads : ~MayResume(curr_thread, r)
     \/ In({"yield"}) /\ ~MayYield(curr_thread)
  /\ Longjmp(Error, pf)
  /\ UNCHANGED <<contexts, threads, depth, jmpbuf_ptr>>

-----------------------------------------------------------------------------
(* What the executor does after a longjmp: duk__handle_executor_error and   *)
(* duk__handle_longjmp                                                      *)

KeepsDepth ==   \* variant: the recursion depth stays
  /\ mode = "landed" /\ Frame.kind = "ecma"
  /\ UNCHANGED depth /\ jmpbuf_ptr' = Frame.jmpbuf
  /\ mode' = "handle"
  /\ UNCHANGED <<contexts, threads, pf, lj, cstack>>

ExecutorError ==
  /\ mode = "landed" /\ Frame.kind = "ecma"
  /\ depth' = Frame.depth + 1 /\ jmpbuf_ptr' = Frame.jmpbuf
  /\ mode' = "handle"
  /\ UNCHANGED <<contexts, threads, pf, lj, cstack>>

\* Back to running bytecode.
Restart ==
  /\ pf' = pf - 1 /\ lj' = NoJump /\ jmpbuf_ptr' = Len(cstack)
  /\ mode' = "run"

\* Control passes from t to the thread r it resumes, or back.
SwitchTo(t, r) ==
  /\ resumer' = [resumer EXCEPT ![r] = t]
  /\ state' = [state EXCEPT ![r] = "running", ![t] = "resumed"]
  /\ curr_thread' = r
SwitchBack(t, left) ==
  /\ resumer' = [resumer EXCEPT ![t] = None]
  /\ state' = [state EXCEPT ![t] = left, ![resumer[t]] = "running"]
  /\ curr_thread' = resumer[t]

HandleResume ==
  /\ mode = "handle" /\ lj.type = "resume"
  /\ SwitchTo(curr_thread, lj.thr)
  /\ \/ /\ lj.iserror
        /\ lj' = Error
        /\ UNCHANGED <<callstack, preventcount, pf, jmpbuf_ptr, mode>>
     \/ /\ ~lj.iserror /\ state[lj.thr] = "yielded"
        /\ Unwind(lj.thr, Len(callstack[lj.thr]) - 1, 0)
        /\ Restart
     \/ /\ ~lj.iserror /\ state[lj.thr] = "inactive"
        /\ callstack' = [callstack EXCEPT ![lj.thr] =
                           Append(@, Activation("ecma", FALSE))]
        /\ Restart /\ UNCHANGED preventcount
  /\ UNCHANGED <<contexts, depth, cstack>>

HandleYield ==
  /\ mode = "handle" /\ lj.type = "yield"
  /\ SwitchBack(curr_thread, "yielded")
  /\ \/ /\ lj.iserror
        /\ lj' = Error
        /\ UNCHANGED <<callstack, preventcount, pf, jmpbuf_ptr, mode>>
     \/ /\ ~lj.iserror
        /\ LET r == resumer[curr_thread] IN
             Unwind(r, Len(callstack[r]) - 1, 0)
        /\ Restart
  /\ UNCHANGED <<contexts, depth, cstack>>

Handling == mode = "handle" /\ lj.type = "throw"

\* The catch part, or else the finally part, of the top activation.
Catch ==
  /\ Handling /\ callstack[curr_thread] # <<>>
  /\ LET now == Act(curr_thread).enabled IN
     \/ "catch" \in now /\ SetEnabled(curr_thread, now \ {"catch"})
     \/ now = {"finally"} /\ SetEnabled(curr_thread, {})
  /\ Restart
  /\ UNCHANGED <<contexts, state, preventcount, resumer, curr_thread, depth,
                 cstack>>

UnwindActivation ==
  /\ Handling /\ callstack[curr_thread] # <<>>
  /\ Act(curr_thread).enabled = {} /\ ~IsEntry(curr_thread)
  /\ Unwind(curr_thread, Len(callstack[curr_thread]) - 1, 0)
  /\ UNCHANGED <<contexts, state, resumer, curr_thread, depth, jump, cstack,
                 mode>>

\* Out of the executor, to the next jmpbuf, with pf_prevent_count given back
\* and taken again.
Rethrow ==
  /\ Handling /\ callstack[curr_thread] # <<>>
  /\ Act(curr_thread).enabled = {} /\ IsEntry(curr_thread)
  /\ Longjmp(lj, pf - 1)
  /\ UNCHANGED <<contexts, threads, depth, jmpbuf_ptr>>

\* No function of the coroutine has caught the error: it terminates, and the
\* error goes on in its resumer.
ThreadDies ==
  /\ Handling /\ callstack[curr_thread] = <<>>
  /\ SwitchBack(curr_thread, "terminated")
  /\ UNCHANGED <<contexts, callstack, preventcount, depth, jump, cstack, mode>>

-----------------------------------------------------------------------------

\* The process has been aborted, or anything may happen.
Stopped == mode \in {"fatal", "undefined"} /\ UNCHANGED vars

Next ==
  \/ \E t \in Threads, by \in {"C", "Go"} :
       \/ \E k \in Functions : Call(t, k, by)
       \/ CallRefused(t, by)
       \/ SafeCall(t, by)
  \/ EcmaCall \/ TailCall \/ TryCatch \/ Throw \/ GoFails
  \/ NativeReturn \/ ReturnToFinally \/ ReturnFromExecutor
  \/ ReturnToCaller \/ ReturnToResumer
  \/ Finalizer \/ SafeEnter \/ SafeRefused \/ SafeReturn \/ SafeError
  \/ \E r \in Threads, iserror \in BOOLEAN : Resume(r, iserror)
  \/ \E iserror \in BOOLEAN : Yield(iserror)
  \/ SwitchRefused
  \/ ExecutorError \/ HandleResume \/ HandleYield
  \/ Catch \/ UnwindActivation \/ Rethrow \/ ThreadDies
  \/ Stopped

Spec == Init /\ [][Next]_vars

-----------------------------------------------------------------------------
(* Properties *)

\* The frames of cstack that catch, and those of finalizers.
Catching == {i \in DOMAIN cstack : cstack[i].kind \in Jmpbufs}
SafeFrames(t) ==
  {i \in DOMAIN cstack : cstack[i].kind \in Protected /\ cstack[i].thr = t}

\* What the C stack accounts for: the recursion depth is the number of calls
\* on it, the jmpbuf is that of the innermost call that has one, and
\* pf_prevent_count tells whether a finalizer runs.
StackBooks ==
  mode = "run" =>
    /\ depth = Len(cstack)
    /\ \/ Catching = {} /\ jmpbuf_ptr = 0
       \/ jmpbuf_ptr \in Catching /\ \A i \in Catching : i <= jmpbuf_ptr
    /\ pf = Cardinality({i \in DOMAIN cstack : cstack[i].kind = "finalizer"})

\* Every thread counts the activations and protected calls that prevent a
\* yield.
ThreadBooks ==
  mode = "run" =>
    \A t \in Threads :
      preventcount[t] = Prevents(t, 0) + Cardinality(SafeFrames(t))

\* While code runs, what a call has changed is accounted for by the calls that
\* are still under way, whatever mix of returns, errors, resumes and yields
\* went before (duktape.c:68450, 68617, 68701, 80067).  So nothing is left
\* over when no call runs.
BooksBalance ==
  /\ StackBooks
  /\ ThreadBooks
  /\ mode = "run" /\ cstack = <<>> =>
       curr_thread = None /\ \A t \in Threads : state[t] \notin {"running", "resumed"}

\* The activation that a call on the C stack is to unwind to, or an executor
\* is to stop at, is still on its thread's callstack and still prevents
\* yields: otherwise unwinding would run past it (duktape.c:68406, 68626,
\* 78603).
EntriesStand ==
  mode \notin {"fatal", "undefined"} =>
    \A i \in DOMAIN cstack :
      LET f == cstack[i] IN
      \/ f.kind \in Protected /\ Len(callstack[f.thr]) >= f.top
      \/ /\ Len(callstack[f.thr]) > f.top
         /\ callstack[f.thr][f.top + 1].kind = f.kind
         /\ callstack[f.thr][f.top + 1].prevent

\* The thread t is suspended in Duktape.Thread.resume or Duktape.Thread.yield,
\* called by an ECMAScript function.
SuspendedIn(t, builtin) ==
  LET n == Len(callstack[t]) IN
  n >= 2 /\ callstack[t][n].kind = builtin /\ callstack[t][n - 1].kind = "ecma"

\* What the executor's longjmp handling takes for granted of the two threads
\* (the assertions of duktape.c:78321, 78359, 78474, 78486, 78622 and 78864,
\* which the build leaves out): a thread that switches is running, who has
\* resumed it waits in resume, who is resumed waits in yield or is new, and
\* when an error has emptied a callstack there is a resumer.
SwitchesAgree ==
  mode \notin {"fatal", "undefined"} =>
    /\ curr_thread # None => state[curr_thread] = "running"
    /\ \A t \in Threads :
         /\ state[t] = "yielded" => SuspendedIn(t, "yield")
         /\ state[t] = "resumed" =>
              SuspendedIn(t, "resume") /\ \E u \in Threads : resumer[u] = t
         /\ resumer[t] # None =>
              state[resumer[t]] = "resumed" /\ state[t] \in {"running", "resumed"}
    /\ mode = "handle" =>
         /\ lj.type = "resume" =>
              /\ SuspendedIn(curr_thread, "resume")
              /\ resumer[lj.thr] = None
              /\ state[lj.thr] = "inactive" =>
                   depth < CallRecursionLimit /\ callstack[lj.thr] = <<>>
         /\ lj.type = "yield" =>
              SuspendedIn(curr_thread, "yield") /\ resumer[curr_thread] # None
         /\ callstack[curr_thread] = <<>> => resumer[curr_thread] # None

\* An error of the engine aborts the process, or passes over Go code, only
\* from above all protected calls: Go has entered the engine, or a script a
\* Go function, inside of the innermost of them.  So nothing that a pEval or
\* a finalizer call is running escapes it.  What Go does around its pEval is
\* not inside it: CallFunc, bound functions and closures (js-func.go:50,
\* context.go:205), and of Eval and GetGlobal the setters of setEnv and the
\* getters of fromJsValue (context.go:129, 139, 183, value.go:85, 111).
GoEntries == {i \in DOMAIN cstack : cstack[i].by = "Go" \/ cstack[i].kind = "go"}
EscapesUnprotected ==
  mode \in {"fatal", "undefined"} =>
    \A j \in DOMAIN cstack :
      cstack[j].kind \in Protected => \E i \in GoEntries : i > j

\* A finalizer is not called only if heap_thread waits in a coroutine's resume,
\* or at the recursion limit: its object goes all the same (duktape.c:67993,
\* 51921), and what it was to give back to the Go side stays.  In the shared
\* heap, where no script runs on heap_thread, the limit is the only reason.
FinalizersRun ==
  [][ mode = "enter" /\ Frame.kind = "finalizer" /\ mode' = "landed" =>
        \/ depth = CallRecursionLimit
        \/ state[HeapThread] = "resumed" /\ HeapThread \in contexts ]_vars
=============================================================================
