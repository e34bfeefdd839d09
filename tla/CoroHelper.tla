------------------------------ MODULE CoroHelper ------------------------------
(***************************************************************************)
(* rms::core::CoroHelper (flatasync/src/core/coro_helper.{h,cc}): a       *)
(* stackful coroutine over boost::coroutines2, and the thread-local        *)
(* pointer thrd_ptr_coro_helper through which the free functions Yield()   *)
(* and IsInsideCoroutine() find "the current coroutine".                   *)
(*                                                                         *)
(* The body of a coroutine is the caller's code: at every moment it may    *)
(* yield, return, throw, or itself use another CoroHelper.  stack[t] is    *)
(* the chain of coroutine bodies thread t is inside of, innermost last;    *)
(* it is the machine stack, which the code never reads.  A frame keeps     *)
(* what CoroHelper::Resume holds on that stack, the pointer it will swap   *)
(* back (`old`).                                                           *)
(*                                                                         *)
(* The caller's obligations, which the class does not check: a coroutine   *)
(* that some thread is inside of is neither started, resumed nor           *)
(* destroyed.  AsyncRunner is shown to meet them (UsesCoroutines).         *)
(***************************************************************************)
EXTENDS Naturals, Sequences

CONSTANTS
    Threads,     \* threads that use coroutines
    Coros,       \* CoroHelper objects
    Null,        \* nullptr
    MaxDepth     \* bound on how deep coroutines are used inside coroutines

VARIABLES
    coro,                   \* [Coros -> CoroStates], the unique_ptr coro_ and what it owns
    thrd_ptr_coro_helper,   \* [Threads -> Coros \cup {Null}], thread local
    stack                   \* [Threads -> Seq(Frame)], the bodies a thread is inside of

vars == <<coro, thrd_ptr_coro_helper, stack>>

CoroStates == {"empty", "running", "suspended", "finished", "destroyed"}

\* One body on a thread's stack. `resumed` tells a frame entered by Resume
\* from one entered by Start; `old` is Resume's saved pointer.
Frame == [coro : Coros, resumed : BOOLEAN, old : Coros \cup {Null}]

\* The body thread t is executing.
Top(t) == stack[t][Len(stack[t])]

Pop(s) == SubSeq(s, 1, Len(s) - 1)

OnSomeStack(c) == \E t \in Threads : \E i \in DOMAIN stack[t] : stack[t][i].coro = c

\* The caller's obligation: thread t may call a member of c that runs c's body.
MayEnter(t, c) ==
    /\ ~OnSomeStack(c)
    /\ coro[c] # "destroyed"
    /\ Len(stack[t]) < MaxDepth

\* Coroutines, the pointer and the stacks have their types, and stacks are as
\* deep as the caller is allowed to nest Start and Resume.
TypeOK ==
    /\ coro \in [Coros -> CoroStates]
    /\ thrd_ptr_coro_helper \in [Threads -> Coros \cup {Null}]
    /\ stack \in [Threads -> Seq(Frame)]
    /\ \A t \in Threads : Len(stack[t]) <= MaxDepth

Init ==
    /\ coro = [c \in Coros |-> "empty"]
    /\ thrd_ptr_coro_helper = [t \in Threads |-> Null]
    /\ stack = [t \in Threads |-> <<>>]

-----------------------------------------------------------------------------

\* CoroHelper::Start, and the constructor that takes a handler: coro_.reset()
\* destroys what c held before (a suspended body is unwound, its Guard clears
\* the pointer), then MakeCoroAndAutoStart runs the new body until it first
\* leaves; the body's Guard sets the pointer and nothing restores it.
Start(t, c) ==
    /\ MayEnter(t, c)
    /\ coro' = [coro EXCEPT ![c] = "running"]
    /\ thrd_ptr_coro_helper' = [thrd_ptr_coro_helper EXCEPT ![t] = c]
    /\ stack' = [stack EXCEPT ![t] = Append(@, [coro |-> c, resumed |-> FALSE, old |-> Null])]

\* CoroHelper::Resume of a usable coroutine: swap the pointer in and enter the
\* body.  On an unusable one (operator bool is false) Resume does nothing.
Resume(t, c) ==
    /\ MayEnter(t, c)
    /\ coro[c] = "suspended"
    /\ coro' = [coro EXCEPT ![c] = "running"]
    /\ thrd_ptr_coro_helper' = [thrd_ptr_coro_helper EXCEPT ![t] = c]
    /\ stack' = [stack EXCEPT ![t] =
                   Append(@, [coro |-> c, resumed |-> TRUE, old |-> thrd_ptr_coro_helper[t]])]

\* The pointer after the innermost call of t came back normally: Resume swaps
\* `old` back in, Start leaves what the body left behind.
PointerAfter(t, leftBehind) == IF Top(t).resumed THEN Top(t).old ELSE leftBehind

\* rms::core::Yield() and CoroHelper::Yield: control leaves the coroutine the
\* pointer names and comes back from the Start or Resume that entered it.
\* When the pointer names another coroutine than the one executing, the call
\* switches on a context that is not running: undefined, not explored further.
Yield(t) ==
    /\ stack[t] # <<>>
    /\ thrd_ptr_coro_helper[t] = Top(t).coro
    /\ coro' = [coro EXCEPT ![Top(t).coro] = "suspended"]
    /\ thrd_ptr_coro_helper' =
         [thrd_ptr_coro_helper EXCEPT ![t] = PointerAfter(t, thrd_ptr_coro_helper[t])]
    /\ stack' = [stack EXCEPT ![t] = Pop(@)]

\* The handler returns: the body's Guard clears the pointer.
Return(t) ==
    /\ stack[t] # <<>>
    /\ coro' = [coro EXCEPT ![Top(t).coro] = "finished"]
    /\ thrd_ptr_coro_helper' = [thrd_ptr_coro_helper EXCEPT ![t] = PointerAfter(t, Null)]
    /\ stack' = [stack EXCEPT ![t] = Pop(@)]

\* The handler throws: the Guard clears the pointer and the exception leaves
\* Start or Resume, skipping Resume's second swap.
Throw(t) ==
    /\ stack[t] # <<>>
    /\ coro' = [coro EXCEPT ![Top(t).coro] = "finished"]
    /\ thrd_ptr_coro_helper' = [thrd_ptr_coro_helper EXCEPT ![t] = Null]
    /\ stack' = [stack EXCEPT ![t] = Pop(@)]

\* ~CoroHelper: unwinding a suspended body enters it once more, and its Guard
\* clears the pointer of this thread.
Destroy(t, c) ==
    /\ ~OnSomeStack(c)
    /\ coro[c] # "destroyed"
    /\ coro[c] = "suspended" => Len(stack[t]) < MaxDepth
    /\ coro' = [coro EXCEPT ![c] = "destroyed"]
    /\ thrd_ptr_coro_helper' =
         IF coro[c] = "suspended" THEN [thrd_ptr_coro_helper EXCEPT ![t] = Null]
                                  ELSE thrd_ptr_coro_helper
    /\ UNCHANGED stack

Next ==
    \E t \in Threads :
        \/ \E c \in Coros : Start(t, c)
        \/ \E c \in Coros : Resume(t, c)
        \/ Yield(t)
        \/ Return(t)
        \/ Throw(t)
        \/ \E c \in Coros : Destroy(t, c)

Spec == Init /\ [][Next]_vars

-----------------------------------------------------------------------------
(* Properties. *)

\* The pointer names the coroutine whose body the thread executes, so that
\* Yield() suspends the body that calls it: stale pointers left by Start and
\* swaps skipped by exceptions never reach another body.  True as long as a
\* body uses no other coroutine (MaxDepth = 1).
YieldsItself ==
    \A t \in Threads : stack[t] # <<>> => thrd_ptr_coro_helper[t] = Top(t).coro

=============================================================================
