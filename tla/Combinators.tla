----------------------------- MODULE Combinators -----------------------------
(***************************************************************************)
(* The functions of flatasync/src/core/async.{h,cc} that start several     *)
(* operations and wait for them: RunAsyncWait, class Waiter,               *)
(* RunAsyncAnyWait and RunAsyncAnyResult.                                  *)
(*                                                                         *)
(* One operation, the parent, makes one call with n handlers, or uses one  *)
(* Waiter for n of them; each handler runs in an operation of its own.     *)
(* The parent gives up its thread, and what it deferred, a loop that       *)
(* starts the handlers, runs while the first of them may end already.  The *)
(* shared_ptr that ties the handlers together is the set of its holders:   *)
(* the loop, the Waiter, and the closures of the handlers.                 *)
(*                                                                         *)
(* The parent's frame (the list of handlers, the index or result, the      *)
(* Waiter) is gone when the parent has left the call.  Who uses it then is *)
(* recorded in stray.  A loop that goes on then also reads scheduler_ of   *)
(* the parent's runner, which may be deleted, in each RunAsync; what that  *)
(* may give is in AsyncRunner.                                             *)
(*                                                                         *)
(* Another thread calls RunAsync for the parent, and WaitAll.              *)
(***************************************************************************)
EXTENDS Naturals, FiniteSets

CONSTANT MaxHandlers   \* bound on the handlers of one call

ASSUME CombinatorsAssumption == MaxHandlers \in Nat

VARIABLES
    kind,      \* which function is called
    n,         \* the number of handlers
    parent,    \* [Parents], the operation that calls
    event,     \* the parent has been cancelled or timed out
    looping,   \* the deferred handler has not ended
    next,      \* the next handler to start
    child,     \* [Handlers -> ChildStates]
    holders,   \* who holds the proceeder or the Counter
    counter,   \* counter_
    result,    \* the parent's index or result; 0 is none
    first,     \* the handler that counted first
    gave,      \* handlers that returned, with a value where there is one
    waited,    \* Wait has returned and no handler was started since
    stray,     \* who has used the parent's frame after its end
    main       \* the thread that calls RunAsync for the parent, and WaitAll

callVars == <<kind, n, parent, event, looping, next, child, holders, counter, result, first, gave,
              waited, stray>>
vars == <<callVars, main>>

Kinds == {"RunAsyncWait", "Waiter", "RunAsyncAnyWait", "RunAsyncAnyResult"}
Any == {"RunAsyncAnyWait", "RunAsyncAnyResult"}
Handlers == 1 .. MaxHandlers
Parents == {"absent", "new", "body", "suspended", "queued", "returns", "ended"}
\* counts: the handler has ended and the counter is next; won: it counted
\* first; leaves: the closure is over; done: the operation has ended and its
\* closure is still there; released: the closure is gone.
ChildStates == {"absent", "queued", "running", "counts", "won", "leaves", "done", "released"}

\* As a holder: the Waiter's proceeder_, or the local variable of the loop.
Own == 0

Init ==
    /\ kind \in Kinds
    /\ n \in (IF kind = "RunAsyncAnyWait" THEN 1 ELSE 0) .. MaxHandlers
    /\ parent = "absent"
    /\ event = FALSE
    /\ looping = FALSE
    /\ next = 1
    /\ child = [c \in Handlers |-> "absent"]
    /\ holders = IF kind = "Waiter" THEN {Own} ELSE {}
    /\ counter = 0
    /\ result = 0
    /\ first = 0
    /\ gave = {}
    /\ waited = FALSE
    /\ stray = {}
    /\ main = "run"

-----------------------------------------------------------------------------
(* The shared_ptr and the proceed handler. *)

\* The parent has left the call, and its frame is gone.
Gone == parent = "ended"

\* Somebody uses the parent's frame.
Uses(who) == stray' = IF Gone THEN stray \cup {who} ELSE stray

\* The proceed handler: AsyncRunner::Proceed of the parent.
Proceed == parent' = "queued"

\* A bug: the closures do not hold the proceeder.
HoldsNothing(c) == holders

\* The closure of handler c copies the shared_ptr, which is empty if Wait has
\* moved it away and an event kept init from making a new one.
Holds(c) == IF kind = "Waiter" /\ Own \notin holders THEN holders ELSE holders \cup {c}

\* A bug: the destructor of Counter does nothing.
LastReleaseOfProceeder ==
    /\ IF kind \in Any THEN UNCHANGED parent ELSE Proceed
    /\ UNCHANGED <<counter, result, stray>>

\* The last holder goes: the deleter of RunAsyncWait proceeds, that of Waiter
\* too unless the Waiter was left (it looks at a member to know), ~Counter
\* proceeds without a result unless somebody has counted.
LastRelease ==
    CASE kind = "RunAsyncWait" ->
            Proceed /\ UNCHANGED <<counter, result, stray>>
      [] kind = "Waiter" ->
            /\ Uses("deleter")
            /\ IF Gone THEN UNCHANGED parent ELSE Proceed
            /\ UNCHANGED <<counter, result>>
      [] kind = "RunAsyncAnyResult" ->
            /\ counter' = counter + 1
            /\ IF counter = 0 THEN result' = 0 /\ Uses("result") /\ Proceed
               ELSE UNCHANGED <<result, stray, parent>>
      [] kind = "RunAsyncAnyWait" ->
            UNCHANGED <<parent, counter, result, stray>>

Release(h) ==
    /\ holders' = holders \ {h}
    /\ IF holders = {h} THEN LastRelease ELSE UNCHANGED <<parent, counter, result, stray>>

-----------------------------------------------------------------------------
(* The parent. *)

\* RunAsync of the parent, and its first step.
Launch ==
    /\ main = "run"
    /\ parent = "absent"
    /\ parent' = "new"
    /\ UNCHANGED <<kind, n, event, looping, next, child, holders, counter, result, first, gave, waited,
                   stray>>

Begin ==
    /\ parent = "new"
    /\ parent' = "body"
    /\ UNCHANGED <<kind, n, event, looping, next, child, holders, counter, result, first, gave, waited,
                   stray>>

\* A bug: the loop has no shared_ptr of its own.
DeferProceedWithout ==
    /\ kind # "Waiter"
    /\ parent = "body"
    /\ parent' = IF event THEN "ended" ELSE "suspended"
    /\ looping' = ~event
    /\ UNCHANGED <<kind, n, event, next, child, holders, counter, result, first, gave, waited, stray>>

\* RunAsyncWait, RunAsyncAnyWait, RunAsyncAnyResult: DeferProceed throws a
\* pending event, or the parent leaves its thread and the loop begins.
DeferProceed ==
    /\ kind # "Waiter"
    /\ parent = "body"
    /\ parent' = IF event THEN "ended" ELSE "suspended"
    /\ looping' = ~event
    /\ holders' = IF event \/ kind = "RunAsyncAnyWait" THEN {} ELSE {Own}
    /\ UNCHANGED <<kind, n, event, next, child, counter, result, first, gave, waited, stray>>

\* A turn of the loop: RunAsync of the next handler.
StartNext ==
    /\ kind # "Waiter"
    /\ looping
    /\ next <= n
    /\ Uses("loop")
    /\ child' = [child EXCEPT ![next] = "queued"]
    /\ holders' = IF kind = "RunAsyncAnyWait" THEN {} ELSE Holds(next)
    /\ next' = next + 1
    /\ UNCHANGED <<kind, n, parent, event, looping, counter, result, first, gave, waited>>

\* The loop ends, and with it its local shared_ptr.
LoopEnds ==
    /\ kind # "Waiter"
    /\ looping
    /\ next > n
    /\ looping' = FALSE
    /\ IF kind = "RunAsyncAnyWait" THEN UNCHANGED <<holders, parent, counter, result, stray>>
       ELSE Release(Own)
    /\ UNCHANGED <<kind, n, event, next, child, first, gave, waited>>

\* The parent goes on in Defer, which throws a pending event or returns.
Resume ==
    /\ kind # "Waiter"
    /\ parent = "queued"
    /\ parent' = "returns"
    /\ UNCHANGED <<kind, n, event, looping, next, child, holders, counter, result, first, gave, waited,
                   stray>>

Return ==
    /\ parent = "returns"
    /\ parent' = "ended"
    /\ UNCHANGED <<kind, n, event, looping, next, child, holders, counter, result, first, gave, waited,
                   stray>>

-----------------------------------------------------------------------------
(* The parent with a Waiter. *)

\* Waiter::RunAsync.
WaiterRunAsync ==
    /\ kind = "Waiter"
    /\ parent = "body"
    /\ next <= n
    /\ child' = [child EXCEPT ![next] = "queued"]
    /\ holders' = Holds(next)
    /\ next' = next + 1
    /\ waited' = FALSE
    /\ UNCHANGED <<kind, n, parent, event, looping, counter, result, first, gave, stray>>

\* Waiter::Wait when the Waiter is the only holder.
WaitUnique ==
    /\ kind = "Waiter"
    /\ parent = "body"
    /\ holders = {Own}
    /\ waited' = TRUE
    /\ UNCHANGED <<kind, n, parent, event, looping, next, child, holders, counter, result, first, gave,
                   stray>>

\* Waiter::Wait otherwise: Defer throws a pending event, which leaves the
\* Waiter or is caught while it exists, or the parent leaves its thread.
WaitDefer ==
    /\ kind = "Waiter"
    /\ parent = "body"
    /\ holders # {Own}
    /\ ~event
    /\ parent' = "suspended"
    /\ looping' = TRUE
    /\ UNCHANGED <<kind, n, event, next, child, holders, counter, result, first, gave, waited, stray>>

\* The deferred handler moves proceeder_ away and destroys it.
WaitDeferred ==
    /\ kind = "Waiter"
    /\ looping
    /\ looping' = FALSE
    /\ Release(Own)
    /\ UNCHANGED <<kind, n, event, next, child, first, gave, waited>>

\* The parent goes on in Wait: a pending event is thrown before init.
WaitResume ==
    /\ kind = "Waiter"
    /\ parent = "queued"
    /\ parent' = "body"
    /\ waited' = ~event
    /\ holders' = IF event THEN holders ELSE {Own}
    /\ UNCHANGED <<kind, n, event, looping, next, child, counter, result, first, gave, stray>>

\* ~Waiter, at the end of its scope or by an exception.
LeaveWaiter ==
    /\ kind = "Waiter"
    /\ parent = "body"
    /\ parent' = "ended"
    /\ holders' = holders \ {Own}
    /\ UNCHANGED <<kind, n, event, looping, next, child, counter, result, first, gave, waited, stray>>

-----------------------------------------------------------------------------
(* The handlers' operations. *)

\* The closure of RunAsyncAnyWait calls the handler through a reference into
\* the parent's list; the others have a copy.
UsesHandler == IF kind = "RunAsyncAnyWait" THEN Uses("handler") ELSE UNCHANGED stray

HandlerBegins(c) ==
    /\ child[c] = "queued"
    /\ child' = [child EXCEPT ![c] = "running"]
    /\ UsesHandler
    /\ UNCHANGED <<kind, n, parent, event, looping, next, holders, counter, result, first, gave, waited>>

\* The handler returns; where there is a counter, the closure goes on with it.
HandlerReturns(c) ==
    /\ child[c] = "running"
    /\ child' = [child EXCEPT ![c] = IF kind \in Any THEN "counts" ELSE "leaves"]
    /\ gave' = gave \cup {c}
    /\ UsesHandler
    /\ UNCHANGED <<kind, n, parent, event, looping, next, holders, counter, result, first, waited>>

\* A bug: a handler without a value counts.
HandlerFailsCounted(c) ==
    /\ child[c] = "running"
    /\ child' = [child EXCEPT ![c] = IF kind \in Any THEN "counts" ELSE "leaves"]
    /\ UsesHandler
    /\ UNCHANGED <<kind, n, parent, event, looping, next, holders, counter, result, first, gave, waited>>

\* The handler throws, or (RunAsyncAnyResult) returns none.
HandlerFails(c) ==
    /\ child[c] = "running"
    /\ child' = [child EXCEPT ![c] = "leaves"]
    /\ UsesHandler
    /\ UNCHANGED <<kind, n, parent, event, looping, next, holders, counter, result, first, gave, waited>>

\* A bug: everybody wins.
CountAlways(c) ==
    /\ child[c] = "counts"
    /\ counter' = counter + 1
    /\ child' = [child EXCEPT ![c] = "won"]
    /\ first' = IF first = 0 THEN c ELSE first
    /\ UNCHANGED <<kind, n, parent, event, looping, next, holders, result, gave, waited, stray>>

\* ++counter == 1.
Count(c) ==
    /\ child[c] = "counts"
    /\ counter' = counter + 1
    /\ child' = [child EXCEPT ![c] = IF counter = 0 THEN "won" ELSE "leaves"]
    /\ first' = IF first = 0 THEN c ELSE first
    /\ UNCHANGED <<kind, n, parent, event, looping, next, holders, result, gave, waited, stray>>

\* The first one writes the index or the result and proceeds.
Deliver(c) ==
    /\ child[c] = "won"
    /\ child' = [child EXCEPT ![c] = "leaves"]
    /\ result' = c
    /\ Uses("result")
    /\ Proceed
    /\ UNCHANGED <<kind, n, event, looping, next, holders, counter, first, gave, waited>>

\* The operation ends, ...
Finish(c) ==
    /\ child[c] = "leaves"
    /\ child' = [child EXCEPT ![c] = "done"]
    /\ UNCHANGED <<kind, n, parent, event, looping, next, holders, counter, result, first, gave, waited,
                   stray>>

\* ... and its runner is deleted with the closure.
DestroyClosure(c) ==
    /\ child[c] = "done"
    /\ child' = [child EXCEPT ![c] = "released"]
    /\ IF c \in holders THEN Release(c) ELSE UNCHANGED <<holders, parent, counter, result, stray>>
    /\ UNCHANGED <<kind, n, event, looping, next, first, gave, waited>>

\* Cancel or Timedout, and Reset, of the parent's AsyncOpState.
SetEvent ==
    /\ event' = ~event
    /\ ~Gone
    /\ UNCHANGED <<kind, n, parent, looping, next, child, holders, counter, result, first, gave, waited,
                   stray>>

-----------------------------------------------------------------------------

Parent ==
    \/ Launch \/ Begin \/ DeferProceed \/ Resume \/ Return
    \/ WaitUnique \/ WaitDefer \/ WaitResume \/ LeaveWaiter

Deferred == StartNext \/ LoopEnds \/ WaitDeferred

Child(c) ==
    \/ HandlerBegins(c) \/ HandlerReturns(c) \/ HandlerFails(c)
    \/ Count(c) \/ Deliver(c) \/ Finish(c) \/ DestroyClosure(c)

Step ==
    \/ Parent
    \/ WaiterRunAsync
    \/ Deferred
    \/ \E c \in Handlers : Child(c)
    \/ SetEvent

\* WaitAll spins until it reads a counter of zero: no runner is left of the
\* parent and of the handlers that have been started.
WaitAllBegin ==
    /\ main = "run"
    /\ main' = "blocked"
    /\ UNCHANGED callVars

WaitAllReturn ==
    /\ main = "blocked"
    /\ parent \in {"absent", "ended"}
    /\ \A c \in Handlers : child[c] \in {"absent", "done", "released"}
    /\ main' = "returned"
    /\ UNCHANGED callVars

Next ==
    \/ Step /\ UNCHANGED main
    \/ WaitAllBegin
    \/ WaitAllReturn

Spec == Init /\ [][Next]_vars

\* Operations that can go on do, and handlers end.
Fairness ==
    /\ WF_callVars(Begin) /\ WF_callVars(Resume) /\ WF_callVars(Return) /\ WF_callVars(WaitResume)
    /\ WF_callVars(Deferred)
    /\ \A c \in Handlers : WF_callVars(Child(c))

FairSpec == Spec /\ Fairness

-----------------------------------------------------------------------------
(* Properties. *)

\* The variables have their types; the loop never goes past the last handler.
TypeOK ==
    /\ kind \in Kinds
    /\ n \in 0 .. MaxHandlers
    /\ parent \in Parents
    /\ event \in BOOLEAN
    /\ looping \in BOOLEAN
    /\ next \in 1 .. n + 1
    /\ child \in [Handlers -> ChildStates]
    /\ holders \subseteq {Own} \cup Handlers
    /\ counter \in 0 .. n + 1
    /\ result \in 0 .. n
    /\ first \in 0 .. n
    /\ gave \subseteq Handlers
    /\ waited \in BOOLEAN
    /\ stray \subseteq {"loop", "handler", "result", "deleter"}
    /\ main \in {"run", "blocked", "returned"}

Over(c) == child[c] \in {"absent", "done", "released"}

\* RunAsyncWait is left, by return or by an event, when none of its handlers
\* runs or will run, and Wait of a Waiter returns when none of those started
\* before does, also when some of them throw and when they end while the
\* others are still being started.
WaitsForAll ==
    (kind = "RunAsyncWait" /\ Gone) \/ waited => \A c \in Handlers : Over(c)

\* What RunAsyncAnyWait and RunAsyncAnyResult return is of the handler that was
\* first, and RunAsyncAnyResult returns none only when no handler gave a value.
FirstWins ==
    kind \in Any /\ parent = "returns" =>
        /\ result = first
        /\ result # 0 => result \in gave
        /\ result = 0 => kind = "RunAsyncAnyResult" /\ \A c \in Handlers : Over(c) /\ c \notin gave

\* Nobody uses the frame of a RunAsyncWait, or the result of the others, after
\* the parent has left; a Waiter is used after its end only if it was left
\* without a Wait that returned; the loops of the other two, and the handlers
\* of RunAsyncAnyWait, do use their frames after the parent has left.  It is
\* about the frame: the runner whose scheduler those loops read may be gone too.
FrameIsAlive ==
    /\ kind = "RunAsyncWait" => stray = {}
    /\ kind = "Waiter" /\ waited => stray = {}
    /\ kind = "RunAsyncAnyWait" => stray \subseteq {"loop", "handler"}
    /\ kind = "RunAsyncAnyResult" => stray \subseteq {"loop"}

\* The parent goes on, unless all handlers of a RunAsyncAnyWait fail, or a
\* Waiter is used again after an event that Wait threw when it went on.
ParentGoesOn ==
    parent = "suspended" ~>
        \/ parent # "suspended"
        \/ kind = "RunAsyncAnyWait" /\ gave = {} /\ \A c \in Handlers : Over(c)
        \/ kind = "Waiter" /\ holders = {}

-----------------------------------------------------------------------------
(* Refinement. *)

\* What AsyncTask calls the states of the parent and of a handler.
ParentTask(p) ==
    CASE p = "absent" -> "absent"
      [] p \in {"new", "queued"} -> "ready"
      [] p \in {"body", "returns"} -> "running"
      [] p = "suspended" -> "waiting"
      [] OTHER -> "done"

ChildTask(x) ==
    CASE x = "absent" -> "absent"
      [] x = "queued" -> "ready"
      [] x \in {"done", "released"} -> "done"
      [] OTHER -> "running"

\* The parent is task 0 and handler c task c.
TaskOf == [t \in 0 .. MaxHandlers |-> IF t = 0 THEN ParentTask(parent) ELSE ChildTask(child[t])]

\* Handler c has thread c; the parent has thread 0 until it waits, where the
\* loop goes on, and returns from the call on another one.
CurrentOf ==
    [t \in 0 .. MaxHandlers + 1 |->
       IF t \in Handlers /\ ChildTask(child[t]) = "running" THEN t
       ELSE IF (t = 0 /\ parent = "body") \/ (t = MaxHandlers + 1 /\ parent = "returns") THEN 0
       ELSE MaxHandlers + 2]

StartersOf == IF looping /\ kind # "Waiter" THEN {0} ELSE {}

Task == INSTANCE AsyncTask WITH
    Tasks <- 0 .. MaxHandlers,
    Threads <- 0 .. MaxHandlers + 1,
    Null <- MaxHandlers + 2,
    task <- TaskOf,
    current <- CurrentOf,
    starters <- StartersOf,
    waitAll <- IF main = "run" THEN "no" ELSE main

\* The combinators use asynchronous operations as AsyncTask allows: above all
\* the parent's proceed handler is called only while the parent waits, and so
\* once for each time it does.  Once WaitAll has begun, operations are started
\* by the parent while it runs and by the loop, also when WaitAll has come
\* back.
ImplementsTask == Task!Spec

=============================================================================
