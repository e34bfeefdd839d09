----------------------------- MODULE AsyncRunner -----------------------------
(***************************************************************************)
(* rms::core::AsyncRunner (flatasync/src/core/async_runner.{h,cc}), the    *)
(* free functions of async.cc that act on the current runner, and the      *)
(* schedulers it posts to.                                                 *)
(*                                                                         *)
(* A runner is heap allocated by RunAsync and owns itself: a handler       *)
(* posted to its scheduler_ enters it (OnEnter), runs its coroutine until  *)
(* the operation waits or ends, and leaves it (OnExit), which either runs  *)
(* the deferred handler or deletes the runner.  The deferred handler makes *)
(* the continuation available to others, so from there on another thread   *)
(* may resume, finish and delete the runner while this thread is still in  *)
(* OnExit.  The deferred handlers of RunAsyncWait, RunAsyncAnyWait and     *)
(* RunAsyncAnyResult are loops of RunAsync; in the last two, the first     *)
(* operation they start already has the proceed handler, and the loop goes *)
(* on.                                                                     *)
(*                                                                         *)
(* An operation's body is the caller's code: any bounded sequence of calls *)
(* to RunAsync, SwitchTo, DeferProceed, HandleEvents, DisableEvents,       *)
(* EnableEvents and Yield, with or without catching the event exception.   *)
(* What DeferProceed waits for (a socket, a timer, other operations) is    *)
(* the environment, which calls the proceed handler exactly once.          *)
(***************************************************************************)
EXTENDS Naturals, Sequences, FiniteSets

CONSTANTS
    Runners,       \* AsyncRunner objects, one for each RunAsync
    Threads,       \* worker threads of the thread pools
    Schedulers,    \* IScheduler objects
    Sequential,    \* the SequentialSchedulers (strands) among them
    ThreadsOf,     \* the threads that run the io_service behind a scheduler
    Cancellable,   \* runners whose AsyncOpState somebody uses
    Null,          \* nullptr
    MaxOps         \* bound on the calls one body makes

ASSUME RunnerAssumption ==
    /\ IsFiniteSet(Runners)
    /\ Null \notin Runners \cup Schedulers
    /\ Sequential \subseteq Schedulers
    /\ ThreadsOf \in [Schedulers -> SUBSET Threads]
    /\ Cancellable \subseteq Runners
    /\ MaxOps \in Nat

VARIABLES
    queue,         \* [Schedulers -> Seq(Entry)], posted handlers
    life,          \* [Runners -> Lives]
    scheduler,     \* scheduler_
    allowed,       \* is_events_allowed_
    status,        \* op_state_'s status, shared with its other owners
    defer,         \* defer_handler_
    coro,          \* the coroutine of coro_helper_
    waiting,       \* runners whose proceed handler the environment holds
    count,         \* the RunnerCountTag counter
    pc,            \* [Threads -> Steps]
    cur,           \* the runner the Guard on the thread's stack refers to
    exec,          \* the scheduler whose handler the thread executes
    handler,       \* OnExit's local handler
    frame,         \* how the thread entered the coroutine, and Resume's `old`
    tlsRunner,     \* thrd_ptr_async_runner
    tlsCoro,       \* thrd_ptr_coro_helper
    ops,           \* calls each body has made
    main           \* the thread that calls RunAsync from outside and then WaitAll

runnerVars == <<life, scheduler, allowed, status, defer, coro, ops>>
threadVars == <<pc, cur, exec, handler, frame, tlsRunner, tlsCoro>>
vars == <<queue, waiting, count, main, runnerVars, threadVars>>

\* "dying": ~AsyncRunner has counted down and the members are being destroyed.
Lives == {"none", "alive", "dying", "deleted"}
AsyncOpStatus == {"Normal", "Cancelled", "Timedout"}
\* What Defer was given: a call of Proceed (SwitchTo), or a start of something
\* that calls the proceed handler later (DeferProceed).
DeferHandlers == {"none", "proceed", "io"}
CoroStates == {"empty", "running", "suspended", "finished", "destroyed"}
Entry == [op : {"Start", "Proceed"}, runner : Runners]
Frame == [resumed : BOOLEAN, old : Runners \cup {Null}]
\* body, unwind: inside the coroutine, the latter with an exception in flight;
\* exit, call, clear: OnExit before, at and after the deferred handler;
\* loop, given: inside a deferred handler that starts operations, before and
\* after somebody else got the proceed handler;
\* destroy: inside `delete this`, after the counter.
Steps == {"idle", "body", "unwind", "exit", "call", "loop", "given", "destroy", "clear"}

NoFrame == [resumed |-> FALSE, old |-> Null]

Init ==
    /\ queue = [s \in Schedulers |-> <<>>]
    /\ life = [r \in Runners |-> "none"]
    /\ scheduler = [r \in Runners |-> Null]
    /\ allowed = [r \in Runners |-> TRUE]
    /\ status = [r \in Runners |-> "Normal"]
    /\ defer = [r \in Runners |-> "none"]
    /\ coro = [r \in Runners |-> "empty"]
    /\ waiting = {}
    /\ count = 0
    /\ pc = [t \in Threads |-> "idle"]
    /\ cur = [t \in Threads |-> Null]
    /\ exec = [t \in Threads |-> Null]
    /\ handler = [t \in Threads |-> "none"]
    /\ frame = [t \in Threads |-> NoFrame]
    /\ tlsRunner = [t \in Threads |-> Null]
    /\ tlsCoro = [t \in Threads |-> Null]
    /\ ops = [r \in Runners |-> 0]
    /\ main = "run"

-----------------------------------------------------------------------------
(* The pieces the operations share. *)

\* A bug: the handler is posted to any scheduler.
ScheduleAnywhere(op, r) ==
    \E s \in Schedulers : queue' = [queue EXCEPT ![s] = Append(@, [op |-> op, runner |-> r])]

\* IScheduler::Schedule through the runner's own scheduler_.
Schedule(op, r) ==
    queue' = [queue EXCEPT ![scheduler[r]] = Append(@, [op |-> op, runner |-> r])]

\* A bug: the constructor does not count.
CreateUncounted(r, s) ==
    /\ life[r] = "none"
    /\ life' = [life EXCEPT ![r] = "alive"]
    /\ scheduler' = [scheduler EXCEPT ![r] = s]
    /\ queue' = [queue EXCEPT ![s] = Append(@, [op |-> "Start", runner |-> r])]
    /\ UNCHANGED <<count, allowed, status, defer, coro>>

\* AsyncRunner::Create: the constructor counts up, Start posts the handler.
Create(r, s) ==
    /\ life[r] = "none"
    /\ life' = [life EXCEPT ![r] = "alive"]
    /\ scheduler' = [scheduler EXCEPT ![r] = s]
    /\ count' = count + 1
    /\ queue' = [queue EXCEPT ![s] = Append(@, [op |-> "Start", runner |-> r])]
    /\ UNCHANGED <<allowed, status, defer, coro>>

\* HandleEvents throws, outside of an exception in flight.
EventPending(r) == allowed[r] /\ status[r] # "Normal"

\* CoroHelper::Yield of the coroutine the thread-local pointer names: control
\* comes back from Start, or from Resume, which swaps the pointer back.
YieldCoro(t) ==
    /\ coro' = [coro EXCEPT ![tlsCoro[t]] = "suspended"]
    /\ tlsCoro' = [tlsCoro EXCEPT ![t] = IF frame[t].resumed THEN frame[t].old ELSE @]
    /\ frame' = [frame EXCEPT ![t] = NoFrame]
    /\ pc' = [pc EXCEPT ![t] = "exit"]

\* AsyncRunner::Defer up to and including its Yield.
Defer(t, r, h) ==
    IF EventPending(r)
    THEN /\ pc' = [pc EXCEPT ![t] = "unwind"]
         /\ UNCHANGED <<defer, coro, tlsCoro, frame>>
    ELSE /\ defer' = [defer EXCEPT ![r] = h]
         /\ YieldCoro(t)

\* A body makes a call; GetCurrentThreadAsyncRunner gives the runner.
Call(t) ==
    /\ pc[t] = "body"
    /\ ops[tlsRunner[t]] < MaxOps
    /\ ops' = [ops EXCEPT ![tlsRunner[t]] = @ + 1]

-----------------------------------------------------------------------------
(* A worker thread takes a handler from a scheduler. *)

\* MakeGuard()->Start(...): OnEnter, then the coroutine starts.
EnterStart(t, r) ==
    /\ coro' = [coro EXCEPT ![r] = "running"]
    /\ tlsCoro' = [tlsCoro EXCEPT ![t] = r]
    /\ frame' = [frame EXCEPT ![t] = NoFrame]
    /\ pc' = [pc EXCEPT ![t] = "body"]

\* A bug: the coroutine is entered with the pointer the thread had before.
EnterResumeWithoutSwap(t, r) ==
    /\ coro' = [coro EXCEPT ![r] = "running"]
    /\ frame' = [frame EXCEPT ![t] = [resumed |-> TRUE, old |-> tlsCoro[t]]]
    /\ pc' = [pc EXCEPT ![t] = IF EventPending(r) THEN "unwind" ELSE "body"]
    /\ UNCHANGED tlsCoro

\* MakeGuard()->Resume(): OnEnter, then the coroutine goes on in Defer, which
\* handles events.  A coroutine that cannot be resumed is left alone.
EnterResume(t, r) ==
    IF coro[r] = "suspended"
    THEN /\ coro' = [coro EXCEPT ![r] = "running"]
         /\ tlsCoro' = [tlsCoro EXCEPT ![t] = r]
         /\ frame' = [frame EXCEPT ![t] = [resumed |-> TRUE, old |-> tlsCoro[t]]]
         /\ pc' = [pc EXCEPT ![t] = IF EventPending(r) THEN "unwind" ELSE "body"]
    ELSE /\ pc' = [pc EXCEPT ![t] = "exit"]
         /\ UNCHANGED <<coro, tlsCoro, frame>>

\* A bug: the handlers of a strand are posted past it.
ReadyConcurrently(t, s) == pc[t] = "idle" /\ t \in ThreadsOf[s] /\ queue[s] # <<>>

\* A strand executes one handler at a time; a pool as many as it has threads.
Ready(t, s) ==
    /\ pc[t] = "idle"
    /\ t \in ThreadsOf[s]
    /\ queue[s] # <<>>
    /\ s \in Sequential => \A u \in Threads : exec[u] # s

Dispatch(t, s) ==
    /\ Ready(t, s)
    /\ queue' = [queue EXCEPT ![s] = Tail(@)]
    /\ exec' = [exec EXCEPT ![t] = s]
    /\ LET e == Head(queue[s]) IN
         /\ cur' = [cur EXCEPT ![t] = e.runner]
         /\ tlsRunner' = [tlsRunner EXCEPT ![t] = e.runner]
         /\ IF e.op = "Start" THEN EnterStart(t, e.runner) ELSE EnterResume(t, e.runner)
    /\ UNCHANGED <<life, scheduler, allowed, status, defer, waiting, count, handler, ops, main>>

-----------------------------------------------------------------------------
(* What the body of an operation does. *)

\* rms::core::RunAsync inside an operation, on any scheduler (without one the
\* current runner's is taken).
RunAsync(t) ==
    /\ Call(t)
    /\ \E r \in Runners, s \in Schedulers : Create(r, s)
    /\ UNCHANGED <<waiting, main, threadVars>>

\* SwitchTo: scheduler_ changes first, then Defer(ProceedHandler()).
SwitchTo(t, dst) ==
    LET r == tlsRunner[t] IN
    /\ Call(t)
    /\ IF dst = scheduler[r]
       THEN UNCHANGED <<scheduler, defer, coro, tlsCoro, frame, pc>>
       ELSE /\ scheduler' = [scheduler EXCEPT ![r] = dst]
            /\ Defer(t, r, "proceed")
    /\ UNCHANGED <<queue, life, allowed, status, waiting, count, cur, exec, handler, tlsRunner, main>>

DeferProceed(t) ==
    /\ Call(t)
    /\ Defer(t, tlsRunner[t], "io")
    /\ UNCHANGED <<queue, life, scheduler, allowed, status, waiting, count, cur, exec, handler,
                   tlsRunner, main>>

HandleEvents(t) ==
    /\ Call(t)
    /\ pc' = [pc EXCEPT ![t] = IF EventPending(tlsRunner[t]) THEN "unwind" ELSE "body"]
    /\ UNCHANGED <<queue, life, scheduler, allowed, status, defer, coro, waiting, count, cur, exec,
                   handler, frame, tlsRunner, tlsCoro, main>>

\* DisableEvents: events are handled first, and stay enabled if that throws.
DisableEvents(t) ==
    LET r == tlsRunner[t] IN
    /\ Call(t)
    /\ IF EventPending(r)
       THEN pc' = [pc EXCEPT ![t] = "unwind"] /\ UNCHANGED allowed
       ELSE allowed' = [allowed EXCEPT ![r] = FALSE] /\ UNCHANGED pc
    /\ UNCHANGED <<queue, life, scheduler, status, defer, coro, waiting, count, cur, exec,
                   handler, frame, tlsRunner, tlsCoro, main>>

\* EnableEvents: events are enabled first and then handled.
EnableEvents(t) ==
    LET r == tlsRunner[t] IN
    /\ Call(t)
    /\ allowed' = [allowed EXCEPT ![r] = TRUE]
    /\ pc' = [pc EXCEPT ![t] = IF status[r] # "Normal" THEN "unwind" ELSE "body"]
    /\ UNCHANGED <<queue, life, scheduler, status, defer, coro, waiting, count, cur, exec,
                   handler, frame, tlsRunner, tlsCoro, main>>

\* The body catches the event exception and goes on.
Catch(t) ==
    /\ pc[t] = "unwind"
    /\ pc' = [pc EXCEPT ![t] = "body"]
    /\ UNCHANGED <<queue, waiting, count, main, runnerVars, cur, exec, handler, frame, tlsRunner, tlsCoro>>

\* rms::core::Yield without Defer: nothing will continue this operation.
Yield(t) ==
    /\ Call(t)
    /\ YieldCoro(t)
    /\ UNCHANGED <<queue, life, scheduler, allowed, status, defer, waiting, count, cur, exec, handler,
                   tlsRunner, main>>

\* The handler returns, or the catch clause of Start takes its exception; the
\* coroutine's Guard clears the pointer, and Resume swaps its own back.
Finish(t) ==
    /\ pc[t] \in {"body", "unwind"}
    /\ coro' = [coro EXCEPT ![cur[t]] = "finished"]
    /\ tlsCoro' = [tlsCoro EXCEPT ![t] = IF frame[t].resumed THEN frame[t].old ELSE Null]
    /\ frame' = [frame EXCEPT ![t] = NoFrame]
    /\ pc' = [pc EXCEPT ![t] = "exit"]
    /\ UNCHANGED <<queue, life, scheduler, allowed, status, defer, waiting, count, cur, exec,
                   handler, tlsRunner, ops, main>>

-----------------------------------------------------------------------------
(* AsyncRunner::OnExit. *)

\* Bugs: defer_handler_ is copied and kept; the runner is deleted also after
\* its deferred handler was called.
OnExitTakeCopy(t) ==
    /\ pc[t] = "exit"
    /\ defer[cur[t]] # "none"
    /\ handler' = [handler EXCEPT ![t] = defer[cur[t]]]
    /\ pc' = [pc EXCEPT ![t] = "call"]
    /\ UNCHANGED <<queue, waiting, count, main, runnerVars, cur, exec, frame, tlsRunner, tlsCoro>>

OnExitCallAndDelete(t) ==
    /\ pc[t] \in {"call", "loop"}
    /\ IF handler[t] = "proceed"
       THEN Schedule("Proceed", cur[t]) /\ UNCHANGED waiting
       ELSE waiting' = waiting \cup {cur[t]} /\ UNCHANGED queue
    /\ handler' = [handler EXCEPT ![t] = "none"]
    /\ pc' = [pc EXCEPT ![t] = "exit"]
    /\ UNCHANGED <<count, runnerVars, cur, exec, frame, tlsRunner, tlsCoro, main>>

\* The deferred handler is moved to the stack and defer_handler_ cleared.
OnExitTake(t) ==
    /\ pc[t] = "exit"
    /\ defer[cur[t]] # "none"
    /\ handler' = [handler EXCEPT ![t] = defer[cur[t]]]
    /\ defer' = [defer EXCEPT ![cur[t]] = "none"]
    /\ pc' = [pc EXCEPT ![t] = "call"]
    /\ UNCHANGED <<queue, life, scheduler, allowed, status, coro, waiting, count, cur, exec, frame,
                   tlsRunner, tlsCoro, ops, main>>

\* scheduler_ of a runner as another thread reads it: undefined while an
\* operation that may switch runs, and once the runner is deleted.
ReadScheduler(r) ==
    IF life[r] = "alive" /\ coro[r] # "running" THEN {scheduler[r]} ELSE Schedulers

\* The deferred handler of a combinator calls RunAsync, which takes the
\* scheduler of the thread's current runner.
OnExitRunAsync(t) ==
    /\ pc[t] \in {"call", "loop", "given"}
    /\ pc[t] = "call" => handler[t] = "io"
    /\ \E r \in Runners, s \in ReadScheduler(tlsRunner[t]) : Create(r, s)
    /\ pc' = [pc EXCEPT ![t] = IF @ = "call" THEN "loop" ELSE @]
    /\ UNCHANGED <<waiting, main, ops, cur, exec, handler, frame, tlsRunner, tlsCoro>>

\* The handler makes the continuation available: Proceed posts it, or
\* somebody else gets the proceed handler.  Either way the runner now belongs
\* to them.  A loop may go on.
OnExitCall(t) ==
    /\ pc[t] \in {"call", "loop"}
    /\ IF handler[t] = "proceed"
       THEN Schedule("Proceed", cur[t]) /\ UNCHANGED waiting
       ELSE waiting' = waiting \cup {cur[t]} /\ UNCHANGED queue
    /\ handler' = [handler EXCEPT ![t] = "none"]
    /\ pc' = [pc EXCEPT ![t] = IF @ = "loop" THEN "given" ELSE "clear"]
    /\ UNCHANGED <<count, runnerVars, cur, exec, frame, tlsRunner, tlsCoro, main>>

\* The loop is over.
OnExitReturn(t) ==
    /\ pc[t] = "given"
    /\ pc' = [pc EXCEPT ![t] = "clear"]
    /\ UNCHANGED <<queue, waiting, count, main, runnerVars, cur, exec, handler, frame, tlsRunner, tlsCoro>>

\* delete this: the destructor's body counts down, ...
OnExitDelete(t) ==
    /\ pc[t] = "exit"
    /\ defer[cur[t]] = "none"
    /\ life' = [life EXCEPT ![cur[t]] = "dying"]
    /\ count' = count - 1
    /\ pc' = [pc EXCEPT ![t] = "destroy"]
    /\ UNCHANGED <<queue, scheduler, allowed, status, defer, coro, waiting, cur, exec, handler,
                   frame, tlsRunner, tlsCoro, ops, main>>

\* ... then the members go: a coroutine that is still suspended is unwound,
\* and its Guard clears the pointer.
DestroyMembers(t) ==
    LET r == cur[t] IN
    /\ pc[t] = "destroy"
    /\ life' = [life EXCEPT ![r] = "deleted"]
    /\ coro' = [coro EXCEPT ![r] = "destroyed"]
    /\ tlsCoro' = [tlsCoro EXCEPT ![t] = IF coro[r] = "suspended" THEN Null ELSE @]
    /\ scheduler' = [scheduler EXCEPT ![r] = Null]
    /\ pc' = [pc EXCEPT ![t] = "clear"]
    /\ UNCHANGED <<queue, allowed, status, defer, waiting, count, cur, exec, handler, frame,
                   tlsRunner, ops, main>>

\* thrd_ptr_async_runner = nullptr, and the thread is back in io_service::run.
OnExitClear(t) ==
    /\ pc[t] = "clear"
    /\ tlsRunner' = [tlsRunner EXCEPT ![t] = Null]
    /\ cur' = [cur EXCEPT ![t] = Null]
    /\ exec' = [exec EXCEPT ![t] = Null]
    /\ pc' = [pc EXCEPT ![t] = "idle"]
    /\ UNCHANGED <<queue, waiting, count, main, runnerVars, handler, frame, tlsCoro>>

-----------------------------------------------------------------------------
(* The rest of the program. *)

\* RunAsync from a thread that is not inside an operation.
RunAsyncMain(r, s) ==
    /\ main = "run"
    /\ Create(r, s)
    /\ UNCHANGED <<waiting, main, ops, threadVars>>

\* WaitAll spins until it reads a counter of zero.
WaitAllBegin ==
    /\ main = "run"
    /\ main' = "blocked"
    /\ UNCHANGED <<queue, waiting, count, runnerVars, threadVars>>

WaitAllReturn ==
    /\ main = "blocked"
    /\ count = 0
    /\ main' = "returned"
    /\ UNCHANGED <<queue, waiting, count, runnerVars, threadVars>>

\* The environment calls the proceed handler it was given: Proceed.
IoComplete(r) ==
    /\ r \in waiting
    /\ waiting' = waiting \ {r}
    /\ Schedule("Proceed", r)
    /\ UNCHANGED <<count, main, runnerVars, threadVars>>

\* AsyncOpState::Cancel and Timedout, from any thread; a status that is not
\* Normal stays.
SetStatus(r, st) ==
    /\ r \in Cancellable
    /\ life[r] = "alive"
    /\ status[r] = "Normal"
    /\ status' = [status EXCEPT ![r] = st]
    /\ UNCHANGED <<queue, waiting, count, main, life, scheduler, allowed, defer, coro, ops, threadVars>>

\* AsyncOpState::Reset.
Reset(r) ==
    /\ status[r] # "Normal"
    /\ status' = [status EXCEPT ![r] = "Normal"]
    /\ UNCHANGED <<queue, waiting, count, main, life, scheduler, allowed, defer, coro, ops, threadVars>>

\* Nothing is left to do.
Terminated ==
    /\ main = "returned"
    /\ \A t \in Threads : pc[t] = "idle"
    /\ UNCHANGED vars

-----------------------------------------------------------------------------

Body(t) ==
    \/ RunAsync(t)
    \/ \E dst \in Schedulers : SwitchTo(t, dst)
    \/ DeferProceed(t)
    \/ HandleEvents(t)
    \/ DisableEvents(t)
    \/ EnableEvents(t)
    \/ Catch(t)
    \/ Yield(t)

OnExit(t) ==
    \/ OnExitTake(t)
    \/ OnExitRunAsync(t)
    \/ OnExitCall(t)
    \/ OnExitReturn(t)
    \/ OnExitDelete(t)
    \/ DestroyMembers(t)
    \/ OnExitClear(t)

Environment ==
    \/ \E r \in Runners, s \in Schedulers : RunAsyncMain(r, s)
    \/ WaitAllBegin
    \/ \E r \in Runners : \/ \E st \in {"Cancelled", "Timedout"} : SetStatus(r, st)
                          \/ Reset(r)

Next ==
    \/ \E t \in Threads :
          \/ \E s \in Schedulers : Dispatch(t, s)
          \/ Body(t)
          \/ Finish(t)
          \/ OnExit(t)
    \/ \E r \in Runners : IoComplete(r)
    \/ Environment
    \/ WaitAllReturn
    \/ Terminated

Spec == Init /\ [][Next]_vars

\* Operations end (Finish), what they wait for happens, WaitAll keeps looking
\* at the counter, and threads take the handlers of every scheduler.  Nobody
\* is obliged to call RunAsync, WaitAll, Cancel or Reset.
Fairness ==
    /\ \A s \in Schedulers : WF_vars(\E t \in Threads : Dispatch(t, s))
    /\ \A t \in Threads : WF_vars(Finish(t)) /\ WF_vars(OnExit(t))
    /\ \A r \in Runners : WF_vars(IoComplete(r))
    /\ WF_vars(WaitAllReturn)

FairSpec == Spec /\ Fairness

-----------------------------------------------------------------------------
(* Properties. *)

\* The members of the runners, the schedulers' queues, what the threads hold
\* and the counter, which never goes below zero, have their types.
TypeOK ==
    /\ queue \in [Schedulers -> Seq(Entry)]
    /\ life \in [Runners -> Lives]
    /\ scheduler \in [Runners -> Schedulers \cup {Null}]
    /\ allowed \in [Runners -> BOOLEAN]
    /\ status \in [Runners -> AsyncOpStatus]
    /\ defer \in [Runners -> DeferHandlers]
    /\ coro \in [Runners -> CoroStates]
    /\ waiting \in SUBSET Runners
    /\ count \in Nat
    /\ pc \in [Threads -> Steps]
    /\ cur \in [Threads -> Runners \cup {Null}]
    /\ exec \in [Threads -> Schedulers \cup {Null}]
    /\ handler \in [Threads -> DeferHandlers]
    /\ frame \in [Threads -> Frame]
    /\ tlsRunner \in [Threads -> Runners \cup {Null}]
    /\ tlsCoro \in [Threads -> Runners \cup {Null}]
    /\ ops \in [Runners -> Nat]
    /\ main \in {"run", "blocked", "returned"}

\* Thread t is inside r and will still use it.
Holds(t, r) == cur[t] = r /\ pc[t] \in {"body", "unwind", "exit", "call", "loop"}

QueuedAt(s, i, r) == i \in DOMAIN queue[s] /\ queue[s][i].runner = r

Queued(r) == \E s \in Schedulers : \E i \in DOMAIN queue[s] : QueuedAt(s, i, r)

\* Whoever has the right to touch a runner finds it alive.
OwnedIsAlive ==
    \A r \in Runners :
        (\E t \in Threads : Holds(t, r)) \/ Queued(r) \/ r \in waiting => life[r] = "alive"

\* The right is never duplicated.
OneOwner ==
    \A r \in Runners :
        /\ \A t, u \in Threads : Holds(t, r) /\ Holds(u, r) => t = u
        /\ \A s, q \in Schedulers : \A i \in DOMAIN queue[s], j \in DOMAIN queue[q] :
              QueuedAt(s, i, r) /\ QueuedAt(q, j, r) => s = q /\ i = j
        /\ Queued(r) => r \notin waiting /\ \A t \in Threads : ~Holds(t, r)
        /\ r \in waiting => \A t \in Threads : ~Holds(t, r)

\* The right is never dropped, which would leave the operation unfinished.
NoLostOperation ==
    \A r \in Runners :
        life[r] = "alive" => (\E t \in Threads : Holds(t, r)) \/ Queued(r) \/ r \in waiting

\* Every runner that is alive has exactly one continuation (a posted handler,
\* the thread inside it, or a proceed handler somebody will call), and a
\* runner that is deleted or being deleted has none: nothing is resumed twice,
\* resumed after `delete this`, or forgotten, although OnExit's deferred
\* handler gives the runner away before OnExit is over.  The loop of a deferred
\* handler that goes on after that ("given") holds nothing: the scheduler_ it
\* reads may be that of a runner which is deleted.
OneContinuation == OwnedIsAlive /\ OneOwner /\ NoLostOperation

OperationIsCurrent ==
    \A t \in Threads :
        pc[t] \in {"body", "unwind"} =>
            /\ cur[t] # Null
            /\ tlsRunner[t] = cur[t]
            /\ tlsCoro[t] = cur[t]
            /\ coro[cur[t]] = "running"

\* OnEnter's assertion.
IdleHasNoRunner == \A t \in Threads : pc[t] = "idle" => tlsRunner[t] = Null

\* Inside an operation the two thread-local pointers name its runner and its
\* coroutine, although threads leave stale coroutine pointers behind and an
\* operation changes threads between its calls: SwitchTo, Defer, RunAsync and
\* Yield of a body act on that body's own runner.  A thread that is about to
\* take a handler has no current runner.
ContextIsCurrent == OperationIsCurrent /\ IdleHasNoRunner

\* Nothing is queued, running, waiting or being started.
AllOver ==
    /\ \A r \in Runners : life[r] # "alive"
    /\ \A s \in Schedulers : queue[s] = <<>>
    /\ waiting = {}
    /\ \A t \in Threads : pc[t] \notin {"body", "unwind"}

\* WaitAll comes back only when no operation is queued, running or waiting:
\* the counter it reads is not decremented before, nor incremented after, the
\* operation can be reached.  From then on nothing is submitted, except by the
\* loop of a deferred handler that has given its own runner away.
WaitAllWaits ==
    [][/\ main = "blocked" /\ main' = "returned" => AllOver'
       /\ main = "returned" /\ AllOver => AllOver' \/ \E t \in Threads : pc[t] = "given"]_vars

\* What WaitAll is documented to do: once it has come back, all operations have
\* finished.  RunAsyncAnyWait and RunAsyncAnyResult break it: their loops may
\* start an operation when the parent and those started before are gone.
WaitAllIsFinal == main = "returned" => AllOver

\* GetCurrentThreadScheduler and the context agree for operations that nobody
\* cancels: the body runs in a handler of the scheduler its runner names, so
\* that what it posts there (RunAsync without a scheduler) joins its context.
RunsInItsContext ==
    \A t \in Threads :
        pc[t] \in {"body", "unwind"} /\ cur[t] \notin Cancellable =>
            exec[t] = scheduler[cur[t]]

\* Operations that named the same SequentialScheduler and were not cancelled
\* are never in their bodies at the same time, however often they moved
\* between schedulers.
StrandSerializes ==
    \A t, u \in Threads :
        /\ t # u
        /\ pc[t] \in {"body", "unwind"} /\ pc[u] \in {"body", "unwind"}
        /\ cur[t] \notin Cancellable /\ cur[u] \notin Cancellable
        /\ scheduler[cur[t]] = scheduler[cur[u]]
        => scheduler[cur[t]] \notin Sequential

\* A deferred handler may read a runner that is not there any more: what the
\* program does next is undefined.
Stray == \E t \in Threads : pc[t] = "given" /\ life[cur[t]] # "alive"

\* Every operation that is submitted ends and its runner is deleted, unless the
\* loop of a combinator outlives its caller's runner.
EveryOperationEnds == \A r \in Runners : life[r] = "alive" ~> life[r] = "deleted" \/ Stray

\* WaitAll comes back, unless the same happens.
WaitAllEnds == main = "blocked" ~> main = "returned" \/ Stray

-----------------------------------------------------------------------------
(* Refinement. *)

\* The operation behind runner r has ended: its coroutine has, or it was left
\* by a Yield that nobody will continue.
Ended(r) ==
    \/ coro[r] \in {"finished", "destroyed"}
    \/ life[r] = "dying"
    \/ \E t \in Threads : cur[t] = r /\ pc[t] = "exit" /\ defer[r] = "none"

TaskState(r) ==
    IF life[r] = "none" THEN "absent"
    ELSE IF coro[r] = "running" THEN "running"
    ELSE IF Ended(r) THEN "done"
    ELSE IF Queued(r) THEN "ready"
    ELSE "waiting"

TaskOf == [r \in Runners |-> TaskState(r)]

\* Thread t has left an operation and executes, or will, what it deferred.
Starts(t) ==
    \/ pc[t] = "exit" /\ defer[cur[t]] = "io"
    \/ pc[t] = "call" /\ handler[t] = "io"
    \/ pc[t] \in {"loop", "given"}

StartersOf == {t \in Threads : Starts(t)}

CurrentOf == [t \in Threads |-> IF pc[t] \in {"body", "unwind"} THEN cur[t] ELSE Null]

Task == INSTANCE AsyncTask WITH
    Tasks <- Runners,
    task <- TaskOf,
    current <- CurrentOf,
    starters <- StartersOf,
    waitAll <- IF main = "run" THEN "no" ELSE main

\* Runners, schedulers and coroutines together do what AsyncTask promises.
ImplementsTask == Task!Spec

\* One coroutine body at a time is on the stack of a worker thread.
StackOf ==
    [t \in Threads |->
       IF pc[t] \in {"body", "unwind"}
       THEN <<[coro |-> cur[t], resumed |-> frame[t].resumed, old |-> frame[t].old]>>
       ELSE <<>>]

Coroutines == INSTANCE CoroHelper WITH
    Coros <- Runners,
    MaxDepth <- 1,
    thrd_ptr_coro_helper <- tlsCoro,
    stack <- StackOf

\* Runners use their CoroHelpers as that class requires: never from inside
\* another coroutine, and neither resumed, started nor destroyed while they
\* run.
UsesCoroutines == Coroutines!Spec

=============================================================================
