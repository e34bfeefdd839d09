# A verification project for cppecho / flatasync

cppecho is an echo server built on flatasync, a small library that gives
asynchronous code the shape of synchronous code: an operation given to
`RunAsync` runs in a coroutine, gives its thread up where it waits, and goes on
later, perhaps on another thread. The TLA+ modules here model the library and
the server from their source, TLC checks them on small instances, and TLAPS
proves their safety properties and the refinements between them for every
number of operations, threads, schedulers, handlers, sockets and calls.

## Inventory

| Component | State | Operations | Interacts through |
|---|---|---|---|
| coroutines (`core/coro_helper`) | the coroutine; a thread-local "current coroutine" | `Start`, `Resume`, `Yield`, destructor | called by the runner and by operations |
| operations (`core/async_runner`, `core/async`) | scheduler, deferred handler, events flag, operation state, coroutine; a thread-local "current runner"; a global counter | `RunAsync`, `SwitchTo`, `Defer`, `DeferProceed`, events, `WaitAll`; combinators `RunAsyncWait`, `Waiter`, `RunAsyncAnyWait`, `RunAsyncAnyResult` | handlers posted to schedulers; callbacks that call `Proceed` |
| operation state (`core/async_op_state`) | a status shared by all its copies | `Cancel`, `Timedout`, `Reset` | any thread writes, the runner reads |
| thread pool (`core/thread_pool`) | `work_`, `stopped_`, the mutex; the `io_service` | constructor, worker loop, `Schedule`, `Wait`, destructor | the `io_service`, a condition variable |
| sequential scheduler | an asio strand | `Schedule` | a pool's `io_service` |
| scopes (`AsyncOpStateGuard`, `Timeout`, `core/async_proxy`) | a flag of the runner, a timer, a scheduler | constructors and destructors, on the stack of an operation | `HandleEvents`, `SwitchTo`, a timer's handler |
| server and acceptor (`net/tcp_server`, `net/acceptor`) | `is_running_`, slots, the acceptor | `Start`, `Stop`, `StopClient`, `OnAccepted`, `Write`, reads | closures on one strand, signals to subscribers |
| socket (`net/tcp_socket`, `net/util`) | descriptor, `stopped_`, id | the read loop of `Start`, `Write`, reads, `Connect`, `Stop` | I/O completions through `DeferProceed` |
| resolver | none | `Resolve` | `DeferIo` |
| engine (`cppecho/src/core`) | `initiated_`, `stopped_`, the server | `Init`, `Start`, `Stop`; the launcher's start-up, signal handler, `WaitAll`, tear-down | operations on one strand |
| accessors (`default_scheduler_accessor`, `singleton`) | a pointer each | `Attach`, `Detach` | the launcher sets them |
| configuration, errors, threads, enum and string helpers, logging | little or none | setters, tables, formatting | – |
| git hooks, `cpplint` (`tools/`) | none | copy files, check style | not part of the program |

What is hard here: a runner owns itself and hands itself over in the middle of
its exit path; two thread-local pointers follow operations across threads;
exceptions leave operations at any of their calls; `WaitAll` and
`ThreadPool::Wait` look at state that others change; the service of a pool is
stopped and reset while workers come and go; the server's work is cut into
closures that interleave on a strand with completions, `Stop` and `StopClient`;
destructors wait and throw; a signal races with the end of the program.

What makes the components correct: a coroutine yields itself; a live operation
has exactly one continuation and a deleted one none; an operation runs in the
context it named; waiting calls return when, and only when, they may; the server
has one accept loop and one read loop for each socket, its ids lead to the right
client, its events come in order, and after `Stop` everything comes to an end;
events are off in guards only; a combinator waits for those it should and nobody
uses its frame afterwards; the launcher leaves last, and a signal ends the
process.

`PROJECT.json` lists the hazards line by line with the properties aimed at them.

## Modules

**CoroHelper** – `coro_helper.cc`. `stack[t]` is the machine stack of coroutine
bodies a thread is inside of; the code never reads it, and the properties
compare it with the pointer `thrd_ptr_coro_helper` that the code uses instead.
One action for each of `Start`, `Resume`, `Yield`, the return and the exception
of a body, and destruction. `MayEnter` is what the class asks of its caller and
does not check: a body that some thread is inside of is not entered again.
`MaxDepth` bounds nesting; the class itself works for depth 1 only. The module
has no run of its own: its invariants are proved, and the run `runner` checks
that the runners meet its obligations (`UsesCoroutines`).

**AsyncTask** – what `RunAsync` and `WaitAll` promise, without schedulers or
coroutines: an operation is absent, ready, running, waiting or done. `starters`
are the threads that execute what an operation deferred when it gave the thread
up; they may submit operations, also when that operation has gone on and ended.

**AsyncRunner** – `async_runner.cc`, the parts of `async.cc` that act on the
current runner, and the schedulers. A thread takes a handler (`Dispatch`:
`OnEnter` and the entry into the coroutine), the body makes calls (`RunAsync`,
`SwitchTo`, `DeferProceed`, events, `Yield`), leaves by waiting or by `Finish`,
and `OnExit` follows in the steps other threads can interleave with: take the
deferred handler, call it, or count down, destroy the members, clear the
thread-local pointer. A deferred handler may itself be a loop of `RunAsync`, as
those of `RunAsyncWait`, `RunAsyncAnyWait` and `RunAsyncAnyResult` are
(`OnExitRunAsync`): before it gives the runner away (`loop`) and after (`given`),
when another thread may resume, finish and delete the runner. `RunAsync` then
reads `scheduler_` through the thread-local pointer; `ReadScheduler` lets a read
of a deleted runner, or of one that may be switching, give any scheduler.
`handler` is `OnExit`'s local variable, `frame` what
`Resume` keeps on the stack. A `SequentialScheduler` is a scheduler in
`Sequential`; `ThreadsOf` says which threads serve a scheduler. It is a module
of its own over `CoroHelper`: the coroutine steps are written out in the runner's
actions, and `UsesCoroutines` checks that they are steps of `CoroHelper`.

**AsyncScopes** – `AsyncOpStateGuard` and `Timeout` of `async.cc`,
`async_proxy.cc` and `async_op_state.cc`. `scopes[o]` is the stack of such
objects of an operation; a body enters them, waits, throws and catches, and an
exception leaves them one by one. `uncaught[t]` is what
`std::uncaught_exception` counts for a thread: the destructor of a proxy
switches threads during an exception, after which the count is wrong on both.
`SetStatus` is a read (`MayChange`) and a write (`ChangeStatus`), since nothing
guards it. What `AsyncRunner` does in several steps is one step here. Guards may
be nested; the history variable `nested` remembers that an operation did so.
Events are switched by guards only here; calls of `DisableEvents` and
`EnableEvents` in any order are actions of `AsyncRunner`.

**Combinators** – the rest of `async.cc` and `async.h`: `RunAsyncWait`,
`Waiter`, `RunAsyncAnyWait`, `RunAsyncAnyResult`. One parent makes one call;
`holders` is who holds the `shared_ptr` whose deleter or counter lets the parent
go on. `stray` records uses of the parent's frame after its end. Another thread
calls `WaitAll` beside the call. It implements `AsyncTask`: the parent is resumed
only while it waits, and what is started after `WaitAll` has come back is started
by the loop.

**ThreadPool** – `thread_pool.cc`. The `io_service` is external and modelled by
what the pool depends on: a count of outstanding work, a stopped flag, and two
separate steps from "no work is left" to "stopped", as in its implementation.
The constructor is given any number of threads, `threads` being the ones that
exist. One client posts, calls `Wait` and destroys the pool.

**TcpServer** – `tcp_server.cc`, `acceptor.cc`, the accepted sockets of
`tcp_socket.cc` and `net/util.cc`, on one strand, as `Engine` and the tests use
them. An entry of `strand` is a closure given to `RunAsync` or the rest of one
after `DeferIo`; each entry is one step. The subscriber of data writes to the
client, as `Engine` does, or not. The acceptor may fail to open, and accepts may
fail. `Start` may be called again once everything of the last time has ended.
The code does not check this (it looks at `is_running_`), so `~Busy` in `Start`
is an obligation put on the caller; nothing in the repository starts a server
twice. `told`, `delivered`,
`disconnects` and `stops` record the events that subscribers see.

**ServerLife** – what `TcpServer` promises to whoever starts and stops it, and
what it does not: its phase (`deaf`: listening, but nobody accepts; `broken`:
`Start`'s closure threw; `crashed`: a null acceptor was used), whether it has
operations, which is all that `WaitAll` sees, and the calls of `Stop` still to
run. `TcpServer` implements it (`ImplementsLife`).

**Launcher** – `engine_launcher.cc` and `engine.cc`, composed with `ServerLife`.
The main thread's steps, the signal and its handler on the main pool, and the
closures on the engine's strand interleave.

**CoroHelperProofs**, **AsyncRunnerProofs**, **AsyncRunnerRefinement** (the
refinements of `AsyncTask` and `CoroHelper`, on top of `AsyncRunnerProofs`),
**AsyncScopesProofs**, **CombinatorsProofs**, **ThreadPoolProofs**,
**TcpServerProofs** and **LauncherProofs** hold the theorems about the modules
they are named after.

The `MC...` modules name the constants for TLC. Definitions introduced by
"A bug:" are the mistakes that show that a property can fail; no specification
uses them. `TypeOK` says in every module what the variables are; the run
`runner` keeps checking it, for the theorem that rests on it.

## Runs

| Run | Instance | Shows |
|---|---|---|
| `runner` | 3 operations, 2 threads, a pool and a strand, 1 call each, one operation cancellable | one continuation, current context, clean idle threads, operations nobody cancels run where they said, `WaitAll` waits for all there are; `AsyncRunner` implements `AsyncTask` and obeys `CoroHelper` |
| `runner_live` | 2 operations, 2 calls each, nobody cancels, fair | one at a time on the strand, operations end, `WaitAll` returns, unless a loop outlives its caller's runner |
| `wait_all` | 3 operations, 1 call each | counterexample: an operation is started after `WaitAll` has come back |
| `scopes` | 1 operation, 2 pools of a thread, 2 timers, 4 calls, 3 scopes deep, fair | events are off in guards only, a status sticks, proxied calls run where they should, when a destructor ends the program, operations end |
| `combinators` | each of the four, up to 3 handlers, fair | who waits for whom, the first wins, no frame is used after its end except as stated, the parent goes on except as stated; it implements `AsyncTask`, `WaitAll` included |
| `pool` | 1 thread with 3 waits, or 2 or 3 threads with 1; 2 handlers; fair | `Wait` is complete and returns, handlers run, the destructor joins |
| `pool_twice` | 2 workers, 2 waits | counterexample: the second `Wait` returns early |
| `server` | 3 clients, 2 slots, failing acceptor, `Stop` or `StopClient` | one accept loop, one read loop a socket, ids, order of events, with clients side by side, a slot used again and a client refused |
| `server_live` | 2 clients, 1 slot, failing acceptor, two calls of `Stop`, `StopClient` or a second `Start`, fair | `Stop` drains; departures are noticed; `OnStopped` comes once and last; `TcpServer` implements `ServerLife` |
| `server_stopped` | 1 client, fair | counterexample: `OnStopped` is never raised |
| `server_max_connections` | 3 clients, 1 slot, fair | counterexample: after a refusal nobody is accepted any more |
| `launcher` | no constants, fair | the launcher leaves under no server that serves; the engine outlives its users unless it had failed or lost its accept loop; a signal ends the process |

Bounds. Two threads are what a hand-over needs: one gives the runner away, the
other takes, finishes and deletes it. Three operations are a parent, the first
one its deferred handler starts and the one the loop starts next; one call lets
each of them wait or switch. In `runner_live` two calls let an operation change
its scheduler and come back, or wait twice, before it ends.
`MaxOps`, `MaxWaits`, `MaxData` and `MaxCalls` bound how often
the environment acts, nothing else; `MaxDepth` and `Timers` bound the scopes.
Three handlers give a combinator one that is first, one that is last and one in
between. Three clients for two slots give clients side by side, a slot used
again and a refused client. Deadlock is checked except for scopes, combinators,
the server and the launcher, which stand still when nobody uses them any more or
when the program is over.

Fairness. `runner_live`, `scopes`, `combinators`: threads serve every scheduler,
operations and handlers end, what an operation waits for happens, `WaitAll` goes
on spinning. `pool`: threads run and handlers end; the mutex is granted to
whoever keeps asking (strong fairness), as `std::mutex` on the supported
platforms does in practice; a spurious wake-up is never relied on. `server_*`:
the strand is served and asynchronous calls complete once they can; clients and
callers are free. `launcher`: the main thread and the pool run, and the server
comes to rest once it is stopped (`StopDrains` of `server_live`); signals and
clients are free.

### What the counterexamples say

- `wait_all`: the loop of `RunAsyncAnyWait` goes on after the first operation it
  started has resumed the caller. When both have been deleted the counter is
  zero, `WaitAll` comes back, and the loop starts the next operation, reading the
  scheduler of the deleted runner. `WaitAllWaits` says what is left of the
  promise: nothing else is started after `WaitAll`.
- `pool_twice`: with two workers, a worker late from one `Wait` completes the
  next one at once, while a handler is still queued.
- `server_stopped`: a socket closed between two reads is never reported as
  disconnected, so its slot is never released and `OnStopped` never fires.
- `server_max_connections`: a refused connection ends the accept loop.

### What else the models show

These follow from the modelled code and are easy to see in it; no run is kept
for them.

- `IsInsideCoroutine` stays true on a thread after a started coroutine yielded,
  and a coroutine used inside another breaks the outer one: `YieldsItself` is a
  theorem for `MaxDepth = 1` and fails with `MaxDepth = 2`. Runners never nest
  coroutines (`UsesCoroutines`).
- A worker about to stop the service may do so after the other has reset it,
  after which all workers spin and nothing posted runs (`EveryHandlerRuns`
  promises nothing for a pool of several threads once `Wait` was called).
- `SwitchTo` of a cancelled operation changes `scheduler_` and then throws; if
  the operation catches the event, what it posts next goes to a context it is
  not in, and a proxy for that context does not switch. `RunsInItsContext` and
  `ProxiesSwitch` therefore speak of operations that have caught no event.
- The destructors of `AsyncOpStateGuard` and of a proxy are `noexcept` and
  handle events: an event that came while the operation was inside ends the
  program (`Survives` lists the ways). The destructor of a proxy that an
  exception leaves moves the operation to another thread, where
  `uncaught_exception` is false and on the old one stays true.
- Events are a flag, not a count: the destructor of a guard inside a guard allows
  events for the rest of the outer one. `EventsFollowGuards` therefore says that
  events are off only while a guard is in scope, and in all of its scope if the
  operation has nested none.
- `RunAsyncAnyWait` waits for ever if all its handlers throw, and its loop and
  its handlers, like the loop of `RunAsyncAnyResult`, use the caller's list
  after the caller has gone on. A `Waiter` that is left without a `Wait` that
  returned is used by the deleter of its last task. After a `Wait` that threw
  when it went on, a `Waiter` holds nothing: tasks started then are not waited
  for. `FrameIsAlive` and `ParentGoesOn` state exactly these exceptions.
- `RunAsyncTimes` says "sequentally one by one" (`async.h:41`) and starts its operations one
  after the other, without waiting.
- A bad address, or an acceptor that cannot be opened, ends the start silently:
  nothing is left to wait for, `WaitAll` returns and `Run` answers success. If
  bind or listen fails, accepts fail at once, each is announced as a client and
  keeps a slot, and the server ends deaf.
- A signal that meets a launcher whose start has failed, or whose server has lost
  its accept loop to a refusal and has no client left, may use the null acceptor
  or the destroyed engine: in both cases nothing is left to wait for and the
  launcher leaves by itself. `EngineOutlivesItsUsers` says that these are the only
  cases. The launcher attaches no service for `Timeout`.
- `Start` right after `Stop`, before the old operations have ended, replaces the
  acceptor in which they wait, and may leave two accept loops. The model excludes
  this call, so `OneAcceptLoop` says nothing about it.
- A read posted before and run after the close of its socket delivers one zeroed
  buffer, although `OnData` is "fired when data is received from client"
  (`tcp_server.h:127`). `OneMadeUpBuffer`, which is proved (`DataSafety`), bounds
  this disagreement: it happens once for a socket at most.
- A failed accept is announced as a connected client and keeps its slot;
  `OnListening` may follow `OnStopped`; the closure of `StopClient` reads a
  parameter that is gone, which the model treats as a read of any value.

## Proofs

Every invariant, action property and refinement that a passing run checks is
also a theorem, for every value of the constants that satisfies the module's
`ASSUME` (sets are finite where the code counts them, `Null` is no member of
them, bounds are natural numbers). Two theorems have a hypothesis besides:

- `YieldSafety` of `CoroHelper`: `MaxDepth = 1`. The class works for coroutines
  that are not nested; `UsesCoroutines` proves that the runners nest none.
- `WaitSafety` of `ThreadPool`: at most one call of `Wait` on a pool of several
  threads (none on the number of calls for one thread). The run `pool_twice` is
  the counterexample to the theorem without it.

The properties are seldom inductive. In each module the argument is an
invariant that relates what the property mentions to where everybody is:

**CoroHelper.** With the types of the stacks, `YieldsItself` is inductive at
depth one.

**AsyncRunner** (`IInv`). That the deletion in `OnExit` is safe depends on the
runner having no other continuation, which depends on where each thread is with
it. `IInv` adds: at each step of a thread, what its `cur`, `tlsRunner`, `frame`
and the coroutine are (`ThreadInv`); ownership written as separate facts for the
thread inside, the queues and the environment (`Own`); one thread at most
destroys a runner (`OneDestroyer`); the counter is the number of live runners
(`CountInv`, with the cardinality theorems for finite sets); queued
continuations sit in the queue of their own scheduler (`HomeInv`); a strand has
one thread (`StrandInv`); operations nobody can cancel have the status Normal
(`StatusInv`). A thread in a deferred handler that has given its runner away
holds nothing: none of these facts lets it use more than the thread-local
pointer. That WaitAll comes back when nothing is alive is `CountInv` at zero,
and that only such a handler starts something then is read off the actions
(`WaitAllWaits`). The refinements need in addition which state a coroutine is in
when its runner is posted, waits, is given away or dies (`RInv`); then every
action maps to a step of `AsyncTask` (`Refinement`) and of `CoroHelper`
(`CoroutineUse`), or to none.

**AsyncScopes** (`ScopesInv`). `ProxiesSwitch` speaks of the moment a proxied
call runs. What carries it there is that every proxy on the stack goes back to
the context it was made in (`Chained`), that `scheduler_` is that context except
while a proxy switches back (`InItsContext`), and that an operation is on a
thread of its `scheduler_` (`OnItsThread`). `EventsFollowGuards` needs that an
operation that has nested no guard has at most one (`GuardInv`). `Survives` needs what
`uncaught_exception` counts as long as no exception has changed threads
(`UncaughtInv`), and that a status is set outside of guards and switching
proxies if nothing else happened (`EventInv`). `StatusSticks` needs that whoever
will still write over a status had looked before it was set (`RivalInv`).

**Combinators** (`CombInv`). Who holds the shared pointer (`HolderInv`) decides
when the parent of `RunAsyncWait` and of a `Waiter` goes on; for the two that
count, the counter, the first handler, the result and the parent's state go
together (`AnyInv`), and the counter is bounded by the handlers that are past
their counting (`CountInv`, by cardinality). The refinement of `AsyncTask`
follows from the same invariant.

**ThreadPool** (`CountInv` and `WaitInv`). Outstanding work is the posted and
the executing handlers and `work_` (`OutstandingInv`), each handler is counted
once (`HandlerInv`, `OnceInv`), and the mutex is held by whoever is between
locking and unlocking it. Then: `Wait` finds all workers in `run` (`FreshInv`,
the part that fails for a second `Wait`), without `work_` they leave `run` only
when no work is left (`DrainInv`), so that what `Wait` was called for has ended
when it finds `work_` again (`BackInv`); the only worker of a pool of one has
reset the service by then (`SingleInv`).

**TcpServer** (`ServerInv`). All the parts speak of which entries the strand
has, so the proof starts with lemmas on what a queue has after an entry was taken
and others were posted (`StepFlow`, `PostFlow`). `AcceptInv`: one accept loop.
For every socket: one read loop, and a subscriber writes to its own socket only
(`LoopInv`); a loop that reads is that of a connection in its slot whose end
nobody has noticed (`LiveInv`); the end is on its way once (`EndInv`); slot and
id agree until the end is told (`SlotInv`); `on_connected_` comes before the
closures of the loop (`ToldInv`, an order within the strand); a socket without a
client has nothing (`NewInv`); what was delivered, is about to be, or may
still be read was sent (`DataInv`). `StopsInv` ties `on_stopped_` to free slots.
`GetNewConnectionIndex` and the recursive function `StopSockets` are treated by
the least counterexample (`LeastNatural`), since theorems of induction cannot
be instantiated here.

`LifeRefinement` shows that the server implements `ServerLife`, with which
`Launcher` is composed. It adds `LifeInv`: an open acceptor belongs to a running
server; `Start`'s closure is the first of the strand; and a server without an
acceptor that accepts (not started, or its start has thrown) is at rest but for
calls. The pending closures of `Stop` are counted through a bijection
(`StopsTail`). One lemma for each action shows which step of `ServerLife` it is.

**Launcher** (`LauncherInv`). The main thread's step determines the engine, the
signal set and whether `WaitAll` has returned; the engine's closures run once
and in order; the server has an operation while it starts or serves
(`ServerInv`, which `ServerLife` gives); and what became of a server that
`WaitAll` left (`LegacyInv`), which is where a failed start comes in.

`AcceptSafety`, like all theorems about the server, is about servers that are
started again only when everything of their last run has ended.

Model-checked only: liveness (`EveryOperationEnds` of two modules,
`WaitAllEnds`, `ParentGoesOn`, `EveryHandlerRuns`, `WaitEnds`, `DestructorEnds`,
`StopDrains`, `DepartureIsNoticed`, `SignalEnds`), which the prover has no rules
for; and the four counterexamples.

## Not modelled

- In `AsyncRunner`, exceptions other than the event exception, and destructors
  that call into the library; `AsyncScopes` has both.
- Several `RunAsync` calls of one server closure post adjacent entries; a
  completion that falls between them is seen before or after all of them.
- Data that arrives at a socket after it was closed; the order of the system's
  backlog; clients that stop reading for ever while the server writes.
- `Start` of a server whose last operations have not ended (see above).
- `ReadExact`, `ReadPartial` and `ReadUntil` of the server, which no part of the
  program calls, and the client side of `TcpSocket` (`Connect`, reads), which
  only the tests use.
- `tools/`: scripts that install git hooks by copying files, and a vendored
  copy of the linter cpplint. They are development tools; they share no state
  with the program and run once, sequentially.
- Listed in `PROJECT.json` with the reason: resolver, configuration, errors,
  helpers, logging.

## Plan

1. The liveness properties rest on steps that are invariants or action
   properties (for `StopDrains`, that a closure of a stopped server posts no new
   work that is not about its end): state and prove those.
2. The client socket with `Connect`, and the reads of the server.
