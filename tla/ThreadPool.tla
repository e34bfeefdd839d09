------------------------------ MODULE ThreadPool ------------------------------
(***************************************************************************)
(* rms::core::ThreadPool (flatasync/src/core/thread_pool.{h,cc}): worker   *)
(* threads that run one boost::asio::io_service, Schedule, Wait and the    *)
(* destructor.                                                             *)
(*                                                                         *)
(* The io_service is external.  What the pool depends on is modelled: it   *)
(* counts outstanding work (posted and executing handlers, and the         *)
(* io_service::work object work_), run() returns once the service is       *)
(* stopped, the service stops when the count reaches zero, and reset()     *)
(* makes it runnable again.  Reaching zero and stopping are two steps in   *)
(* its implementation, in run() and where work finishes.                   *)
(*                                                                         *)
(* One client thread posts handlers, calls Wait, and in the end destroys   *)
(* the pool; handlers may post handlers.                                   *)
(***************************************************************************)
EXTENDS Naturals, Sequences, FiniteSets

CONSTANTS
    Workers,    \* threads for the pool
    Handlers,   \* handlers that are posted, each once
    Client,     \* the thread that owns the pool
    Null,       \* no thread
    MaxWaits    \* bound on the calls of Wait, for each number of threads

ASSUME PoolAssumption ==
    /\ Null \notin Workers \cup {Client}
    /\ Client \notin Workers
    /\ IsFiniteSet(Workers)
    /\ MaxWaits \in [1 .. Cardinality(Workers) -> Nat]

VARIABLES
    threads,       \* threads_: as many of the workers as the constructor's thread_count
    work,          \* work_ holds an io_service::work
    stopped,       \* stopped_
    mutex,         \* the owner of mutex_
    queue,         \* the io_service's posted handlers
    outstanding,   \* its outstanding work
    svcStopped,    \* it is stopped
    wpc,           \* [Workers -> worker steps]
    cpc,           \* the client's step
    current,       \* the handler a worker executes
    state,         \* [Handlers -> HandlerStates]
    promised,      \* handlers posted before the Wait under way was called
    waits          \* calls of Wait so far

poolVars == <<threads, work, stopped, mutex>>
serviceVars == <<queue, outstanding, svcStopped>>
clientVars == <<promised, waits>>
vars == <<poolVars, serviceVars, wpc, cpc, current, state, clientVars>>

HandlerStates == {"new", "posted", "running", "done"}
WorkerSteps == {"created", "barrier", "run", "stopRun", "loop", "exec", "stopFinish",
                "lock", "check", "reset", "ended"}
ClientSteps == {"constructor", "idle", "wait", "stopWait", "sleep", "woken",
                "destructor", "stop", "join", "gone"}

Init ==
    /\ threads \in (SUBSET Workers) \ {{}}
    /\ work = TRUE
    /\ stopped = FALSE
    /\ mutex = Null
    /\ queue = <<>>
    /\ outstanding = 1
    /\ svcStopped = FALSE
    /\ wpc = [w \in Workers |-> "created"]
    /\ cpc = "constructor"
    /\ current = [w \in Workers |-> Null]
    /\ state = [h \in Handlers |-> "new"]
    /\ promised = {}
    /\ waits = 0

Goto(w, step) == wpc' = [wpc EXCEPT ![w] = step]

-----------------------------------------------------------------------------
(* A worker thread. *)

\* SetCurrentThreadIoService, then barrier_.wait().
Arrive(w) ==
    /\ w \in threads
    /\ wpc[w] = "created"
    /\ Goto(w, "barrier")
    /\ UNCHANGED <<poolVars, serviceVars, cpc, current, state, clientVars>>

\* The barrier opens for the workers and the constructor together.
OpenBarrier ==
    /\ cpc = "constructor"
    /\ \A w \in threads : wpc[w] = "barrier"
    /\ wpc' = [w \in Workers |-> IF w \in threads THEN "run" ELSE "created"]
    /\ cpc' = "idle"
    /\ UNCHANGED <<poolVars, serviceVars, current, state, clientVars>>

\* io_service::run: without outstanding work it stops the service.
RunBegin(w) ==
    /\ wpc[w] = "run"
    /\ Goto(w, IF outstanding = 0 THEN "stopRun" ELSE "loop")
    /\ UNCHANGED <<poolVars, serviceVars, cpc, current, state, clientVars>>

\* io_service::stop, called by run and by the end of the last piece of work.
StopService(w) ==
    /\ wpc[w] \in {"stopRun", "stopFinish"}
    /\ svcStopped' = TRUE
    /\ Goto(w, IF wpc[w] = "stopRun" THEN "lock" ELSE "loop")
    /\ UNCHANGED <<poolVars, queue, outstanding, cpc, current, state, clientVars>>

\* run returns when the service is stopped.
RunReturn(w) ==
    /\ wpc[w] = "loop"
    /\ svcStopped
    /\ Goto(w, "lock")
    /\ UNCHANGED <<poolVars, serviceVars, cpc, current, state, clientVars>>

\* run takes the next handler.
Take(w) ==
    /\ wpc[w] = "loop"
    /\ ~svcStopped
    /\ queue # <<>>
    /\ current' = [current EXCEPT ![w] = Head(queue)]
    /\ state' = [state EXCEPT ![Head(queue)] = "running"]
    /\ queue' = Tail(queue)
    /\ Goto(w, "exec")
    /\ UNCHANGED <<poolVars, outstanding, svcStopped, cpc, clientVars>>

\* ThreadPool::Schedule.
Schedule(h) ==
    /\ state[h] = "new"
    /\ state' = [state EXCEPT ![h] = "posted"]
    /\ queue' = Append(queue, h)
    /\ outstanding' = outstanding + 1

ScheduleFromHandler(w) ==
    /\ wpc[w] = "exec"
    /\ \E h \in Handlers : Schedule(h)
    /\ UNCHANGED <<poolVars, svcStopped, wpc, cpc, current, clientVars>>

\* A handler ends; the last piece of work stops the service.
HandlerEnds(w) ==
    /\ wpc[w] = "exec"
    /\ state' = [state EXCEPT ![current[w]] = "done"]
    /\ current' = [current EXCEPT ![w] = Null]
    /\ outstanding' = outstanding - 1
    /\ Goto(w, IF outstanding = 1 THEN "stopFinish" ELSE "loop")
    /\ UNCHANGED <<poolVars, queue, svcStopped, cpc, clientVars>>

\* std::unique_lock on mutex_ after run returned.
WorkerLock(w) ==
    /\ wpc[w] = "lock"
    /\ mutex = Null
    /\ mutex' = w
    /\ Goto(w, "check")
    /\ UNCHANGED <<threads, work, stopped, serviceVars, cpc, current, state, clientVars>>

\* A bug: stopped_ does not end the loop.
WorkerCheckGoesOn(w) ==
    /\ wpc[w] = "check"
    /\ IF stopped \/ work
       THEN Goto(w, "run") /\ mutex' = Null /\ UNCHANGED <<work, outstanding>>
       ELSE /\ work' = TRUE
            /\ outstanding' = outstanding + 1
            /\ Goto(w, "reset")
            /\ UNCHANGED mutex
    /\ UNCHANGED <<threads, stopped, queue, svcStopped, cpc, current, state, clientVars>>

\* Leave the loop if stopped_; make new work if Wait took it away.
WorkerCheck(w) ==
    /\ wpc[w] = "check"
    /\ IF stopped
       THEN Goto(w, "ended") /\ mutex' = Null /\ UNCHANGED <<work, outstanding>>
       ELSE IF work
       THEN Goto(w, "run") /\ mutex' = Null /\ UNCHANGED <<work, outstanding>>
       ELSE /\ work' = TRUE
            /\ outstanding' = outstanding + 1
            /\ Goto(w, "reset")
            /\ UNCHANGED mutex
    /\ UNCHANGED <<threads, stopped, queue, svcStopped, cpc, current, state, clientVars>>

\* Bugs: the service is not reset; the waiting thread is not notified.
WorkerResetForgets(w) ==
    /\ wpc[w] = "reset"
    /\ cpc' = IF cpc = "sleep" THEN "woken" ELSE cpc
    /\ mutex' = Null
    /\ Goto(w, "run")
    /\ UNCHANGED <<threads, work, stopped, serviceVars, current, state, clientVars>>

WorkerResetSilent(w) ==
    /\ wpc[w] = "reset"
    /\ svcStopped' = FALSE
    /\ mutex' = Null
    /\ Goto(w, "run")
    /\ UNCHANGED <<threads, work, stopped, queue, outstanding, cpc, current, state, clientVars>>

\* asio_service_.reset(), awaiter_.notify_all(), unlock.
WorkerReset(w) ==
    /\ wpc[w] = "reset"
    /\ svcStopped' = FALSE
    /\ cpc' = IF cpc = "sleep" THEN "woken" ELSE cpc
    /\ mutex' = Null
    /\ Goto(w, "run")
    /\ UNCHANGED <<threads, work, stopped, queue, outstanding, current, state, clientVars>>

-----------------------------------------------------------------------------
(* The client. *)

ScheduleFromClient ==
    /\ cpc = "idle"
    /\ \E h \in Handlers : Schedule(h)
    /\ UNCHANGED <<poolVars, svcStopped, wpc, cpc, current, clientVars>>

\* ThreadPool::Wait begins.
WaitBegin ==
    /\ cpc = "idle"
    /\ waits < MaxWaits[Cardinality(threads)]
    /\ waits' = waits + 1
    /\ promised' = {h \in Handlers : state[h] # "new"}
    /\ cpc' = "wait"
    /\ UNCHANGED <<poolVars, serviceVars, wpc, current, state>>

\* A bug: work_ is kept.
ResetWorkNot(last, notLast) == cpc' = notLast /\ UNCHANGED <<work, outstanding>>

\* work_.reset(): nothing if it is empty; if it was the last work the service
\* is stopped next.
ResetWork(last, notLast) ==
    /\ work' = FALSE
    /\ outstanding' = IF work THEN outstanding - 1 ELSE outstanding
    /\ cpc' = IF work /\ outstanding = 1 THEN last ELSE notLast

\* Wait locks mutex_ and resets work_.
WaitLock ==
    /\ cpc = "wait"
    /\ mutex = Null
    /\ ResetWork("stopWait", "sleep")
    /\ mutex' = IF cpc' = "sleep" THEN Null ELSE Client
    /\ UNCHANGED <<threads, stopped, queue, svcStopped, wpc, current, state, clientVars>>

\* The last work is gone: the service stops, and awaiter_.wait unlocks.
WaitStop ==
    /\ cpc = "stopWait"
    /\ svcStopped' = TRUE
    /\ mutex' = Null
    /\ cpc' = "sleep"
    /\ UNCHANGED <<threads, work, stopped, queue, outstanding, wpc, current, state, clientVars>>

\* A condition variable may wake up without a notification.
SpuriousWakeup ==
    /\ cpc = "sleep"
    /\ cpc' = "woken"
    /\ UNCHANGED <<poolVars, serviceVars, wpc, current, state, clientVars>>

\* awaiter_.wait locks again; Wait returns when there is work_ again.
WaitCheck ==
    /\ cpc = "woken"
    /\ mutex = Null
    /\ cpc' = IF work THEN "idle" ELSE "sleep"
    /\ UNCHANGED <<poolVars, serviceVars, wpc, current, state, clientVars>>

\* ~ThreadPool begins.
DestructorBegin ==
    /\ cpc = "idle"
    /\ cpc' = "destructor"
    /\ UNCHANGED <<poolVars, serviceVars, wpc, current, state, clientVars>>

\* Under the lock: stopped_ = true, work_.reset().  If that stops the service,
\* so does the next line of the destructor.
DestructorLock ==
    /\ cpc = "destructor"
    /\ mutex = Null
    /\ stopped' = TRUE
    /\ ResetWork("stop", "stop")
    /\ UNCHANGED <<threads, mutex, queue, svcStopped, wpc, current, state, clientVars>>

\* asio_service_.stop().
DestructorStop ==
    /\ cpc = "stop"
    /\ svcStopped' = TRUE
    /\ cpc' = "join"
    /\ UNCHANGED <<poolVars, queue, outstanding, wpc, current, state, clientVars>>

\* item.join() for every thread.
DestructorJoin ==
    /\ cpc = "join"
    /\ \A w \in threads : wpc[w] = "ended"
    /\ cpc' = "gone"
    /\ UNCHANGED <<poolVars, serviceVars, wpc, current, state, clientVars>>

\* The pool is destroyed.
Terminated == cpc = "gone" /\ UNCHANGED vars

-----------------------------------------------------------------------------

InRun(w) == RunBegin(w) \/ StopService(w) \/ RunReturn(w) \/ Take(w) \/ HandlerEnds(w)

WorkerLoop(w) == WorkerLock(w) \/ WorkerCheck(w) \/ WorkerReset(w)

ClientStep == WaitLock \/ WaitStop \/ WaitCheck \/ DestructorLock \/ DestructorStop \/ DestructorJoin

Next ==
    \/ \E w \in Workers : Arrive(w) \/ InRun(w) \/ ScheduleFromHandler(w) \/ WorkerLoop(w)
    \/ OpenBarrier
    \/ ScheduleFromClient
    \/ WaitBegin
    \/ SpuriousWakeup
    \/ DestructorBegin
    \/ ClientStep
    \/ Terminated

Spec == Init /\ [][Next]_vars

\* Threads run and handlers end; a thread that keeps asking for the mutex gets
\* it; a notified or spuriously woken client keeps going.  Nobody is obliged
\* to post, to call Wait or to destroy the pool.
Fairness ==
    /\ \A w \in Workers : WF_vars(Arrive(w)) /\ WF_vars(InRun(w)) /\ SF_vars(WorkerLoop(w))
    /\ WF_vars(OpenBarrier)
    /\ SF_vars(ClientStep)

FairSpec == Spec /\ Fairness

-----------------------------------------------------------------------------
(* Properties. *)

\* The pool's and the service's state has its type; in particular the
\* service's outstanding work never goes below zero.
TypeOK ==
    /\ work \in BOOLEAN /\ stopped \in BOOLEAN /\ svcStopped \in BOOLEAN
    /\ mutex \in Workers \cup {Client, Null}
    /\ queue \in Seq(Handlers)
    /\ outstanding \in Nat
    /\ wpc \in [Workers -> WorkerSteps]
    /\ cpc \in ClientSteps
    /\ current \in [Workers -> Handlers \cup {Null}]
    /\ state \in [Handlers -> HandlerStates]
    /\ promised \in SUBSET Handlers
    /\ threads \in SUBSET Workers
    /\ waits \in Nat

\* Wait "until thread pool is done": when it is about to return, every handler
\* posted before it was called has ended, whatever the workers were doing
\* when Wait took work_ away.  (Of a pool of several threads only the first
\* Wait keeps this.)
WaitIsComplete ==
    cpc = "woken" /\ work => \A h \in promised : state[h] = "done"

\* A handler that was posted is executed, unless the pool is destroyed first,
\* whatever calls of Wait come between: on a pool of one thread always, on a
\* larger one until Wait is called, after which a worker late to stop the
\* service may stop the one that was reset.
EveryHandlerRuns ==
    \A h \in Handlers :
        state[h] = "posted" ~>
            \/ state[h] = "done"
            \/ stopped
            \/ Cardinality(threads) > 1 /\ waits > 0

\* Wait comes back: the notification is not missed, and some worker makes new
\* work_ even if the service stopped before Wait went to sleep.
WaitEnds == cpc = "wait" ~> cpc = "idle"

\* The destructor joins every worker, wherever it finds them.
DestructorEnds == cpc = "destructor" ~> cpc = "gone"

=============================================================================
