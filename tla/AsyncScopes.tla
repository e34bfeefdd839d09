----------------------------- MODULE AsyncScopes -----------------------------
(***************************************************************************)
(* The objects an operation puts on its stack: AsyncOpStateGuard, Timeout  *)
(* (flatasync/src/core/async.cc) and AsyncProxyBase (async_proxy.cc), with *)
(* the operation's AsyncOpState (async_op_state.cc), which other threads   *)
(* change without synchronisation.                                         *)
(*                                                                         *)
(* scopes[o] is the stack of such objects of operation o.  A body enters   *)
(* scopes, waits, handles events, throws and catches; an exception leaves  *)
(* the scopes one by one, running their destructors, which may switch      *)
(* schedulers and so continue the unwinding on another thread.  The        *)
(* destructors are noexcept: an event that one of them throws ends the     *)
(* program.                                                                *)
(*                                                                         *)
(* uncaught[t] is what std::uncaught_exception looks at, the number of     *)
(* exceptions in flight that the C++ runtime counts for thread t: a throw  *)
(* counts up, a catch counts down, each on the thread it happens on.       *)
(*                                                                         *)
(* What AsyncRunner models in detail is one step here: an operation that   *)
(* switches or waits leaves its thread and is posted when it proceeds.     *)
(***************************************************************************)
EXTENDS Integers, Sequences, FiniteSets, SequencesExt

CONSTANTS
    Ops,          \* asynchronous operations
    Threads,      \* worker threads
    Schedulers,   \* thread pools
    ThreadsOf,    \* the threads of a scheduler
    Timers,       \* deadline timers, one for each Timeout
    Null,         \* no thread, scheduler or timer
    MaxCalls,     \* bound on the calls one body makes
    MaxDepth      \* bound on the scopes an operation is in at a time

ASSUME ScopesAssumption ==
    /\ ThreadsOf \in [Schedulers -> SUBSET Threads]
    /\ Null \notin Threads \cup Schedulers \cup Timers
    /\ MaxCalls \in Nat /\ MaxDepth \in Nat

VARIABLES
    status,       \* AsyncOpState's status
    allowed,      \* is_events_allowed_
    scheduler,    \* scheduler_
    scopes,       \* [Ops -> Seq(Scope)]
    flight,       \* the exception in flight
    place,        \* [Ops -> Places]
    thread,       \* the thread a running operation is on
    resume,       \* what the operation was doing when it left its thread
    queue,        \* [Schedulers -> Seq(Ops)], posted continuations
    uncaught,     \* [Threads -> Int]
    timer,        \* [Timers -> TimerStates]
    owner,        \* the operation whose state a timer's handler holds
    cancelling,   \* operations whose Cancel has found the status Normal
    terminated,   \* std::terminate was called
    calls,        \* calls each body has made
    home,         \* the scheduler the operation was started on
    caught,       \* the body has caught an event
    struck,       \* an event came while the operation was inside a guard or proxy
    carried,      \* an exception was carried to another thread
    rivals,       \* the setters that were under way when the status was last set
    nested        \* the body has entered a guard inside a guard

opVars == <<status, allowed, scheduler, scopes, flight, calls>>
runVars == <<place, thread, resume, queue, uncaught>>
stateVars == <<timer, owner, cancelling>>
history == <<home, caught, struck, carried, rivals, nested>>
vars == <<opVars, runVars, stateVars, terminated, history>>

AsyncOpStatus == {"Normal", "Cancelled", "Timedout"}
Flights == {"none", "event", "other"}
Places == {"absent", "queued", "running", "waiting", "ended"}
\* armed: async_wait is outstanding; expired: its handler is queued without
\* an error; checked: the handler has found the status Normal.
TimerStates == {"unused", "armed", "expired", "checked", "done"}
Scope == [kind : {"guard", "timeout", "proxy"}, timer : Timers \cup {Null},
          source : Schedulers \cup {Null}, destination : Schedulers \cup {Null}]

Guard == [kind |-> "guard", timer |-> Null, source |-> Null, destination |-> Null]
TimeoutOf(k) == [kind |-> "timeout", timer |-> k, source |-> Null, destination |-> Null]
Proxy(src, dst) == [kind |-> "proxy", timer |-> Null, source |-> src, destination |-> dst]

Init ==
    /\ status = [o \in Ops |-> "Normal"]
    /\ allowed = [o \in Ops |-> TRUE]
    /\ scheduler = [o \in Ops |-> Null]
    /\ scopes = [o \in Ops |-> <<>>]
    /\ flight = [o \in Ops |-> "none"]
    /\ place = [o \in Ops |-> "absent"]
    /\ thread = [o \in Ops |-> Null]
    /\ resume = [o \in Ops |-> "start"]
    /\ queue = [s \in Schedulers |-> <<>>]
    /\ uncaught = [t \in Threads |-> 0]
    /\ timer = [k \in Timers |-> "unused"]
    /\ owner = [k \in Timers |-> Null]
    /\ cancelling = {}
    /\ terminated = FALSE
    /\ calls = [o \in Ops |-> 0]
    /\ home = [o \in Ops |-> Null]
    /\ caught = [o \in Ops |-> FALSE]
    /\ struck = FALSE
    /\ carried = FALSE
    /\ rivals = [o \in Ops |-> {}]
    /\ nested = [o \in Ops |-> FALSE]

-----------------------------------------------------------------------------
(* The pieces the calls share. *)

\* HandleEvents of operation o on thread t throws.
Throws(o, t) == allowed[o] /\ uncaught[t] = 0 /\ status[o] # "Normal"

\* An exception of operation o starts its flight on thread t.
Raise(o, t, what) ==
    /\ flight' = [flight EXCEPT ![o] = what]
    /\ uncaught' = [uncaught EXCEPT ![t] = @ + 1]

Push(o, scope) == scopes' = [scopes EXCEPT ![o] = Append(@, scope)]
Pop(o) == scopes' = [scopes EXCEPT ![o] = Front(@)]

\* Operation o is on a thread.
Running(o) == place[o] = "running" /\ ~terminated

\* The body of o makes a call.
Call(o) ==
    /\ Running(o) /\ flight[o] = "none"
    /\ calls[o] < MaxCalls
    /\ calls' = [calls EXCEPT ![o] = @ + 1]

\* The innermost scope is left, at its end or by an exception.
Leaves(o, kind) ==
    /\ Running(o)
    /\ scopes[o] # <<>> /\ Last(scopes[o]).kind = kind

InScope(o, kind) == \E i \in DOMAIN scopes[o] : scopes[o][i].kind = kind

\* A bug: the continuation is not posted.
SwitchForgets(o, dst, how) ==
    /\ scheduler' = [scheduler EXCEPT ![o] = dst]
    /\ place' = [place EXCEPT ![o] = "queued"]
    /\ thread' = [thread EXCEPT ![o] = Null]
    /\ resume' = [resume EXCEPT ![o] = how]
    /\ UNCHANGED queue

\* SwitchTo's Defer: the operation is posted to dst and leaves its thread.
Switch(o, dst, how) ==
    /\ scheduler' = [scheduler EXCEPT ![o] = dst]
    /\ queue' = [queue EXCEPT ![dst] = Append(@, o)]
    /\ place' = [place EXCEPT ![o] = "queued"]
    /\ thread' = [thread EXCEPT ![o] = Null]
    /\ resume' = [resume EXCEPT ![o] = how]

-----------------------------------------------------------------------------
(* What a body does. *)

HandleEvents(o) ==
    /\ Call(o)
    /\ Throws(o, thread[o])
    /\ Raise(o, thread[o], "event")
    /\ UNCHANGED <<status, allowed, scheduler, scopes, place, thread, resume, queue, stateVars,
                   terminated, history>>

\* The body throws an exception of its own.
Throw(o) ==
    /\ Call(o)
    /\ Raise(o, thread[o], "other")
    /\ UNCHANGED <<status, allowed, scheduler, scopes, place, thread, resume, queue, stateVars,
                   terminated, history>>

\* A try block anywhere on the stack catches it.
Catch(o) ==
    /\ Running(o) /\ flight[o] # "none"
    /\ flight' = [flight EXCEPT ![o] = "none"]
    /\ uncaught' = [uncaught EXCEPT ![thread[o]] = @ - 1]
    /\ caught' = [caught EXCEPT ![o] = @ \/ flight[o] = "event"]
    /\ UNCHANGED <<status, allowed, scheduler, scopes, calls, place, thread, resume, queue,
                   stateVars, terminated, home, struck, carried, rivals, nested>>

\* A wait in DeferProceed.
Wait(o) ==
    /\ Call(o)
    /\ IF Throws(o, thread[o])
       THEN Raise(o, thread[o], "event") /\ UNCHANGED <<place, thread, resume>>
       ELSE /\ place' = [place EXCEPT ![o] = "waiting"]
            /\ thread' = [thread EXCEPT ![o] = Null]
            /\ resume' = [resume EXCEPT ![o] = "wait"]
            /\ UNCHANGED <<flight, uncaught>>
    /\ UNCHANGED <<status, allowed, scheduler, scopes, queue, stateVars, terminated, history>>

\* What it waited for has happened: Proceed.
Proceed(o) ==
    /\ place[o] = "waiting" /\ ~terminated
    /\ place' = [place EXCEPT ![o] = "queued"]
    /\ queue' = [queue EXCEPT ![scheduler[o]] = Append(@, o)]
    /\ UNCHANGED <<opVars, thread, resume, uncaught, stateVars, terminated, history>>

\* A bug: events are disabled first, so that HandleEvents returns at once.
DisableThenHandle(o) ==
    /\ allowed' = [allowed EXCEPT ![o] = FALSE]
    /\ Push(o, Guard)
    /\ UNCHANGED <<flight, uncaught>>

\* DisableEvents in the constructor of AsyncOpStateGuard.
DisableEvents(o) ==
    IF Throws(o, thread[o])
    THEN Raise(o, thread[o], "event") /\ UNCHANGED <<allowed, scopes>>
    ELSE /\ allowed' = [allowed EXCEPT ![o] = FALSE]
         /\ Push(o, Guard)
         /\ UNCHANGED <<flight, uncaught>>

\* AsyncOpStateGuard::AsyncOpStateGuard.
EnterGuard(o) ==
    /\ Call(o)
    /\ Len(scopes[o]) < MaxDepth
    /\ DisableEvents(o)
    /\ nested' = [nested EXCEPT ![o] = @ \/ InScope(o, "guard")]
    /\ UNCHANGED <<status, scheduler, place, thread, resume, queue, stateVars, terminated, home, caught,
                   struck, carried, rivals>>

\* A bug: EnableEvents returns during an exception before it allows events.
LeaveGuardInFlight(o) ==
    /\ Leaves(o, "guard")
    /\ allowed' = [allowed EXCEPT ![o] = @ \/ uncaught[thread[o]] = 0]
    /\ terminated' = (uncaught[thread[o]] = 0 /\ status[o] # "Normal")
    /\ Pop(o)
    /\ UNCHANGED <<status, scheduler, flight, calls, runVars, stateVars, history>>

\* ~AsyncOpStateGuard: EnableEvents allows events and then handles them.
LeaveGuard(o) ==
    /\ Leaves(o, "guard")
    /\ allowed' = [allowed EXCEPT ![o] = TRUE]
    /\ terminated' = (uncaught[thread[o]] = 0 /\ status[o] # "Normal")
    /\ Pop(o)
    /\ UNCHANGED <<status, scheduler, flight, calls, runVars, stateVars, history>>

\* Timeout::Timeout: the handler of the timer holds the operation's state.
EnterTimeout(o) ==
    /\ Call(o)
    /\ Len(scopes[o]) < MaxDepth
    /\ \E k \in Timers :
          /\ timer[k] = "unused"
          /\ timer' = [timer EXCEPT ![k] = "armed"]
          /\ owner' = [owner EXCEPT ![k] = o]
          /\ Push(o, TimeoutOf(k))
    /\ UNCHANGED <<status, allowed, scheduler, flight, runVars, cancelling, terminated, history>>

\* Timeout::~Timeout: cancel_one has no effect on a timer that has expired.
LeaveTimeout(o) ==
    LET k == Last(scopes[o]).timer IN
    /\ Leaves(o, "timeout")
    /\ timer' = [timer EXCEPT ![k] = IF @ = "armed" THEN "done" ELSE @]
    /\ Pop(o)
    /\ UNCHANGED <<status, allowed, scheduler, flight, calls, runVars, owner, cancelling, terminated,
                   history>>

\* AsyncProxyBase::AsyncProxyBase keeps the scheduler and switches.  When
\* SwitchTo throws, scheduler_ has changed and there is no object to change
\* it back.
EnterProxy(o, dst) ==
    /\ Call(o)
    /\ Len(scopes[o]) < MaxDepth
    /\ CASE dst = scheduler[o] ->
              /\ Push(o, Proxy(scheduler[o], dst))
              /\ UNCHANGED <<scheduler, flight, runVars>>
         [] dst # scheduler[o] /\ Throws(o, thread[o]) ->
              /\ scheduler' = [scheduler EXCEPT ![o] = dst]
              /\ Raise(o, thread[o], "event")
              /\ UNCHANGED <<scopes, place, thread, resume, queue>>
         [] OTHER ->
              /\ Push(o, Proxy(scheduler[o], dst))
              /\ Switch(o, dst, "enter")
              /\ UNCHANGED <<flight, uncaught>>
    /\ UNCHANGED <<status, allowed, stateVars, terminated, history>>

\* A bug: the destructor does not switch back during an exception.
LeaveProxyInFlight(o) ==
    LET src == Last(scopes[o]).source IN
    /\ Leaves(o, "proxy")
    /\ IF src = scheduler[o] \/ flight[o] # "none"
       THEN Pop(o) /\ UNCHANGED <<scheduler, place, thread, resume, queue, terminated, carried>>
       ELSE /\ terminated' = Throws(o, thread[o])
            /\ Switch(o, src, "leave")
            /\ UNCHANGED <<scopes, carried>>
    /\ UNCHANGED <<status, allowed, flight, calls, uncaught, stateVars, home, caught, struck, rivals,
                   nested>>

\* AsyncProxyBase::~AsyncProxyBase: SwitchTo(source).
LeaveProxy(o) ==
    LET src == Last(scopes[o]).source IN
    /\ Leaves(o, "proxy")
    /\ IF src = scheduler[o]
       THEN Pop(o) /\ UNCHANGED <<scheduler, place, thread, resume, queue, terminated, carried>>
       ELSE /\ terminated' = Throws(o, thread[o])
            /\ Switch(o, src, "leave")
            /\ carried' = (carried \/ flight[o] # "none")
            /\ UNCHANGED scopes
    /\ UNCHANGED <<status, allowed, flight, calls, uncaught, stateVars, home, caught, struck, rivals,
                   nested>>

\* The handler returns, or the catch clause of AsyncRunner::Start takes its
\* exception.
Finish(o) ==
    /\ Running(o)
    /\ scopes[o] = <<>>
    /\ IF flight[o] = "none" THEN UNCHANGED uncaught
       ELSE uncaught' = [uncaught EXCEPT ![thread[o]] = @ - 1]
    /\ flight' = [flight EXCEPT ![o] = "none"]
    /\ place' = [place EXCEPT ![o] = "ended"]
    /\ thread' = [thread EXCEPT ![o] = Null]
    /\ UNCHANGED <<status, allowed, scheduler, scopes, calls, resume, queue, stateVars, terminated,
                   history>>

-----------------------------------------------------------------------------
(* The rest of the program. *)

\* RunAsync.
RunAsync(o, s) ==
    /\ place[o] = "absent" /\ ~terminated
    /\ place' = [place EXCEPT ![o] = "queued"]
    /\ scheduler' = [scheduler EXCEPT ![o] = s]
    /\ home' = [home EXCEPT ![o] = s]
    /\ queue' = [queue EXCEPT ![s] = Append(@, o)]
    /\ UNCHANGED <<status, allowed, scopes, flight, calls, thread, resume, uncaught, stateVars,
                   terminated, caught, struck, carried, rivals, nested>>

\* An operation that switched or waited goes on in Defer, which handles
\* events, and then in the constructor or destructor that called it.
GoesOn(o, t) ==
    IF resume[o] # "start" /\ Throws(o, t)
    THEN /\ Raise(o, t, "event")
         /\ terminated' = (resume[o] = "leave")
         /\ IF resume[o] = "enter" THEN Pop(o) ELSE UNCHANGED scopes
    ELSE /\ IF resume[o] = "leave" THEN Pop(o) ELSE UNCHANGED scopes
         /\ UNCHANGED <<flight, uncaught, terminated>>

\* A thread takes the next continuation.
Dispatch(t, s) ==
    /\ t \in ThreadsOf[s]
    /\ \A o \in Ops : thread[o] # t
    /\ queue[s] # <<>> /\ ~terminated
    /\ queue' = [queue EXCEPT ![s] = Tail(@)]
    /\ LET o == Head(queue[s]) IN
         /\ place' = [place EXCEPT ![o] = "running"]
         /\ thread' = [thread EXCEPT ![o] = t]
         /\ GoesOn(o, t)
    /\ UNCHANGED <<status, allowed, scheduler, calls, resume, stateVars, history>>

\* The operation is inside a guard or a proxy that an event can break.
Exposed(o) == \E i \in DOMAIN scopes[o] : scopes[o][i].kind # "timeout"

\* A bug: the status is replaced whatever it is.
MayChangeAlways(o) == TRUE

\* AsyncOpState::SetStatus looks at the status ...
MayChange(o) == status[o] = "Normal"

\* The calls of Cancel (o itself) and Timedout (its timer) that have found the
\* status of o Normal and not written yet.
Setters(o) == (cancelling \cap {o}) \cup {k \in Timers : owner[k] = o /\ timer[k] = "checked"}

\* ... and then writes it, without a lock.
ChangeStatus(o, st) ==
    /\ status' = [status EXCEPT ![o] = st]
    /\ struck' = (struck \/ Exposed(o))
    /\ rivals' = [rivals EXCEPT ![o] = Setters(o)]

CancelBegin(o) ==
    /\ place[o] \notin {"absent", "ended"} /\ ~terminated
    /\ o \notin cancelling
    /\ MayChange(o)
    /\ cancelling' = cancelling \cup {o}
    /\ UNCHANGED <<opVars, runVars, timer, owner, terminated, history>>

CancelEnd(o) ==
    /\ o \in cancelling /\ ~terminated
    /\ cancelling' = cancelling \ {o}
    /\ ChangeStatus(o, "Cancelled")
    /\ UNCHANGED <<allowed, scheduler, scopes, flight, calls, runVars, timer, owner, terminated, home,
                   caught, carried, nested>>

\* AsyncOpState::Reset.
Reset(o) ==
    /\ status[o] # "Normal" /\ ~terminated
    /\ status' = [status EXCEPT ![o] = "Normal"]
    /\ UNCHANGED <<allowed, scheduler, scopes, flight, calls, runVars, stateVars, terminated, history>>

\* The time is over, and the handler of the timer is queued.
TimerExpires(k) ==
    /\ timer[k] = "armed" /\ ~terminated
    /\ timer' = [timer EXCEPT ![k] = "expired"]
    /\ UNCHANGED <<opVars, runVars, owner, cancelling, terminated, history>>

\* The handler: Timedout.
TimedoutBegin(k) ==
    /\ timer[k] = "expired" /\ ~terminated
    /\ timer' = [timer EXCEPT ![k] = IF MayChange(owner[k]) THEN "checked" ELSE "done"]
    /\ UNCHANGED <<opVars, runVars, owner, cancelling, terminated, history>>

TimedoutEnd(k) ==
    /\ timer[k] = "checked" /\ ~terminated
    /\ timer' = [timer EXCEPT ![k] = "done"]
    /\ ChangeStatus(owner[k], "Timedout")
    /\ UNCHANGED <<allowed, scheduler, scopes, flight, calls, runVars, owner, cancelling, terminated,
                   home, caught, carried, nested>>

-----------------------------------------------------------------------------

Body(o) ==
    \/ HandleEvents(o) \/ Throw(o) \/ Catch(o) \/ Wait(o)
    \/ EnterGuard(o) \/ EnterTimeout(o)
    \/ \E s \in Schedulers : EnterProxy(o, s)

Leave(o) == LeaveGuard(o) \/ LeaveTimeout(o) \/ LeaveProxy(o) \/ Finish(o)

Others ==
    \/ \E o \in Ops : \/ \E s \in Schedulers : RunAsync(o, s)
                      \/ CancelBegin(o) \/ CancelEnd(o) \/ Reset(o)
    \/ \E k \in Timers : TimerExpires(k) \/ TimedoutBegin(k) \/ TimedoutEnd(k)

Next ==
    \/ \E o \in Ops : Body(o) \/ Leave(o) \/ Proceed(o)
    \/ \E t \in Threads, s \in Schedulers : Dispatch(t, s)
    \/ Others

Spec == Init /\ [][Next]_vars

\* Bodies end, what they wait for happens and threads take continuations.
Fairness ==
    /\ \A o \in Ops : WF_vars(Leave(o)) /\ WF_vars(Proceed(o))
    /\ \A s \in Schedulers : WF_vars(\E t \in Threads : Dispatch(t, s))

FairSpec == Spec /\ Fairness

-----------------------------------------------------------------------------
(* Properties. *)

\* The members of the operations, their scopes and the timers have their
\* types, and only an operation that runs has a thread.
TypeOK ==
    /\ status \in [Ops -> AsyncOpStatus]
    /\ allowed \in [Ops -> BOOLEAN]
    /\ scheduler \in [Ops -> Schedulers \cup {Null}]
    /\ scopes \in [Ops -> Seq(Scope)]
    /\ flight \in [Ops -> Flights]
    /\ place \in [Ops -> Places]
    /\ thread \in [Ops -> Threads \cup {Null}]
    /\ \A o \in Ops : (thread[o] # Null) = (place[o] = "running")
    /\ resume \in [Ops -> {"start", "wait", "enter", "leave"}]
    /\ queue \in [Schedulers -> Seq(Ops)]
    /\ uncaught \in [Threads -> Int]
    /\ timer \in [Timers -> TimerStates]
    /\ owner \in [Timers -> Ops \cup {Null}]
    /\ cancelling \subseteq Ops
    /\ terminated \in BOOLEAN
    /\ calls \in [Ops -> 0 .. MaxCalls]
    /\ home \in [Ops -> Schedulers \cup {Null}]
    /\ caught \in [Ops -> BOOLEAN]
    /\ struck \in BOOLEAN /\ carried \in BOOLEAN
    /\ rivals \in [Ops -> SUBSET (Ops \cup Timers)]
    /\ nested \in [Ops -> BOOLEAN]

\* Events are off only while an AsyncOpStateGuard is in scope, so that no
\* operation stays deaf to Cancel and timeouts; and they are off in all of a
\* guard's scope, across waits, switches, exceptions and threads, for an
\* operation that does not nest guards.  With nested guards the end of the
\* inner one turns events on inside the outer one: is_events_allowed_ is a bool.
EventsFollowGuards ==
    \A o \in Ops :
        /\ ~allowed[o] => InScope(o, "guard")
        /\ InScope(o, "guard") /\ ~nested[o] => ~allowed[o]

\* A status that was set stays until Reset: Cancel and Timedout write over it,
\* and so both report success, only when they had found Normal before it was
\* set.
StatusSticks ==
    [][\A o \in Ops :
          status[o] # "Normal" =>
              Setters(o) \ Setters(o)' \subseteq rivals[o]]_vars

\* The scheduler a proxied call of o runs in, or o's own outside of proxies.
Context(o) ==
    LET proxies == {i \in DOMAIN scopes[o] : scopes[o][i].kind = "proxy"} IN
    IF proxies = {} THEN home[o]
    ELSE scopes[o][CHOOSE i \in proxies : \A j \in proxies : j <= i].destination

\* A proxied call runs on a thread of its scheduler, and what follows on a
\* thread of the caller's, also after exceptions of the body were caught:
\* unless the operation has caught an event, which may leave it with a
\* scheduler_ it is not in, so that the next proxy does not switch.
ProxiesSwitch ==
    \A o \in Ops :
        place[o] = "running" /\ flight[o] = "none" /\ ~caught[o] =>
            thread[o] \in ThreadsOf[Context(o)]

\* std::terminate is called only if an event came while an operation was
\* inside a guard or a proxy, if an operation caught an event and went on, or
\* if the destructor of a proxy has carried an exception to another thread and
\* so confused std::uncaught_exception.
Survives == terminated => struck \/ carried \/ \E o \in Ops : caught[o]

\* Every operation ends, with all its scopes left, unless the program was
\* terminated.
EveryOperationEnds ==
    \A o \in Ops : place[o] = "queued" ~> place[o] = "ended" \/ terminated

=============================================================================
