------------------------------- MODULE Launcher -------------------------------
(***************************************************************************)
(* rms::core::EngineLauncher and rms::core::Engine (cppecho/src/core/      *)
(* {engine_launcher,engine}.cc), composed with ServerLife, which TcpServer *)
(* implements.                                                             *)
(*                                                                         *)
(* Three actors share the engine: the main thread, which makes everything, *)
(* waits in WaitAll for the number of operations to be zero, and tears     *)
(* everything down; the thread of the main pool that runs the handler of   *)
(* SIGINT and SIGTERM; and the engine's strand.  Their steps interleave.   *)
(*                                                                         *)
(* The strand is served by the threads of the main pool, so it is silent   *)
(* before and after that pool's life.                                      *)
(***************************************************************************)
EXTENDS Naturals, Sequences

VARIABLES
    main,        \* where the main thread is
    engine,      \* engine_: "null", "made", "initiated" or "destroyed"
    stopped,     \* Engine::stopped_
    strand,      \* the engine's closures that have not run
    attached,    \* accessors that have a pool
    signals,     \* the signal_set: "none", "armed", "fired" or "destroyed"
    handler,     \* the signal handler: "none", "queued", "stopping" or "done"
    signalled,   \* a signal came while the set was armed
    leftFrom,    \* the server's phase when WaitAll returned, or "none"
    fate,        \* "alive"; "killed" by a signal; "crashed", having used the destroyed engine
    phase, busy, room, made, stops   \* of the server

Server == INSTANCE ServerLife

serverVars == <<phase, busy, room, made, stops>>
engineVars == <<engine, stopped, strand>>
signalVars == <<signals, handler, signalled>>
vars == <<main, leftFrom, engineVars, attached, signalVars, fate, serverVars>>

MainSteps == {"run", "attach", "engine", "init", "start", "arm", "WaitAll", "disarm", "reset",
              "detach", "pools", "returned"}
Accessors == {"defaultService", "defaultScheduler", "networkService", "networkScheduler"}

Init ==
    /\ main = "run"
    /\ engine = "null"
    /\ stopped = FALSE
    /\ strand = <<>>
    /\ attached = {}
    /\ signals = "none"
    /\ handler = "none"
    /\ signalled = FALSE
    /\ leftFrom = "none"
    /\ fate = "alive"
    /\ Server!LifeInit

\* The process goes on, and so do the threads of the main pool.
Alive == fate = "alive" /\ phase # "crashed"
PoolRuns == Alive /\ main \notin {"run", "returned"}

Main(from, to) ==
    /\ Alive
    /\ main = from
    /\ main' = to

-----------------------------------------------------------------------------
(* EngineLauncher::Run on the main thread. *)

\* Help and version are shown without an engine; otherwise Init makes the pools.
Run ==
    /\ Main("run", "attach") \/ Main("run", "returned")
    /\ UNCHANGED <<leftFrom, engineVars, attached, signalVars, fate, serverVars>>

\* Init: the accessors are attached to the pools.
Attach ==
    /\ Main("attach", "engine")
    /\ attached' = Accessors
    /\ UNCHANGED <<leftFrom, engineVars, signalVars, fate, serverVars>>

\* Init: Engine's constructor makes the strand over the default service.
MakeEngine ==
    /\ Main("engine", "init")
    /\ "defaultService" \in attached
    /\ engine' = "made"
    /\ UNCHANGED <<leftFrom, stopped, strand, attached, signalVars, fate, serverVars>>

\* A bug: an engine that was not started counts as stopped.
InitEngineStopped ==
    /\ Main("init", "start")
    /\ engine' = "initiated"
    /\ stopped' = TRUE
    /\ UNCHANGED <<leftFrom, strand, attached, signalVars, fate, serverVars>>

\* Engine::Init, which always answers true.
InitEngine ==
    /\ Main("init", "start")
    /\ engine' = "initiated"
    /\ UNCHANGED <<leftFrom, stopped, strand, attached, signalVars, fate, serverVars>>

\* DoRun: Engine::Start posts a closure and answers true.
StartEngine ==
    /\ Main("start", "arm")
    /\ strand' = Append(strand, "start")
    /\ UNCHANGED <<leftFrom, engine, stopped, attached, signalVars, fate, serverVars>>

\* DoRun: the signal_set, and one async_wait.
Arm ==
    /\ Main("arm", "WaitAll")
    /\ signals' = "armed"
    /\ UNCHANGED <<leftFrom, engineVars, attached, handler, signalled, fate, serverVars>>

\* A bug: an operation counts once it has begun.
NoOperationsBegun == ~busy

\* The number of operations that have been created and not deleted is zero.
NoOperations == strand = <<>> /\ ~busy

\* WaitAll returns once it sees zero.
WaitAll ==
    /\ Main("WaitAll", "disarm")
    /\ NoOperations
    /\ leftFrom' = phase
    /\ UNCHANGED <<engineVars, attached, signalVars, fate, serverVars>>

\* DoRun returns, and the signal_set's destructor cancels its async_wait; a
\* handler that is already queued stays queued.
Disarm ==
    /\ Main("disarm", "reset")
    /\ signals' = "destroyed"
    /\ UNCHANGED <<leftFrom, engineVars, attached, handler, signalled, fate, serverVars>>

\* DeInit: the engine with its server and its strand is destroyed.
ResetEngine ==
    /\ Main("reset", "detach")
    /\ engine' = "destroyed"
    /\ stopped' = TRUE
    /\ UNCHANGED <<leftFrom, strand, attached, signalVars, fate, serverVars>>

\* DeInit: the accessors are detached.
Detach ==
    /\ Main("detach", "pools")
    /\ attached' = {}
    /\ UNCHANGED <<leftFrom, engineVars, signalVars, fate, serverVars>>

\* DeInit: the pools finish what their threads are executing, and no more.
DestroyPools ==
    /\ Main("pools", "returned")
    /\ handler # "stopping"
    /\ UNCHANGED <<leftFrom, engineVars, attached, signalVars, fate, serverVars>>

-----------------------------------------------------------------------------
(* The signal and its handler. *)

\* SIGINT or SIGTERM.  The set's one async_wait completes for the first; those
\* that follow wait in the set; and where there is no set the process ends.
Signal ==
    /\ Alive
    /\ main # "returned"
    /\ CASE signals = "armed" ->
              /\ signals' = "fired"
              /\ handler' = "queued"
              /\ signalled' = TRUE
              /\ UNCHANGED fate
         [] signals = "fired" -> UNCHANGED <<signalVars, fate>>
         [] OTHER -> fate' = "killed" /\ UNCHANGED signalVars
    /\ UNCHANGED <<main, leftFrom, engineVars, attached, serverVars>>

\* A bug: the handler waits for the next signal.
HandlerDoneRearms ==
    /\ handler' = "done"
    /\ signals' = IF signals = "fired" THEN "armed" ELSE signals

\* The handler has returned.
HandlerDone ==
    /\ handler' = "done"
    /\ UNCHANGED signals

\* The handler calls Engine::Stop, which does nothing the second time.
CallStop ==
    /\ PoolRuns
    /\ handler = "queued"
    /\ CASE engine = "destroyed" ->
              fate' = "crashed" /\ UNCHANGED <<stopped, signals, handler>>
         [] engine # "destroyed" /\ stopped ->
              HandlerDone /\ UNCHANGED <<stopped, fate>>
         [] OTHER ->
              /\ stopped' = TRUE
              /\ handler' = "stopping"
              /\ UNCHANGED <<signals, fate>>
    /\ UNCHANGED <<main, leftFrom, engine, strand, attached, signalled, serverVars>>

\* The rest of Engine::Stop: the closure is posted to the engine's strand.
PostStop ==
    /\ PoolRuns
    /\ handler = "stopping"
    /\ IF engine = "destroyed"
       THEN fate' = "crashed" /\ UNCHANGED <<strand, signals, handler>>
       ELSE /\ strand' = Append(strand, "stop")
            /\ HandlerDone
            /\ UNCHANGED fate
    /\ UNCHANGED <<main, leftFrom, engine, stopped, attached, signalled, serverVars>>

-----------------------------------------------------------------------------
(* The engine's strand. *)

\* The next closure; it refers to the engine.
Runs(closure) ==
    /\ PoolRuns
    /\ strand # <<>>
    /\ Head(strand) = closure
    /\ engine # "destroyed"
    /\ strand' = Tail(strand)

\* Engine::Start's closure: make the server, subscribe, TcpServer::Start, which
\* is not reached when the address is none: the exception ends the closure.
StartServer ==
    /\ Runs("start")
    /\ Server!Starts \/ UNCHANGED serverVars
    /\ UNCHANGED <<main, leftFrom, engine, stopped, attached, signalVars, fate>>

\* Engine::Stop's closure: TcpServer::Stop.
StopServer ==
    /\ Runs("stop")
    /\ Server!CallStop
    /\ UNCHANGED <<main, leftFrom, engine, stopped, attached, signalVars, fate>>

\* A closure, or an operation of the server, whose engine was destroyed.
UseDestroyed ==
    /\ PoolRuns
    /\ engine = "destroyed"
    /\ ~NoOperations
    /\ fate' = "crashed"
    /\ UNCHANGED <<main, leftFrom, engineVars, attached, signalVars, serverVars>>

\* The server and its clients.
Serve ==
    /\ PoolRuns
    /\ engine # "destroyed"
    /\ \/ Server!Listens \/ Server!Serves \/ Server!Refuses
       \/ Server!Settles \/ Server!Stops
    /\ UNCHANGED <<main, leftFrom, engineVars, attached, signalVars, fate>>

-----------------------------------------------------------------------------

MainStep ==
    \/ Run \/ Attach \/ MakeEngine \/ InitEngine \/ StartEngine \/ Arm
    \/ WaitAll \/ Disarm \/ ResetEngine \/ Detach \/ DestroyPools

PoolStep == CallStop \/ PostStop \/ StartServer \/ StopServer

Next == MainStep \/ Signal \/ PoolStep \/ Serve \/ UseDestroyed

\* The main thread runs and WaitAll goes on looking; the pool runs what is
\* queued; the server's operations end as LifeFairness says.  Signals are free.
Fairness ==
    /\ WF_vars(MainStep)
    /\ WF_vars(CallStop \/ PostStop)
    /\ WF_vars(StartServer \/ StopServer)
    /\ WF_vars(Serve /\ Server!Listens)
    /\ WF_vars(Serve /\ Server!Stops)
    /\ WF_vars(Serve /\ phase # "deaf" /\ Server!Settles)

Spec == Init /\ [][Next]_vars

FairSpec == Spec /\ Fairness

-----------------------------------------------------------------------------
(* Properties. *)

\* Every variable of the launcher, the engine and the server has its type.
TypeOK ==
    /\ main \in MainSteps
    /\ engine \in {"null", "made", "initiated", "destroyed"}
    /\ stopped \in BOOLEAN
    /\ strand \in Seq({"start", "stop"})
    /\ attached \in SUBSET Accessors
    /\ signals \in {"none", "armed", "fired", "destroyed"}
    /\ handler \in {"none", "queued", "stopping", "done"}
    /\ signalled \in BOOLEAN
    /\ leftFrom \in Server!Phases \cup {"none"}
    /\ fate \in {"alive", "killed", "crashed"}
    /\ phase \in Server!Phases
    /\ busy \in BOOLEAN
    /\ room \in BOOLEAN
    /\ made \in BOOLEAN
    /\ stops \in 0 .. 1

\* The phases of an engine that never got to serve, or that lost its accept
\* loop to a refusal.
Failed == {"new", "broken", "deaf"}

\* The main thread leaves DoRun under no server that starts or serves, although
\* Start only posts a closure and WaitAll knows of the server only by its
\* operations: when WaitAll returns, the server has been stopped by a signal,
\* has failed to start, or is deaf, and without a signal nothing starts any
\* more.
LeavesLast ==
    /\ leftFrom \in {"none", "stopped"} \cup Failed
    /\ leftFrom # "none" /\ ~signalled => NoOperations /\ leftFrom \in Failed

\* The handler of the signal, the closure it posts and the server's operations
\* are over before DeInit destroys the engine they use, and Stop finds the
\* Acceptor: a crash takes a signal, and a server that had failed to start or
\* had lost its accept loop to a refusal.
EngineOutlivesItsUsers ==
    /\ fate = "crashed" => signalled /\ leftFrom \in Failed
    /\ phase = "crashed" => signalled /\ leftFrom \in {"none", "broken"}
    /\ engine = "destroyed" /\ leftFrom \notin Failed =>
          NoOperations /\ handler \in {"none", "done"}

\* A signal that finds the set armed ends the process, if by a crash: Stop
\* reaches a server that still starts, that serves, or that is deaf with
\* clients left, and all its operations end.
SignalEnds == signalled ~> (main = "returned" \/ ~Alive)

=============================================================================
