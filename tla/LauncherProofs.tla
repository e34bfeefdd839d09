---------------------------- MODULE LauncherProofs ----------------------------
(***************************************************************************)
(* Proofs about the engine's launcher: what the main thread leaves behind  *)
(* when WaitAll returns, and who may still use the engine it destroys.     *)
(***************************************************************************)
EXTENDS Launcher, SequenceTheorems, TLAPS

-----------------------------------------------------------------------------
(* The inductive invariant. *)

\* Where the main thread is determines the engine, ...
EngineInv ==
    /\ main \in {"run", "attach", "engine"} => engine = "null"
    /\ main = "init" => engine = "made"
    /\ main \in {"start", "arm", "WaitAll", "disarm", "reset"} => engine = "initiated"
    /\ main \in {"detach", "pools"} => engine = "destroyed"
    /\ engine # "destroyed" => (stopped <=> handler \in {"stopping", "done"})

\* ... the signal_set, ...
SignalInv ==
    /\ main \in {"run", "attach", "engine", "init", "start", "arm"} => signals = "none"
    /\ main \in {"WaitAll", "disarm"} => signals \in {"armed", "fired"}
    /\ main \in {"reset", "detach", "pools"} => signals = "destroyed"
    /\ signals \in {"none", "armed"} => handler = "none"
    /\ signals = "fired" => handler # "none"
    /\ signalled <=> handler # "none"

\* ... and whether WaitAll has returned.
LeftInv ==
    /\ main \in {"run", "attach", "engine", "init", "start", "arm", "WaitAll"} => leftFrom = "none"
    /\ main \in {"disarm", "reset", "detach", "pools"} => leftFrom # "none"
    /\ engine = "destroyed" => leftFrom # "none"

\* The closures of the engine: Start's once, then Stop's once, each on the
\* strand or already run.
StrandInv ==
    /\ strand \in {<<>>, <<"start">>, <<"stop">>, <<"start", "stop">>}
    /\ main \in {"run", "attach", "engine", "init", "start"} => strand = <<>>
    /\ main \in {"run", "attach", "engine", "init", "start"}
       \/ strand \in {<<"start">>, <<"start", "stop">>} =>
          phase = "new" /\ ~busy /\ ~made /\ stops = 0
    /\ handler # "done" => strand \in {<<>>, <<"start">>}
    /\ handler # "done" \/ strand # <<>> => stops = 0 /\ phase \notin {"stopped", "crashed"}

\* The server has an operation while it starts or serves and while a call of
\* Stop is pending, and comes to rest for good after Stop.
ServerInv ==
    /\ phase \in {"starting", "serving"} => busy
    /\ stops > 0 => busy
    /\ phase \in {"new", "starting", "broken"} => ~made
    /\ phase \in {"stopped", "crashed"} => stops = 0
    /\ phase = "new" /\ handler # "done" => ~busy

\* What becomes of the server that WaitAll left.
LegacyInv ==
    /\ leftFrom = "new" => phase = "new" /\ strand \in {<<>>, <<"stop">>}
    /\ leftFrom = "broken" => phase \in {"broken", "crashed"}
    /\ leftFrom = "deaf" => phase \in {"deaf", "stopped"}
    /\ leftFrom = "stopped" => phase = "stopped" /\ handler = "done" /\ NoOperations

Agreement == EngineInv /\ SignalInv /\ LeftInv /\ StrandInv /\ ServerInv

LauncherInv == TypeOK /\ Agreement /\ LegacyInv /\ LeavesLast /\ EngineOutlivesItsUsers

-----------------------------------------------------------------------------
(* Lemmas. *)

\* Posting the two closures makes the strand longer, ...
LEMMA Posted ==
    /\ Append(<<>>, "start") = <<"start">>
    /\ Append(<<>>, "stop") = <<"stop">>
    /\ Append(<<"start">>, "stop") = <<"start", "stop">>
<1>1. Append(<<>>, "start") = <<"start">> /\ Append(<<>>, "stop") = <<"stop">>
  OBVIOUS
<1>2. Append(<<"start">>, "stop") = <<"start", "stop">>
  <2>1. <<"start">> \in Seq({"start", "stop"}) /\ <<"start", "stop">> \in Seq({"start", "stop"})
    OBVIOUS
  <2>2. /\ Append(<<"start">>, "stop") \in Seq({"start", "stop"})
        /\ Len(Append(<<"start">>, "stop")) = 2
        /\ Append(<<"start">>, "stop")[1] = "start"
        /\ Append(<<"start">>, "stop")[2] = "stop"
    BY <2>1
  <2>3. Len(<<"start", "stop">>) = 2 /\ <<"start", "stop">>[1] = "start" /\ <<"start", "stop">>[2] = "stop"
    OBVIOUS
  <2> DEFINE l == Append(<<"start">>, "stop")
             r == <<"start", "stop">>
  <2>4. l \in Seq({"start", "stop"}) /\ r \in Seq({"start", "stop"}) /\ Len(l) = Len(r)
        /\ \A i \in 1 .. Len(l) : l[i] = r[i]
    BY <2>1, <2>2, <2>3
  <2> HIDE DEF l, r
  <2>5. l = r
    BY <2>4, SeqEqual
  <2> QED
    BY <2>5 DEF l, r
<1> QED
  BY <1>1, <1>2

\* ... and running the first makes it shorter.
LEMMA Taken ==
    /\ Head(<<"start">>) = "start" /\ Tail(<<"start">>) = <<>>
    /\ Head(<<"stop">>) = "stop" /\ Tail(<<"stop">>) = <<>>
    /\ Head(<<"start", "stop">>) = "start" /\ Tail(<<"start", "stop">>) = <<"stop">>
<1>1. Head(<<"start">>) = "start" /\ Head(<<"stop">>) = "stop" /\ Head(<<"start", "stop">>) = "start"
  OBVIOUS
<1>2. Tail(<<"start">>) = <<>> /\ Tail(<<"stop">>) = <<>>
  OBVIOUS
<1>3. Tail(<<"start", "stop">>) = <<"stop">>
  OBVIOUS
<1> QED
  BY <1>1, <1>2, <1>3

\* All these are sequences of closures.
LEMMA StrandType ==
    {<<>>, <<"start">>, <<"stop">>, <<"start", "stop">>} \subseteq Seq({"start", "stop"})
  OBVIOUS

\* What is left to do is a Boolean.
LEMMA LeftToDo ==
    ASSUME NEW p, NEW b, b \in {p > 0, TRUE}
    PROVE  b \in BOOLEAN /\ (p > 0 => b)
<1>1. (p > 0) \in BOOLEAN
  OBVIOUS
<1> QED
  BY <1>1, Zenon

\* Every step of the main thread, the signal, its handler, the strand and the
\* server preserves the invariant.
LEMMA Step == LauncherInv /\ [Next]_vars => LauncherInv'
<1> SUFFICES ASSUME TypeOK, Agreement, LegacyInv, LeavesLast, EngineOutlivesItsUsers, [Next]_vars
             PROVE  LauncherInv'
  BY DEF LauncherInv
<1> USE DEF Alive, engineVars, signalVars, serverVars
<1> DEFINE After == LegacyInv /\ LeavesLast /\ EngineOutlivesItsUsers
<1>1. CASE Run
  <2>1. TypeOK'
    BY <1>1, StrandType DEF TypeOK, Agreement, StrandInv, MainSteps, Accessors, Server!Phases,
       Run, Main
  <2>2. Agreement'
    BY <1>1 DEF TypeOK, NoOperations, MainSteps, Agreement, EngineInv, SignalInv, LeftInv,
       StrandInv, ServerInv, Run, Main
  <2>3. After'
    BY <1>1 DEF LegacyInv, LeavesLast, EngineOutlivesItsUsers, TypeOK, MainSteps, Server!Phases,
       Failed, NoOperations, Agreement, EngineInv, SignalInv, LeftInv, StrandInv, ServerInv, Run,
       Main
  <2> QED
    BY <2>1, <2>2, <2>3 DEF LauncherInv
<1>2. CASE Attach
  <2>1. TypeOK'
    BY <1>2, StrandType DEF TypeOK, Agreement, StrandInv, MainSteps, Accessors, Server!Phases,
       Attach, Main
  <2>2. Agreement'
    BY <1>2 DEF TypeOK, NoOperations, MainSteps, Agreement, EngineInv, SignalInv, LeftInv,
       StrandInv, ServerInv, Attach, Main
  <2>3. After'
    BY <1>2 DEF LegacyInv, LeavesLast, EngineOutlivesItsUsers, TypeOK, MainSteps, Server!Phases,
       Failed, NoOperations, Agreement, EngineInv, SignalInv, LeftInv, StrandInv, ServerInv,
       Attach, Main
  <2> QED
    BY <2>1, <2>2, <2>3 DEF LauncherInv
<1>3. CASE MakeEngine
  <2>1. TypeOK'
    BY <1>3, StrandType DEF TypeOK, Agreement, StrandInv, MainSteps, Accessors, Server!Phases,
       MakeEngine, Main
  <2>2. Agreement'
    BY <1>3 DEF TypeOK, NoOperations, MainSteps, Agreement, EngineInv, SignalInv, LeftInv,
       StrandInv, ServerInv, MakeEngine, Main
  <2>3. After'
    BY <1>3 DEF LegacyInv, LeavesLast, EngineOutlivesItsUsers, TypeOK, MainSteps, Server!Phases,
       Failed, NoOperations, Agreement, EngineInv, SignalInv, LeftInv, StrandInv, ServerInv,
       MakeEngine, Main
  <2> QED
    BY <2>1, <2>2, <2>3 DEF LauncherInv
<1>4. CASE InitEngine
  <2>1. TypeOK'
    BY <1>4, StrandType DEF TypeOK, Agreement, StrandInv, MainSteps, Accessors, Server!Phases,
       InitEngine, Main
  <2>2. Agreement'
    BY <1>4 DEF TypeOK, NoOperations, MainSteps, Agreement, EngineInv, SignalInv, LeftInv,
       StrandInv, ServerInv, InitEngine, Main
  <2>3. After'
    BY <1>4 DEF LegacyInv, LeavesLast, EngineOutlivesItsUsers, TypeOK, MainSteps, Server!Phases,
       Failed, NoOperations, Agreement, EngineInv, SignalInv, LeftInv, StrandInv, ServerInv,
       InitEngine, Main
  <2> QED
    BY <2>1, <2>2, <2>3 DEF LauncherInv
<1>5. CASE StartEngine
  <2>1. TypeOK'
    BY <1>5, Posted, StrandType DEF TypeOK, Agreement, StrandInv, MainSteps, Accessors,
       Server!Phases, StartEngine, Main
  <2>2. Agreement'
    BY <1>5, Posted DEF TypeOK, NoOperations, MainSteps, Agreement, EngineInv, SignalInv,
       LeftInv, StrandInv, ServerInv, StartEngine, Main
  <2>3. After'
    BY <1>5, Posted DEF LegacyInv, LeavesLast, EngineOutlivesItsUsers, TypeOK, MainSteps,
       Server!Phases, Failed, NoOperations, Agreement, EngineInv, SignalInv, LeftInv, StrandInv,
       ServerInv, StartEngine, Main
  <2> QED
    BY <2>1, <2>2, <2>3 DEF LauncherInv
<1>6. CASE Arm
  <2>1. TypeOK'
    BY <1>6, StrandType DEF TypeOK, Agreement, StrandInv, MainSteps, Accessors, Server!Phases,
       Arm, Main
  <2>2. Agreement'
    BY <1>6 DEF TypeOK, NoOperations, MainSteps, Agreement, EngineInv, SignalInv, LeftInv,
       StrandInv, ServerInv, Arm, Main
  <2>3. After'
    BY <1>6 DEF LegacyInv, LeavesLast, EngineOutlivesItsUsers, TypeOK, MainSteps, Server!Phases,
       Failed, NoOperations, Agreement, EngineInv, SignalInv, LeftInv, StrandInv, ServerInv, Arm,
       Main
  <2> QED
    BY <2>1, <2>2, <2>3 DEF LauncherInv
<1>7. CASE WaitAll
  <2>1. TypeOK'
    BY <1>7, StrandType DEF TypeOK, Agreement, StrandInv, MainSteps, Accessors, Server!Phases,
       WaitAll, Main
  <2>2. Agreement'
    BY <1>7 DEF TypeOK, Server!Phases, NoOperations, MainSteps, Agreement, EngineInv, SignalInv,
       LeftInv, StrandInv, ServerInv, WaitAll, Main
  <2>3. After'
    BY <1>7 DEF LegacyInv, LeavesLast, EngineOutlivesItsUsers, TypeOK, MainSteps, Server!Phases,
       Failed, NoOperations, Agreement, EngineInv, SignalInv, LeftInv, StrandInv, ServerInv,
       WaitAll, Main
  <2> QED
    BY <2>1, <2>2, <2>3 DEF LauncherInv
<1>8. CASE Disarm
  <2>1. TypeOK'
    BY <1>8, StrandType DEF TypeOK, Agreement, StrandInv, MainSteps, Accessors, Server!Phases,
       Disarm, Main
  <2>2. Agreement'
    BY <1>8 DEF TypeOK, NoOperations, MainSteps, Agreement, EngineInv, SignalInv, LeftInv,
       StrandInv, ServerInv, Disarm, Main
  <2>3. After'
    BY <1>8 DEF LegacyInv, LeavesLast, EngineOutlivesItsUsers, TypeOK, MainSteps, Server!Phases,
       Failed, NoOperations, Agreement, EngineInv, SignalInv, LeftInv, StrandInv, ServerInv,
       Disarm, Main
  <2> QED
    BY <2>1, <2>2, <2>3 DEF LauncherInv
<1>9. CASE ResetEngine
  <2>1. TypeOK'
    BY <1>9, StrandType DEF TypeOK, Agreement, StrandInv, MainSteps, Accessors, Server!Phases,
       ResetEngine, Main
  <2>2. Agreement'
    BY <1>9 DEF TypeOK, NoOperations, MainSteps, Agreement, EngineInv, SignalInv, LeftInv,
       StrandInv, ServerInv, ResetEngine, Main
  <2>3. After'
    BY <1>9 DEF LegacyInv, LeavesLast, EngineOutlivesItsUsers, TypeOK, MainSteps, Server!Phases,
       Failed, NoOperations, Agreement, EngineInv, SignalInv, LeftInv, StrandInv, ServerInv,
       ResetEngine, Main
  <2> QED
    BY <2>1, <2>2, <2>3 DEF LauncherInv
<1>10. CASE Detach
  <2>1. TypeOK'
    BY <1>10, StrandType DEF TypeOK, Agreement, StrandInv, MainSteps, Accessors, Server!Phases,
       Detach, Main
  <2>2. Agreement'
    BY <1>10 DEF TypeOK, NoOperations, MainSteps, Agreement, EngineInv, SignalInv, LeftInv,
       StrandInv, ServerInv, Detach, Main
  <2>3. After'
    BY <1>10 DEF LegacyInv, LeavesLast, EngineOutlivesItsUsers, TypeOK, MainSteps, Server!Phases,
       Failed, NoOperations, Agreement, EngineInv, SignalInv, LeftInv, StrandInv, ServerInv,
       Detach, Main
  <2> QED
    BY <2>1, <2>2, <2>3 DEF LauncherInv
<1>11. CASE DestroyPools
  <2>1. TypeOK'
    BY <1>11, StrandType DEF TypeOK, Agreement, StrandInv, MainSteps, Accessors, Server!Phases,
       DestroyPools, Main
  <2>2. Agreement'
    BY <1>11 DEF TypeOK, NoOperations, MainSteps, Agreement, EngineInv, SignalInv, LeftInv,
       StrandInv, ServerInv, DestroyPools, Main
  <2>3. After'
    BY <1>11 DEF LegacyInv, LeavesLast, EngineOutlivesItsUsers, TypeOK, MainSteps, Server!Phases,
       Failed, NoOperations, Agreement, EngineInv, SignalInv, LeftInv, StrandInv, ServerInv,
       DestroyPools, Main
  <2> QED
    BY <2>1, <2>2, <2>3 DEF LauncherInv
<1>12. CASE Signal
  <2>0. signalled' \in BOOLEAN
    BY <1>12 DEF TypeOK, Signal
  <2>1. \/ signals = "armed" /\ signals' = "fired" /\ handler' = "queued" /\ signalled' = TRUE
           /\ UNCHANGED fate
        \/ signals = "fired" /\ UNCHANGED <<signalVars, fate>>
        \/ signals \notin {"armed", "fired"} /\ fate' = "killed" /\ UNCHANGED signalVars
    BY <1>12 DEF Signal
  <2>2. TypeOK'
    BY <1>12, <2>0, <2>1, StrandType DEF TypeOK, Agreement, StrandInv, MainSteps, Accessors,
       Server!Phases, Signal
  <2>3. Agreement'
    <3>1. EngineInv'
      BY <1>12, <2>1 DEF TypeOK, Agreement, EngineInv, SignalInv, Signal
    <3>2. SignalInv'
      BY <1>12, <2>1 DEF TypeOK, Agreement, SignalInv, Signal
    <3>3. LeftInv'
      BY <1>12, <2>1 DEF TypeOK, Agreement, LeftInv, Signal
    <3>4. StrandInv'
      BY <1>12, <2>1 DEF TypeOK, Agreement, SignalInv, StrandInv, Signal
    <3>5. ServerInv'
      BY <1>12, <2>1 DEF TypeOK, Agreement, StrandInv, SignalInv, ServerInv, Signal
    <3> QED
      BY <3>1, <3>2, <3>3, <3>4, <3>5 DEF Agreement
  <2>4. After'
    BY <1>12, <2>1 DEF LegacyInv, LeavesLast, EngineOutlivesItsUsers, TypeOK, MainSteps,
       Server!Phases, Failed, NoOperations, Agreement, EngineInv, SignalInv, LeftInv, StrandInv,
       ServerInv, Signal
  <2> QED
    BY <2>2, <2>3, <2>4 DEF LauncherInv
<1>13. CASE CallStop
  <2>0. stopped' \in BOOLEAN
    BY <1>13 DEF TypeOK, CallStop
  <2>1. \/ engine = "destroyed" /\ fate' = "crashed" /\ UNCHANGED <<stopped, signals, handler>>
        \/ engine # "destroyed" /\ ~stopped /\ stopped' = TRUE /\ handler' = "stopping"
           /\ UNCHANGED <<signals, fate>>
    BY <1>13 DEF CallStop, Agreement, EngineInv
  <2>2. TypeOK'
    BY <1>13, <2>0, <2>1, StrandType DEF TypeOK, Agreement, StrandInv, MainSteps, Accessors,
       Server!Phases, CallStop, PoolRuns, HandlerDone
  <2>3. Agreement'
    BY <1>13, <2>1 DEF TypeOK, NoOperations, MainSteps, Agreement, EngineInv, SignalInv, LeftInv,
       StrandInv, ServerInv, CallStop, PoolRuns, HandlerDone
  <2>4. After'
    BY <1>13, <2>1 DEF LegacyInv, LeavesLast, EngineOutlivesItsUsers, TypeOK, MainSteps,
       Server!Phases, Failed, NoOperations, Agreement, EngineInv, SignalInv, LeftInv, StrandInv,
       ServerInv, CallStop, PoolRuns, HandlerDone
  <2> QED
    BY <2>2, <2>3, <2>4 DEF LauncherInv
<1>14. CASE PostStop
  <2>1. \/ engine = "destroyed" /\ UNCHANGED strand
        \/ engine # "destroyed" /\ strand = <<>> /\ strand' = <<"stop">>
        \/ engine # "destroyed" /\ strand = <<"start">> /\ strand' = <<"start", "stop">>
    BY <1>14, Posted DEF PostStop, Agreement, StrandInv
  <2>2. TypeOK'
    BY <1>14, <2>1, StrandType DEF TypeOK, Agreement, StrandInv, MainSteps, Accessors,
       Server!Phases, PostStop, PoolRuns, HandlerDone
  <2>3. Agreement'
    BY <1>14, <2>1 DEF TypeOK, NoOperations, MainSteps, Agreement, EngineInv, SignalInv, LeftInv,
       StrandInv, ServerInv, PostStop, PoolRuns, HandlerDone
  <2>4. After'
    <3>1. LegacyInv'
      BY <1>14, <2>1 DEF LegacyInv, LeavesLast, EngineOutlivesItsUsers, TypeOK, MainSteps,
         Server!Phases, Failed, NoOperations, Agreement, EngineInv, SignalInv, LeftInv,
         StrandInv, ServerInv, PostStop, PoolRuns, HandlerDone
    <3>2. LeavesLast'
      BY <1>14, <2>1 DEF LegacyInv, LeavesLast, EngineOutlivesItsUsers, TypeOK, MainSteps,
         Server!Phases, Failed, NoOperations, Agreement, EngineInv, SignalInv, LeftInv,
         StrandInv, ServerInv, PostStop, PoolRuns, HandlerDone
    <3>3. EngineOutlivesItsUsers'
      BY <1>14, <2>1 DEF LegacyInv, LeavesLast, EngineOutlivesItsUsers, TypeOK, MainSteps,
         Server!Phases, Failed, NoOperations, Agreement, EngineInv, SignalInv, LeftInv,
         StrandInv, ServerInv, PostStop, PoolRuns, HandlerDone
    <3> QED
      BY <3>1, <3>2, <3>3
  <2> QED
    BY <2>2, <2>3, <2>4 DEF LauncherInv
<1>15. CASE StartServer
  <2>0. busy' \in BOOLEAN
    BY <1>15 DEF TypeOK, StartServer, Server!Starts
  <2>1. \/ strand = <<"start">> /\ strand' = <<>>
        \/ strand = <<"start", "stop">> /\ strand' = <<"stop">>
    BY <1>15, Taken DEF StartServer, Runs, Agreement, StrandInv
  <2>2. TypeOK'
    BY <1>15, <2>0, <2>1, StrandType DEF TypeOK, Agreement, StrandInv, MainSteps, Accessors,
       Server!Phases, StartServer, PoolRuns, Runs, Server!Starts
  <2>3. Agreement'
    <3>1. EngineInv'
      BY <1>15, <2>1 DEF TypeOK, Agreement, EngineInv, StartServer, PoolRuns, Server!Starts
    <3>2. SignalInv'
      BY <1>15, <2>1 DEF TypeOK, Agreement, SignalInv, StartServer, PoolRuns, Server!Starts
    <3>3. LeftInv'
      BY <1>15, <2>1 DEF TypeOK, Agreement, LeftInv, StartServer, PoolRuns, Server!Starts
    <3>4. StrandInv'
      BY <1>15, <2>1 DEF TypeOK, Agreement, SignalInv, StrandInv, StartServer, PoolRuns, Server!Starts
    <3>5. ServerInv'
      BY <1>15, <2>1 DEF TypeOK, Agreement, StrandInv, ServerInv, StartServer, PoolRuns, Server!Starts
    <3> QED
      BY <3>1, <3>2, <3>3, <3>4, <3>5 DEF Agreement
  <2>4. After'
    BY <1>15, <2>1 DEF LegacyInv, LeavesLast, EngineOutlivesItsUsers, TypeOK, MainSteps,
       Server!Phases, Failed, NoOperations, Agreement, EngineInv, SignalInv, LeftInv, StrandInv,
       ServerInv, StartServer, PoolRuns, Runs, Server!Starts
  <2> QED
    BY <2>2, <2>3, <2>4 DEF LauncherInv
<1>16. CASE StopServer
  <2>1. strand = <<"stop">> /\ strand' = <<>>
    BY <1>16, Taken DEF StopServer, Runs, Agreement, StrandInv
  <2>2. TypeOK'
    BY <1>16, <2>1, StrandType DEF TypeOK, Agreement, StrandInv, MainSteps, Accessors,
       Server!Phases, StopServer, PoolRuns, Runs, Server!CallStop
  <2>3. Agreement'
    BY <1>16, <2>1 DEF TypeOK, NoOperations, MainSteps, Agreement, EngineInv, SignalInv, LeftInv,
       StrandInv, ServerInv, StopServer, PoolRuns, Runs, Server!CallStop
  <2>4. After'
    BY <1>16, <2>1 DEF LegacyInv, LeavesLast, EngineOutlivesItsUsers, TypeOK, MainSteps,
       Server!Phases, Failed, NoOperations, Agreement, EngineInv, SignalInv, LeftInv, StrandInv,
       ServerInv, StopServer, PoolRuns, Runs, Server!CallStop
  <2> QED
    BY <2>2, <2>3, <2>4 DEF LauncherInv
<1>17. CASE UseDestroyed
  <2>1. TypeOK'
    BY <1>17, StrandType DEF TypeOK, Agreement, StrandInv, MainSteps, Accessors, Server!Phases,
       UseDestroyed, PoolRuns
  <2>2. Agreement'
    BY <1>17 DEF TypeOK, NoOperations, MainSteps, Agreement, EngineInv, SignalInv, LeftInv,
       StrandInv, ServerInv, UseDestroyed, PoolRuns
  <2>3. After'
    BY <1>17 DEF LegacyInv, LeavesLast, EngineOutlivesItsUsers, TypeOK, MainSteps, Server!Phases,
       Failed, NoOperations, Agreement, EngineInv, SignalInv, LeftInv, StrandInv, ServerInv,
       UseDestroyed, PoolRuns
  <2> QED
    BY <2>1, <2>2, <2>3 DEF LauncherInv
<1>18. CASE Serve /\ Server!Listens
  <2>0. /\ busy' \in BOOLEAN /\ made' \in BOOLEAN
        /\ phase' \in {"serving", "broken"}
        /\ phase' = "serving" => busy'
        /\ phase' = "broken" => made' = made
        /\ stops' = stops /\ room' = room /\ (stops > 0 => busy')
    BY <1>18, LeftToDo DEF TypeOK, Server!Listens
  <2>1. TypeOK'
    BY <1>18, <2>0, StrandType DEF TypeOK, Agreement, StrandInv, MainSteps, Accessors,
       Server!Phases, Serve, PoolRuns
  <2>2. Agreement'
    <3>1. EngineInv'
      BY <1>18 DEF TypeOK, Agreement, EngineInv, Serve, PoolRuns, Server!Listens
    <3>2. SignalInv'
      BY <1>18 DEF TypeOK, Agreement, SignalInv, Serve, PoolRuns, Server!Listens
    <3>3. LeftInv'
      BY <1>18 DEF TypeOK, Agreement, LeftInv, Serve, PoolRuns, Server!Listens
    <3>4. StrandInv'
      BY <1>18, <2>0 DEF TypeOK, Agreement, SignalInv, StrandInv, Serve, PoolRuns, Server!Listens
    <3>5. ServerInv'
      BY <1>18, <2>0 DEF TypeOK, Agreement, StrandInv, ServerInv, Serve, PoolRuns, Server!Listens
    <3> QED
      BY <3>1, <3>2, <3>3, <3>4, <3>5 DEF Agreement
  <2>3. After'
    BY <1>18, <2>0 DEF LegacyInv, LeavesLast, EngineOutlivesItsUsers, TypeOK, MainSteps,
       Server!Phases, Server!Listens, Failed, NoOperations, Agreement, EngineInv, SignalInv,
       LeftInv, StrandInv, ServerInv, Serve, PoolRuns
  <2> QED
    BY <2>1, <2>2, <2>3 DEF LauncherInv
<1>19. CASE Serve /\ Server!Serves
  <2>1. TypeOK'
    BY <1>19, StrandType DEF TypeOK, Agreement, StrandInv, MainSteps, Accessors, Server!Phases,
       Serve, PoolRuns, Server!Serves
  <2>2. Agreement'
    BY <1>19 DEF TypeOK, NoOperations, MainSteps, Agreement, EngineInv, SignalInv, LeftInv,
       StrandInv, ServerInv, Serve, PoolRuns, Server!Serves
  <2>3. After'
    BY <1>19 DEF LegacyInv, LeavesLast, EngineOutlivesItsUsers, TypeOK, MainSteps, Server!Phases,
       Failed, NoOperations, Agreement, EngineInv, SignalInv, LeftInv, StrandInv, ServerInv,
       Serve, PoolRuns, Server!Serves
  <2> QED
    BY <2>1, <2>2, <2>3 DEF LauncherInv
<1>20. CASE Serve /\ Server!Refuses
  <2>0. busy' \in BOOLEAN
    BY <1>20, LeftToDo DEF Server!Refuses
  <2>1. TypeOK'
    BY <1>20, <2>0, StrandType DEF TypeOK, Agreement, StrandInv, MainSteps, Accessors,
       Server!Phases, Serve, PoolRuns, Server!Refuses
  <2>2. Agreement'
    BY <1>20 DEF TypeOK, NoOperations, MainSteps, Agreement, EngineInv, SignalInv, LeftInv,
       StrandInv, ServerInv, Serve, PoolRuns, Server!Refuses
  <2>3. After'
    BY <1>20 DEF LegacyInv, LeavesLast, EngineOutlivesItsUsers, TypeOK, MainSteps, Server!Phases,
       Failed, NoOperations, Agreement, EngineInv, SignalInv, LeftInv, StrandInv, ServerInv,
       Serve, PoolRuns, Server!Refuses
  <2> QED
    BY <2>1, <2>2, <2>3 DEF LauncherInv
<1>21. CASE Serve /\ Server!Settles
  <2>0. busy' \in BOOLEAN /\ room' \in BOOLEAN
    BY <1>21 DEF TypeOK, Serve, Server!Settles
  <2>1. TypeOK'
    BY <1>21, <2>0, StrandType DEF TypeOK, Agreement, StrandInv, MainSteps, Accessors,
       Server!Phases, Serve, PoolRuns, Server!Settles, Server!Kept
  <2>2. Agreement'
    BY <1>21 DEF TypeOK, NoOperations, MainSteps, Agreement, EngineInv, SignalInv, LeftInv,
       StrandInv, ServerInv, Serve, PoolRuns, Server!Settles, Server!Kept
  <2>3. After'
    BY <1>21 DEF LegacyInv, LeavesLast, EngineOutlivesItsUsers, TypeOK, MainSteps, Server!Phases,
       Failed, NoOperations, Agreement, EngineInv, SignalInv, LeftInv, StrandInv, ServerInv,
       Serve, PoolRuns, Server!Settles, Server!Kept
  <2> QED
    BY <2>1, <2>2, <2>3 DEF LauncherInv
<1>22. CASE Serve /\ Server!Stops
  <2>0. busy' \in BOOLEAN
    BY <1>22, LeftToDo DEF Server!Stops
  <2>00. phase' = "crashed" => phase = "broken" /\ handler = "done" /\ busy
    BY <1>22 DEF Server!Stops, TypeOK, Agreement, StrandInv, ServerInv
  <2>1. TypeOK'
    BY <1>22, <2>0, StrandType DEF TypeOK, Agreement, StrandInv, MainSteps, Accessors,
       Server!Phases, Serve, PoolRuns, Server!Stops
  <2>2. Agreement'
    BY <1>22 DEF TypeOK, NoOperations, MainSteps, Agreement, EngineInv, SignalInv, LeftInv,
       StrandInv, ServerInv, Serve, PoolRuns, Server!Stops
  <2>3. After'
    <3>1. LegacyInv'
      BY <1>22 DEF LegacyInv, LeavesLast, EngineOutlivesItsUsers, TypeOK, MainSteps,
         Server!Phases, Failed, NoOperations, Agreement, EngineInv, SignalInv, LeftInv,
         StrandInv, ServerInv, Serve, PoolRuns, Server!Stops
    <3>2. LeavesLast'
      BY <1>22 DEF LegacyInv, LeavesLast, EngineOutlivesItsUsers, TypeOK, MainSteps,
         Server!Phases, Failed, NoOperations, Agreement, EngineInv, SignalInv, LeftInv,
         StrandInv, ServerInv, Serve, PoolRuns, Server!Stops
    <3>3. EngineOutlivesItsUsers'
      BY <1>22, <2>00 DEF LegacyInv, LeavesLast, EngineOutlivesItsUsers, TypeOK, Server!Phases,
         Failed, NoOperations, Agreement, SignalInv, LeftInv, Serve, PoolRuns
    <3> QED
      BY <3>1, <3>2, <3>3
  <2> QED
    BY <2>1, <2>2, <2>3 DEF LauncherInv
<1>23. CASE UNCHANGED vars
  BY <1>23 DEF vars, LauncherInv, TypeOK, LegacyInv, LeavesLast, EngineOutlivesItsUsers,
     NoOperations, Agreement, EngineInv, SignalInv, LeftInv, StrandInv, ServerInv
<1> QED
  BY <1>1, <1>2, <1>3, <1>4, <1>5, <1>6, <1>7, <1>8, <1>9, <1>10, <1>11, <1>12, <1>13, <1>14,
     <1>15, <1>16, <1>17, <1>18, <1>19, <1>20, <1>21, <1>22, <1>23 DEF Next, MainStep, PoolStep,
     Serve

\* LauncherInv holds in every reachable state.
THEOREM Invariance == Spec => []LauncherInv
<1>1. Init => LauncherInv
  <2> SUFFICES ASSUME Init PROVE LauncherInv
    OBVIOUS
  <2>1. TypeOK
    <3>1. /\ stopped \in BOOLEAN /\ signalled \in BOOLEAN
          /\ busy \in BOOLEAN /\ room \in BOOLEAN /\ made \in BOOLEAN
      BY DEF Init, Server!LifeInit
    <3> QED
      BY <3>1, StrandType DEF Init, Server!LifeInit, TypeOK, MainSteps, Server!Phases
  <2>2. Agreement
    <3>1. EngineInv /\ LeftInv
      BY DEF Init, EngineInv, LeftInv
    <3>2. SignalInv
      BY DEF Init, SignalInv
    <3>3. StrandInv /\ ServerInv
      BY DEF Init, Server!LifeInit, StrandInv, ServerInv
    <3> QED
      BY <3>1, <3>2, <3>3 DEF Agreement
  <2>3. LegacyInv /\ LeavesLast /\ EngineOutlivesItsUsers
    BY DEF Init, Server!LifeInit, LegacyInv, LeavesLast, EngineOutlivesItsUsers, Failed
  <2> QED
    BY <2>1, <2>2, <2>3 DEF LauncherInv
<1> QED
  BY <1>1, Step, PTL DEF Spec

-----------------------------------------------------------------------------
(* The theorems. *)

\* Every variable keeps its type; in particular Stop of the server is called
\* once at most.
THEOREM TypeCorrectness == Spec => []TypeOK
<1>1. LauncherInv => TypeOK
  BY DEF LauncherInv
<1> QED
  BY <1>1, Invariance, PTL

\* DoRun is left under no server that starts or serves, and without a signal
\* under none that has anything left to do.
THEOREM LeavingSafety == Spec => []LeavesLast
<1>1. LauncherInv => LeavesLast
  BY DEF LauncherInv
<1> QED
  BY <1>1, Invariance, PTL

\* DeInit destroys an engine that nobody uses any more, unless the server had
\* failed to start, or had lost its accept loop to a refusal, and a signal came
\* after all.
THEOREM EngineSafety == Spec => []EngineOutlivesItsUsers
<1>1. LauncherInv => EngineOutlivesItsUsers
  BY DEF LauncherInv
<1> QED
  BY <1>1, Invariance, PTL

=============================================================================
