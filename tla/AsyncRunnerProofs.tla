-------------------------- MODULE AsyncRunnerProofs --------------------------
(***************************************************************************)
(* Proofs that the properties of AsyncRunner hold for every set of         *)
(* runners, threads and schedulers and every bound on the calls of a body. *)
(***************************************************************************)
EXTENDS AsyncRunner, FiniteSetTheorems, TLAPS

-----------------------------------------------------------------------------
(* The inductive invariant. *)

Alive == {r \in Runners : life[r] = "alive"}

\* OneContinuation again, with positions in a queue as natural numbers.
HeldAlive == \A r \in Runners, t \in Threads : Holds(t, r) => r \in Alive

QueuedAlive ==
    \A r \in Runners, s \in Schedulers, i \in Nat : QueuedAt(s, i, r) => r \in Alive

WaitingAlive == \A r \in waiting : r \in Alive

HeldOnce == \A r \in Runners, t, u \in Threads : Holds(t, r) /\ Holds(u, r) => t = u

QueuedOnce ==
    \A r \in Runners, s, q \in Schedulers, i, j \in Nat :
        QueuedAt(s, i, r) /\ QueuedAt(q, j, r) => s = q /\ i = j

QueuedOnly ==
    \A r \in Runners, s \in Schedulers, i \in Nat :
        QueuedAt(s, i, r) => r \notin waiting /\ \A t \in Threads : ~Holds(t, r)

WaitingOnly == \A r \in waiting, t \in Threads : ~Holds(t, r)

NotLost ==
    \A r \in Alive : \/ \E t \in Threads : Holds(t, r)
                     \/ \E s \in Schedulers, i \in Nat : QueuedAt(s, i, r)
                     \/ r \in waiting

Own ==
    /\ HeldAlive /\ QueuedAlive /\ WaitingAlive
    /\ HeldOnce /\ QueuedOnce /\ QueuedOnly /\ WaitingOnly
    /\ NotLost

\* What a thread knows at each of its steps.
ThreadInv ==
    \A t \in Threads :
        /\ pc[t] = "idle" => cur[t] = Null /\ tlsRunner[t] = Null /\ exec[t] = Null
        /\ pc[t] # "idle" => cur[t] \in Runners /\ tlsRunner[t] = cur[t] /\ exec[t] \in Schedulers
        /\ pc[t] = "destroy" => life[cur[t]] = "dying"
        /\ pc[t] \in {"body", "unwind"} => tlsCoro[t] = cur[t] /\ coro[cur[t]] = "running"

\* A runner is deleted by one thread.
OneDestroyer ==
    \A t, u \in Threads :
        pc[t] = "destroy" /\ pc[u] = "destroy" /\ cur[t] = cur[u] => t = u

CountInv == count = Cardinality(Alive)

\* A continuation is posted where the runner's scheduler_ says.
HomeInv ==
    /\ \A r \in Alive : scheduler[r] \in Schedulers
    /\ \A s \in Schedulers, r \in Runners :
          \A i \in Nat : QueuedAt(s, i, r) => scheduler[r] = s

\* Strands execute one handler at a time.
StrandInv ==
    \A t, u \in Threads : exec[t] = exec[u] /\ exec[t] \in Sequential => t = u

\* Nobody touches the status of an operation whose AsyncOpState is not used.
StatusInv == \A r \in Runners \ Cancellable : status[r] = "Normal"

IInv ==
    /\ TypeOK
    /\ ThreadInv
    /\ Own
    /\ OneDestroyer
    /\ CountInv
    /\ HomeInv
    /\ StrandInv
    /\ StatusInv
    /\ RunsInItsContext

-----------------------------------------------------------------------------
(* Lemmas. *)

\* The initial state satisfies the invariant.
LEMMA InitInv == Init => IInv
<1> SUFFICES ASSUME Init PROVE IInv
  OBVIOUS
<1> USE RunnerAssumption
<1>1. TypeOK
  BY DEF Init, TypeOK, Entry, Lives, AsyncOpStatus, DeferHandlers, CoroStates, Steps, Frame, NoFrame
<1>2. Alive = {}
  BY DEF Init, Alive
<1>3. ThreadInv /\ OneDestroyer /\ StrandInv /\ StatusInv /\ RunsInItsContext
  BY DEF Init, ThreadInv, OneDestroyer, StrandInv, StatusInv, RunsInItsContext
<1>4. \A r \in Runners, s \in Schedulers, i \in Nat : ~QueuedAt(s, i, r)
  BY DEF Init, QueuedAt
<1>5. Own
  BY <1>2, <1>4 DEF Init, Own, HeldAlive, QueuedAlive, WaitingAlive, HeldOnce, QueuedOnce,
                          QueuedOnly, WaitingOnly, NotLost, Holds
<1>6. CountInv
  BY <1>2, FS_EmptySet DEF Init, CountInv
<1>7. HomeInv
  BY <1>2, <1>4 DEF HomeInv
<1> QED
  BY <1>1, <1>3, <1>5, <1>6, <1>7 DEF IInv

\* Somebody inside a runner keeps the counter above zero.
LEMMA CountPositive ==
    ASSUME IInv, NEW r \in Alive
    PROVE  /\ IsFiniteSet(Alive)
           /\ count \in Nat
           /\ count > 0
<1>1. IsFiniteSet(Alive)
  BY RunnerAssumption, FS_Subset DEF Alive
<1>2. Cardinality(Alive) \in Nat /\ Cardinality(Alive) # 0
  BY <1>1, FS_CardinalityType, FS_EmptySet
<1> QED
  BY <1>1, <1>2 DEF IInv, CountInv

\* What IInv says of the thread that executes an operation or leaves it.
LEMMA Inside ==
    ASSUME IInv, NEW t \in Threads
    PROVE  /\ pc[t] # "idle" => cur[t] \in Runners /\ tlsRunner[t] = cur[t]
           /\ pc[t] \in {"body", "unwind"} => tlsCoro[t] = cur[t] /\ coro[cur[t]] = "running"
           /\ pc[t] \in {"body", "unwind", "exit", "call", "loop"} =>
                 life[cur[t]] = "alive" /\ scheduler[cur[t]] \in Schedulers
<1>1. ThreadInv /\ Own /\ HomeInv
  BY DEF IInv
<1>2. pc[t] # "idle" => cur[t] \in Runners /\ tlsRunner[t] = cur[t]
  BY <1>1 DEF ThreadInv
<1>3. pc[t] \in {"body", "unwind"} => tlsCoro[t] = cur[t] /\ coro[cur[t]] = "running"
  BY <1>1 DEF ThreadInv
<1>4. pc[t] \in {"body", "unwind", "exit", "call", "loop"} => cur[t] \in Alive
  BY <1>1, <1>2 DEF Own, HeldAlive, Holds
<1> QED
  BY <1>1, <1>2, <1>3, <1>4 DEF HomeInv, Alive

\* The RunAsync of a deferred handler finds some scheduler.
LEMMA OnExitCreates ==
    ASSUME IInv, NEW t \in Threads, OnExitRunAsync(t)
    PROVE  /\ \E r \in Runners, s \in Schedulers : Create(r, s)
           /\ pc[t] \in {"call", "loop", "given"}
           /\ pc'[t] = IF pc[t] = "call" THEN "loop" ELSE pc[t]
           /\ \A u \in Threads \ {t} : pc'[u] = pc[u]
           /\ UNCHANGED <<waiting, main, ops, cur, exec, handler, frame, tlsRunner, tlsCoro>>
<1>1. TypeOK /\ HomeInv
  BY DEF IInv
<1>2. tlsRunner[t] \in Runners
  BY Inside DEF OnExitRunAsync
<1>3. ReadScheduler(tlsRunner[t]) \subseteq Schedulers
  BY <1>1, <1>2 DEF ReadScheduler, HomeInv, Alive
<1> QED
  BY <1>1, <1>3 DEF OnExitRunAsync, TypeOK

-----------------------------------------------------------------------------
(* Type correctness. *)

\* Create's assignments.
LEMMA TypeCreate ==
    ASSUME TypeOK, NEW r \in Runners, NEW s \in Schedulers, Create(r, s)
    PROVE  /\ queue' \in [Schedulers -> Seq(Entry)]
           /\ life' \in [Runners -> Lives]
           /\ scheduler' \in [Runners -> Schedulers \cup {Null}]
           /\ count' \in Nat
BY DEF TypeOK, Create, Entry, Lives

\* Call's assignment.
LEMMA TypeCall ==
    ASSUME TypeOK, NEW t \in Threads, Call(t), tlsRunner[t] \in Runners
    PROVE  ops' \in [Runners -> Nat]
BY DEF TypeOK, Call

\* YieldCoro's assignments.
LEMMA TypeYield ==
    ASSUME TypeOK, NEW t \in Threads, YieldCoro(t), tlsCoro[t] \in Runners
    PROVE  /\ coro' \in [Runners -> CoroStates]
           /\ tlsCoro' \in [Threads -> Runners \cup {Null}]
           /\ frame' \in [Threads -> Frame]
           /\ pc' \in [Threads -> Steps]
BY DEF TypeOK, YieldCoro, CoroStates, Frame, NoFrame, Steps

\* Defer's assignments.
LEMMA TypeDefer ==
    ASSUME TypeOK, NEW t \in Threads, NEW r \in Runners, NEW h \in {"proceed", "io"},
           Defer(t, r, h), tlsCoro[t] \in Runners
    PROVE  /\ coro' \in [Runners -> CoroStates]
           /\ tlsCoro' \in [Threads -> Runners \cup {Null}]
           /\ frame' \in [Threads -> Frame]
           /\ pc' \in [Threads -> Steps]
           /\ defer' \in [Runners -> DeferHandlers]
<1>1. CASE EventPending(r)
  BY <1>1 DEF Defer, TypeOK, Steps
<1>2. CASE ~EventPending(r)
  BY <1>2, TypeYield DEF Defer, TypeOK, DeferHandlers
<1> QED
  BY <1>1, <1>2

\* Schedule's assignment.
LEMMA TypeSchedule ==
    ASSUME TypeOK, NEW r \in Runners, Schedule("Proceed", r), scheduler[r] \in Schedulers
    PROVE  queue' \in [Schedulers -> Seq(Entry)]
<1> DEFINE s == scheduler[r]
           e == [op |-> "Proceed", runner |-> r]
<1>1. e \in Entry
  BY DEF Entry
<1>2. queue \in [Schedulers -> Seq(Entry)] /\ queue' = [queue EXCEPT ![s] = Append(queue[s], e)]
  BY DEF TypeOK, Schedule
<1>3. s \in Schedulers
  OBVIOUS
<1> HIDE DEF s, e
<1> QED
  BY <1>1, <1>2, <1>3

\* Entering a runner from a scheduler's queue preserves types.
LEMMA TypeDispatch ==
    ASSUME TypeOK, NEW t \in Threads, NEW s \in Schedulers, Dispatch(t, s)
    PROVE  TypeOK'
<1>1. Head(queue[s]) \in Entry /\ queue' \in [Schedulers -> Seq(Entry)]
  BY DEF Dispatch, Ready, TypeOK
<1> DEFINE r == Head(queue[s]).runner
<1>2. r \in Runners
  BY <1>1 DEF Entry
<1>3. EnterStart(t, r) \/ EnterResume(t, r)
  BY DEF Dispatch
<1>4. /\ exec' \in [Threads -> Schedulers \cup {Null}]
      /\ cur' \in [Threads -> Runners \cup {Null}]
      /\ tlsRunner' \in [Threads -> Runners \cup {Null}]
  BY <1>2 DEF Dispatch, TypeOK
<1> HIDE DEF r
<1>5. coro' \in [Runners -> CoroStates]
  <2>1. coro' = [coro EXCEPT ![r] = "running"] \/ coro' = coro
    BY <1>3 DEF EnterStart, EnterResume
  <2> QED
    BY <1>2, <2>1 DEF TypeOK, CoroStates
<1>6. tlsCoro' \in [Threads -> Runners \cup {Null}]
  BY <1>2, <1>3 DEF EnterStart, EnterResume, TypeOK
<1>7. frame' \in [Threads -> Frame]
  <2>1. \/ frame' = [frame EXCEPT ![t] = NoFrame]
        \/ frame' = [frame EXCEPT ![t] = [resumed |-> TRUE, old |-> tlsCoro[t]]]
        \/ frame' = frame
    BY <1>3 DEF EnterStart, EnterResume
  <2>2. tlsCoro[t] \in Runners \cup {Null}
    BY DEF TypeOK
  <2>3. NoFrame \in Frame /\ [resumed |-> TRUE, old |-> tlsCoro[t]] \in Frame
    BY <2>2 DEF Frame, NoFrame
  <2> QED
    BY <2>1, <2>3 DEF TypeOK
<1>8. pc' \in [Threads -> Steps]
  BY <1>2, <1>3 DEF EnterStart, EnterResume, TypeOK, Steps
<1> QED
  BY <1>1, <1>4, <1>5, <1>6, <1>7, <1>8 DEF Dispatch, TypeOK

\* What the body of an operation does preserves types.
LEMMA TypeBody ==
    ASSUME IInv, NEW t \in Threads, Body(t) \/ Finish(t)
    PROVE  TypeOK'
<1>1. TypeOK
  BY DEF IInv
<1>2. tlsRunner[t] \in Runners /\ tlsCoro[t] \in Runners /\ cur[t] \in Runners
  BY Inside DEF Body, Finish, RunAsync, SwitchTo, DeferProceed, HandleEvents, DisableEvents,
                EnableEvents, Catch, Yield, Call
<1>3. ASSUME Call(t) PROVE ops' \in [Runners -> Nat]
  BY <1>1, <1>2, <1>3, TypeCall
<1>4. CASE RunAsync(t)
  <2>1. PICK r \in Runners, s \in Schedulers : Create(r, s)
    BY <1>4 DEF RunAsync
  <2> QED
    BY <1>1, <1>3, <1>4, <2>1, TypeCreate DEF RunAsync, Create, TypeOK, threadVars
<1>5. ASSUME NEW dst \in Schedulers, SwitchTo(t, dst) PROVE TypeOK'
  <2>1. CASE dst = scheduler[tlsRunner[t]]
    BY <1>1, <1>3, <1>5, <2>1 DEF SwitchTo, TypeOK
  <2>2. CASE dst # scheduler[tlsRunner[t]]
    <3>1. scheduler' \in [Runners -> Schedulers \cup {Null}]
      BY <1>1, <1>5, <2>2 DEF SwitchTo, TypeOK
    <3>2. Defer(t, tlsRunner[t], "proceed")
      BY <1>5, <2>2 DEF SwitchTo
    <3> QED
      BY <1>1, <1>2, <1>3, <1>5, <3>1, <3>2, TypeDefer DEF SwitchTo, TypeOK
  <2> QED
    BY <2>1, <2>2
<1>6. CASE DeferProceed(t)
  BY <1>1, <1>2, <1>3, <1>6, TypeDefer DEF DeferProceed, TypeOK
<1>7. CASE HandleEvents(t) \/ DisableEvents(t) \/ EnableEvents(t)
  <2>1. ops' \in [Runners -> Nat]
    BY <1>3, <1>7 DEF HandleEvents, DisableEvents, EnableEvents
  <2>2. pc' \in [Threads -> Steps]
    BY <1>1, <1>7 DEF HandleEvents, DisableEvents, EnableEvents, TypeOK, Steps
  <2>3. allowed' \in [Runners -> BOOLEAN]
    BY <1>1, <1>2, <1>7 DEF HandleEvents, DisableEvents, EnableEvents, TypeOK
  <2> QED
    BY <1>1, <1>7, <2>1, <2>2, <2>3 DEF HandleEvents, DisableEvents, EnableEvents, TypeOK
<1>8. CASE Catch(t)
  BY <1>1, <1>8 DEF Catch, TypeOK, Steps, runnerVars
<1>9. CASE Yield(t)
  BY <1>1, <1>2, <1>3, <1>9, TypeYield DEF Yield, TypeOK
<1>10. CASE Finish(t)
  BY <1>1, <1>2, <1>10 DEF Finish, TypeOK, CoroStates, Frame, NoFrame, Steps
<1> QED
  BY <1>4, <1>5, <1>6, <1>7, <1>8, <1>9, <1>10 DEF Body

\* OnExit preserves types.
LEMMA TypeOnExit ==
    ASSUME IInv, NEW t \in Threads, OnExit(t)
    PROVE  TypeOK'
<1>1. TypeOK
  BY DEF IInv
<1>2. cur[t] \in Runners
  BY Inside DEF OnExit, OnExitTake, OnExitRunAsync, OnExitCall, OnExitReturn, OnExitDelete,
                DestroyMembers, OnExitClear
<1>3. CASE OnExitTake(t)
  BY <1>1, <1>2, <1>3 DEF OnExitTake, TypeOK, DeferHandlers, Steps
<1>4. CASE OnExitCall(t)
  <2>1. scheduler[cur[t]] \in Schedulers
    BY <1>4, Inside DEF OnExitCall
  <2>2. queue' \in [Schedulers -> Seq(Entry)] /\ waiting' \in SUBSET Runners
    BY <1>1, <1>2, <1>4, <2>1, TypeSchedule DEF OnExitCall, TypeOK
  <2> QED
    BY <1>1, <1>4, <2>2 DEF OnExitCall, TypeOK, runnerVars, DeferHandlers, Steps
<1>5. CASE OnExitDelete(t)
  <2>1. cur[t] \in Alive
    BY <1>2, <1>5, Inside DEF OnExitDelete, Alive
  <2>2. count' \in Nat
    BY <1>5, <2>1, CountPositive DEF OnExitDelete
  <2> QED
    BY <1>1, <1>2, <1>5, <2>2 DEF OnExitDelete, TypeOK, Lives, Steps
<1>6. CASE DestroyMembers(t)
  BY <1>1, <1>2, <1>6 DEF DestroyMembers, TypeOK, Lives, CoroStates, Steps
<1>7. CASE OnExitClear(t)
  BY <1>1, <1>7 DEF OnExitClear, TypeOK, runnerVars, Steps
<1>8. CASE OnExitRunAsync(t)
  <2>1. PICK r \in Runners, s \in Schedulers : Create(r, s)
    BY <1>8, OnExitCreates
  <2>2. pc' \in [Threads -> Steps]
    BY <1>1, <1>8 DEF OnExitRunAsync, TypeOK, Steps
  <2> QED
    BY <1>1, <1>8, <2>1, <2>2, TypeCreate DEF OnExitRunAsync, Create, TypeOK
<1>9. CASE OnExitReturn(t)
  BY <1>1, <1>9 DEF OnExitReturn, TypeOK, runnerVars, Steps
<1> QED
  BY <1>3, <1>4, <1>5, <1>6, <1>7, <1>8, <1>9 DEF OnExit

\* Types are preserved.
LEMMA TypeStep ==
    ASSUME IInv, [Next]_vars
    PROVE  TypeOK'
<1>1. TypeOK
  BY DEF IInv
<1>2. ASSUME NEW t \in Threads, NEW s \in Schedulers, Dispatch(t, s) PROVE TypeOK'
  BY <1>1, <1>2, TypeDispatch
<1>3. ASSUME NEW t \in Threads, Body(t) \/ Finish(t) \/ OnExit(t) PROVE TypeOK'
  BY <1>3, TypeBody, TypeOnExit
<1>4. ASSUME NEW r \in Runners, IoComplete(r) PROVE TypeOK'
  <2>1. scheduler[r] \in Schedulers
    BY <1>4 DEF IoComplete, IInv, Own, WaitingAlive, HomeInv
  <2>2. queue' \in [Schedulers -> Seq(Entry)]
    BY <1>1, <1>4, <2>1, TypeSchedule DEF IoComplete
  <2> QED
    BY <1>1, <1>4, <2>2 DEF IoComplete, TypeOK, runnerVars, threadVars
<1>5. ASSUME NEW r \in Runners, NEW s \in Schedulers, RunAsyncMain(r, s) PROVE TypeOK'
  BY <1>1, <1>5, TypeCreate DEF RunAsyncMain, Create, TypeOK, threadVars
<1>6. ASSUME NEW r \in Runners, NEW st \in {"Cancelled", "Timedout"}, SetStatus(r, st) PROVE TypeOK'
  BY <1>1, <1>6 DEF SetStatus, TypeOK, AsyncOpStatus, threadVars
<1>7. ASSUME NEW r \in Runners, Reset(r) PROVE TypeOK'
  BY <1>1, <1>7 DEF Reset, TypeOK, AsyncOpStatus, threadVars
<1>8. CASE WaitAllBegin \/ WaitAllReturn
  BY <1>1, <1>8 DEF WaitAllBegin, WaitAllReturn, TypeOK, runnerVars, threadVars
<1>9. CASE UNCHANGED vars
  BY <1>1, <1>9 DEF vars, TypeOK, runnerVars, threadVars
<1> QED
  BY <1>2, <1>3, <1>4, <1>5, <1>6, <1>7, <1>8, <1>9 DEF Next, Environment, Terminated

-----------------------------------------------------------------------------
(* One continuation. *)

\* The parts of IInv that speak of ownership imply OneContinuation.
LEMMA OwnIsOneContinuation == TypeOK /\ Own => OneContinuation
<1> SUFFICES ASSUME TypeOK, Own PROVE OneContinuation
  OBVIOUS
<1>1. \A s \in Schedulers : DOMAIN queue[s] \subseteq Nat
  BY DEF TypeOK
<1>2. \A r \in Runners, s \in Schedulers, i \in Nat :
         QueuedAt(s, i, r) => i \in DOMAIN queue[s] /\ Queued(r)
  BY DEF Queued, QueuedAt
<1>3. \A r \in Runners : Queued(r) => \E s \in Schedulers, i \in Nat : QueuedAt(s, i, r)
  BY <1>1 DEF Queued
<1>4. waiting \subseteq Runners
  BY DEF TypeOK
<1>5. OwnedIsAlive
  BY <1>2, <1>3, <1>4 DEF OwnedIsAlive, Own, HeldAlive, QueuedAlive, WaitingAlive, Alive
<1>6. OneOwner
  <2> SUFFICES ASSUME NEW r \in Runners
               PROVE  /\ \A t, u \in Threads : Holds(t, r) /\ Holds(u, r) => t = u
                      /\ \A s, q \in Schedulers : \A i \in DOMAIN queue[s], j \in DOMAIN queue[q] :
                            QueuedAt(s, i, r) /\ QueuedAt(q, j, r) => s = q /\ i = j
                      /\ Queued(r) => r \notin waiting /\ \A t \in Threads : ~Holds(t, r)
                      /\ r \in waiting => \A t \in Threads : ~Holds(t, r)
    BY DEF OneOwner
  <2>1. \A s, q \in Schedulers : \A i \in DOMAIN queue[s], j \in DOMAIN queue[q] :
           QueuedAt(s, i, r) /\ QueuedAt(q, j, r) => s = q /\ i = j
    BY <1>1 DEF Own, QueuedOnce
  <2>2. Queued(r) => r \notin waiting /\ \A t \in Threads : ~Holds(t, r)
    BY <1>3 DEF Own, QueuedOnly
  <2> QED
    BY <2>1, <2>2 DEF Own, HeldOnce, WaitingOnly
<1>7. NoLostOperation
  BY <1>2 DEF NoLostOperation, Own, NotLost, Alive
<1> QED
  BY <1>5, <1>6, <1>7 DEF OneContinuation

\* What posting a handler of runner r does to the positions of the queues.
LEMMA QueueAppend ==
    ASSUME TypeOK, NEW s \in Schedulers, NEW r \in Runners, NEW op \in {"Start", "Proceed"},
           queue' = [queue EXCEPT ![s] = Append(queue[s], [op |-> op, runner |-> r])]
    PROVE  \E n \in Nat : \A q \in Schedulers, i \in Nat, x \in Runners :
              QueuedAt(q, i, x)' <=> QueuedAt(q, i, x) \/ (q = s /\ i = n /\ x = r)
<1>1. PICK e \in Entry : e = [op |-> op, runner |-> r]
  BY DEF Entry
<1>2. e.runner = r /\ queue' = [queue EXCEPT ![s] = Append(queue[s], e)]
  BY <1>1
<1>3. PICK n \in Nat : n = Len(queue[s]) + 1
  BY DEF TypeOK
<1>4. ASSUME NEW q \in Schedulers, NEW i \in Nat, NEW x \in Runners
      PROVE  QueuedAt(q, i, x)' <=> QueuedAt(q, i, x) \/ (q = s /\ i = n /\ x = r)
  BY <1>2, <1>3 DEF TypeOK, QueuedAt
<1> QED
  BY <1>4

\* What taking the head does to the positions of a queue.
LEMMA QueueTail ==
    ASSUME TypeOK, NEW s \in Schedulers, queue[s] # <<>>,
           queue' = [queue EXCEPT ![s] = Tail(queue[s])]
    PROVE  \A q \in Schedulers, i \in Nat, r \in Runners :
              QueuedAt(q, i, r)' <=> IF q = s THEN i > 0 /\ QueuedAt(s, i + 1, r)
                                              ELSE QueuedAt(q, i, r)
BY DEF TypeOK, QueuedAt

\* A step that leaves queues, proceed handlers, holders and the set of live
\* runners alone.
LEMMA OwnKeep ==
    ASSUME Own, Alive' = Alive, waiting' = waiting, queue' = queue,
           \A r \in Runners, t \in Threads : Holds(t, r)' <=> Holds(t, r)
    PROVE  Own'
<1>1. \A r \in Runners, s \in Schedulers, i \in Nat : QueuedAt(s, i, r)' <=> QueuedAt(s, i, r)
  BY DEF QueuedAt
<1>2. Alive \subseteq Runners
  BY DEF Alive
<1> QED
  BY <1>1, <1>2 DEF Own, HeldAlive, QueuedAlive, WaitingAlive, HeldOnce, QueuedOnce, QueuedOnly,
                    WaitingOnly, NotLost

\* A new runner is owned by the handler posted for it.
LEMMA OwnCreate ==
    ASSUME TypeOK, Own, NEW r \in Runners, NEW s \in Schedulers, Create(r, s),
           waiting' = waiting, \A x \in Runners, u \in Threads : Holds(u, x)' <=> Holds(u, x)
    PROVE  Own'
<1>1. queue' = [queue EXCEPT ![s] = Append(queue[s], [op |-> "Start", runner |-> r])]
  BY DEF Create
<1>3. PICK n \in Nat : \A q \in Schedulers, i \in Nat, x \in Runners :
         QueuedAt(q, i, x)' <=> QueuedAt(q, i, x) \/ (q = s /\ i = n /\ x = r)
  BY <1>1, QueueAppend
<1>4. r \notin Alive /\ Alive' = Alive \cup {r}
  BY DEF Create, Alive, TypeOK
<1>5. \A x \in Runners, t \in Threads : Holds(t, x)' <=> Holds(t, x)
  OBVIOUS
<1>6. waiting \subseteq Runners /\ Alive \subseteq Runners
  BY DEF TypeOK, Alive
<1>7. HeldAlive' /\ HeldOnce' /\ WaitingAlive' /\ WaitingOnly'
  BY <1>4, <1>5, <1>6 DEF Own, HeldAlive, HeldOnce, WaitingAlive, WaitingOnly
<1>8. QueuedAlive'
  BY <1>3, <1>4 DEF Own, QueuedAlive
<1>9. QueuedOnce'
  BY <1>3, <1>4 DEF Own, QueuedAlive, QueuedOnce
<1>10. QueuedOnly'
  BY <1>3, <1>4, <1>5 DEF Own, QueuedOnly, HeldAlive, WaitingAlive
<1>11. NotLost'
  BY <1>3, <1>4, <1>5, <1>6 DEF Own, NotLost
<1> QED
  BY <1>7, <1>8, <1>9, <1>10, <1>11 DEF Own

\* The handler a thread takes is the first of its scheduler's queue.
LEMMA DispatchHead ==
    ASSUME TypeOK, NEW t \in Threads, NEW s \in Schedulers, Dispatch(t, s)
    PROVE  \E r \in Runners : r = Head(queue[s]).runner /\ QueuedAt(s, 1, r)
<1>1. queue[s] \in Seq(Entry) /\ queue[s] # <<>>
  BY DEF Dispatch, Ready, TypeOK
<1>2. 1 \in DOMAIN queue[s] /\ queue[s][1] = Head(queue[s]) /\ Head(queue[s]) \in Entry
  BY <1>1
<1> QED
  BY <1>2 DEF QueuedAt, Entry

\* The thread that takes a handler becomes the owner of its runner.
LEMMA OwnDispatch ==
    ASSUME IInv, NEW t \in Threads, NEW s \in Schedulers, Dispatch(t, s)
    PROVE  Own'
<1>1. TypeOK /\ Own
  BY DEF IInv
<1>2. PICK r \in Runners : r = Head(queue[s]).runner /\ QueuedAt(s, 1, r)
  BY <1>1, DispatchHead
<1>3. \A q \in Schedulers, i \in Nat, x \in Runners :
         QueuedAt(q, i, x)' <=> IF q = s THEN i > 0 /\ QueuedAt(s, i + 1, x) ELSE QueuedAt(q, i, x)
  BY <1>1, QueueTail DEF Dispatch, Ready
<1>4. \A x \in Runners, u \in Threads : Holds(u, x)' <=> Holds(u, x) \/ (u = t /\ x = r)
  <2>1. cur' = [cur EXCEPT ![t] = r] /\ pc[t] = "idle"
    BY <1>2 DEF Dispatch, Ready
  <2>2. /\ pc'[t] \in {"body", "unwind", "exit"}
        /\ \A u \in Threads \ {t} : pc'[u] = pc[u]
    BY <1>1 DEF Dispatch, EnterStart, EnterResume, TypeOK
  <2> QED
    BY <1>1, <2>1, <2>2 DEF Holds, TypeOK
<1>5. Alive' = Alive /\ waiting' = waiting
  BY DEF Dispatch, Alive
<1>6. \A q \in Schedulers, i \in Nat : ~QueuedAt(q, i, r)'
  <2> SUFFICES ASSUME NEW q \in Schedulers, NEW i \in Nat, QueuedAt(q, i, r)' PROVE FALSE
    OBVIOUS
  <2>1. CASE q = s
    <3>1. i > 0 /\ i + 1 \in Nat /\ QueuedAt(s, i + 1, r)
      BY <1>2, <1>3, <2>1
    <3> QED
      BY <1>1, <1>2, <3>1 DEF Own, QueuedOnce
  <2>2. CASE q # s
    BY <1>1, <1>2, <1>3, <2>2 DEF Own, QueuedOnce
  <2> QED
    BY <2>1, <2>2
<1>7. \A q \in Schedulers, i \in Nat, x \in Runners :
         QueuedAt(q, i, x) /\ x # r => \E j \in Nat : QueuedAt(q, j, x)'
  <2> SUFFICES ASSUME NEW i \in Nat, NEW x \in Runners, x # r, QueuedAt(s, i, x)
               PROVE  \E j \in Nat : QueuedAt(s, j, x)'
    BY <1>3
  <2>1. i > 1
    BY <1>1, <1>2 DEF QueuedAt, TypeOK
  <2>2. i - 1 \in Nat /\ i - 1 > 0 /\ (i - 1) + 1 = i
    BY <2>1
  <2> QED
    BY <1>3, <2>2
<1>8. \A q \in Schedulers, i \in Nat, x \in Runners :
         QueuedAt(q, i, x)' => \E j \in Nat : QueuedAt(q, j, x)
  BY <1>3
<1>9. waiting \subseteq Runners /\ Alive \subseteq Runners
  BY <1>1 DEF TypeOK, Alive
<1>10. HeldAlive' /\ QueuedAlive' /\ WaitingAlive'
  BY <1>1, <1>2, <1>4, <1>5, <1>8, <1>9 DEF Own, HeldAlive, QueuedAlive, WaitingAlive
<1>11. HeldOnce' /\ WaitingOnly'
  BY <1>1, <1>2, <1>4, <1>5, <1>9 DEF Own, HeldOnce, WaitingOnly, QueuedOnly
<1>12. QueuedOnce'
  BY <1>1, <1>3 DEF Own, QueuedOnce
<1>13. QueuedOnly'
  <2> SUFFICES ASSUME NEW x \in Runners, NEW q \in Schedulers, NEW i \in Nat, QueuedAt(q, i, x)'
               PROVE  x \notin waiting' /\ \A u \in Threads : ~Holds(u, x)'
    BY DEF QueuedOnly
  <2>1. x # r /\ x \notin waiting /\ \A u \in Threads : ~Holds(u, x)
    BY <1>1, <1>6, <1>8 DEF Own, QueuedOnly
  <2> QED
    BY <1>4, <1>5, <2>1
<1>14. NotLost'
  BY <1>1, <1>4, <1>5, <1>7, <1>9 DEF Own, NotLost
<1> QED
  BY <1>10, <1>11, <1>12, <1>13, <1>14 DEF Own

\* Schedule posts a continuation for a runner that nobody else may touch: it
\* moves from a thread or from the environment to the queue.
LEMMA OwnPost ==
    ASSUME IInv, NEW r \in Alive, Schedule("Proceed", r), Alive' = Alive,
           \/ /\ waiting' = waiting
              /\ \E t \in Threads :
                    /\ Holds(t, r)
                    /\ \A x \in Runners, u \in Threads : Holds(u, x)' <=> Holds(u, x) /\ u # t
           \/ /\ r \in waiting
              /\ waiting' = waiting \ {r}
              /\ \A x \in Runners, u \in Threads : Holds(u, x)' <=> Holds(u, x)
    PROVE  Own'
<1>1. TypeOK /\ Own /\ r \in Runners
  BY DEF IInv, Alive
<1>2. PICK s \in Schedulers : s = scheduler[r]
  BY <1>1 DEF IInv, HomeInv
<1>3. queue' = [queue EXCEPT ![s] = Append(queue[s], [op |-> "Proceed", runner |-> r])]
  BY <1>2 DEF Schedule
<1>4. PICK n \in Nat : \A q \in Schedulers, i \in Nat, x \in Runners :
         QueuedAt(q, i, x)' <=> QueuedAt(q, i, x) \/ (q = s /\ i = n /\ x = r)
  BY <1>1, <1>3, QueueAppend
<1>5. waiting \subseteq Runners /\ Alive \subseteq Runners
  BY <1>1 DEF TypeOK, Alive
<1>6. \A q \in Schedulers, i \in Nat : ~QueuedAt(q, i, r)
  BY <1>1 DEF Own, QueuedOnly
<1>7. /\ r \notin waiting'
      /\ \A u \in Threads : ~Holds(u, r)'
  BY <1>1 DEF Own, HeldOnce, WaitingOnly
<1>8. /\ \A x \in Runners \ {r} : x \in waiting' <=> x \in waiting
      /\ \A x \in Runners \ {r}, u \in Threads : Holds(u, x)' <=> Holds(u, x)
  BY <1>1, <1>5 DEF Holds
<1>9. HeldAlive' /\ HeldOnce'
  BY <1>1, <1>7, <1>8 DEF Own, HeldAlive, HeldOnce
<1>10. waiting' \subseteq waiting
  OBVIOUS
<1>11. WaitingAlive' /\ WaitingOnly'
  BY <1>1, <1>5, <1>7, <1>8, <1>10 DEF Own, WaitingAlive, WaitingOnly
<1>12. QueuedAlive' /\ QueuedOnce'
  BY <1>1, <1>4, <1>6 DEF Own, QueuedAlive, QueuedOnce
<1>13. QueuedOnly'
  BY <1>1, <1>4, <1>7, <1>8, <1>10 DEF Own, QueuedOnly
<1>14. NotLost'
  BY <1>1, <1>2, <1>4, <1>5, <1>8 DEF Own, NotLost
<1> QED
  BY <1>9, <1>11, <1>12, <1>13, <1>14 DEF Own

\* A thread that leaves a runner gives it to the environment or has deleted it.
LEMMA OwnLeave ==
    ASSUME IInv, NEW t \in Threads, NEW r \in Runners, Holds(t, r), queue' = queue,
           \A x \in Runners, u \in Threads : Holds(u, x)' <=> Holds(u, x) /\ u # t,
           \/ Alive' = Alive /\ waiting' = waiting \cup {r}
           \/ Alive' = Alive \ {r} /\ waiting' = waiting
    PROVE  Own'
<1>1. TypeOK /\ Own
  BY DEF IInv
<1>2. \A x \in Runners, s \in Schedulers, i \in Nat : QueuedAt(s, i, x)' <=> QueuedAt(s, i, x)
  BY DEF QueuedAt
<1>3. waiting \subseteq Runners /\ Alive \subseteq Runners /\ r \in Alive
  BY <1>1 DEF TypeOK, Alive, Own, HeldAlive
<1>4. /\ r \notin waiting
      /\ \A s \in Schedulers, i \in Nat : ~QueuedAt(s, i, r)
      /\ \A u \in Threads : ~Holds(u, r)'
  BY <1>1 DEF Own, WaitingOnly, QueuedOnly, HeldOnce
<1>5. \A x \in Runners \ {r}, u \in Threads : Holds(u, x)' <=> Holds(u, x)
  BY <1>1 DEF Holds
<1>6. /\ \A x \in Runners \ {r} : x \in Alive' <=> x \in Alive
      /\ \A x \in Runners \ {r} : x \in waiting' <=> x \in waiting
      /\ r \in waiting' <=> r \in Alive'
      /\ waiting' \subseteq Runners /\ Alive' \subseteq Runners
  BY <1>3, <1>4
<1>7. HeldAlive' /\ HeldOnce'
  BY <1>1, <1>4, <1>5, <1>6 DEF Own, HeldAlive, HeldOnce
<1>8. WaitingAlive' /\ WaitingOnly'
  BY <1>1, <1>4, <1>5, <1>6 DEF Own, WaitingAlive, WaitingOnly
<1>9. QueuedAlive' /\ QueuedOnce' /\ QueuedOnly'
  BY <1>1, <1>2, <1>4, <1>5, <1>6 DEF Own, QueuedAlive, QueuedOnce, QueuedOnly
<1>10. NotLost'
  BY <1>1, <1>2, <1>5, <1>6 DEF Own, NotLost
<1> QED
  BY <1>7, <1>8, <1>9, <1>10 DEF Own

\* What the calls of a body other than RunAsync, and its end, have in common:
\* they touch the thread's own step, its coroutine, and its runner's fields.
LEMMA BodyFrame ==
    ASSUME IInv, NEW t \in Threads, (Body(t) /\ ~RunAsync(t)) \/ Finish(t)
    PROVE  /\ UNCHANGED <<queue, life, waiting, count, cur, exec, tlsRunner, status, main>>
           /\ pc[t] \in {"body", "unwind"}
           /\ pc'[t] \in {"body", "unwind", "exit"}
           /\ \A u \in Threads \ {t} : pc'[u] = pc[u] /\ tlsCoro'[u] = tlsCoro[u]
           /\ \A r \in Runners \ {cur[t]} : coro'[r] = coro[r] /\ scheduler'[r] = scheduler[r]
           /\ pc'[t] # "exit" => coro' = coro /\ tlsCoro' = tlsCoro
           /\ scheduler'[cur[t]] \in Schedulers
           /\ pc'[t] # "exit" /\ ~EventPending(cur[t]) => scheduler' = scheduler
<1>1. TypeOK
  BY DEF IInv
<1>2. /\ pc[t] \in {"body", "unwind"}
      /\ tlsRunner[t] = cur[t] /\ tlsCoro[t] = cur[t] /\ cur[t] \in Runners
      /\ scheduler[cur[t]] \in Schedulers
  BY Inside DEF Body, Finish, RunAsync, SwitchTo, DeferProceed, HandleEvents, DisableEvents,
                EnableEvents, Catch, Yield, Call
<1>3. ASSUME NEW dst \in Schedulers, SwitchTo(t, dst)
      PROVE  /\ UNCHANGED <<queue, life, waiting, count, cur, exec, tlsRunner, status, main>>
             /\ pc'[t] \in {"body", "unwind", "exit"}
             /\ \A u \in Threads \ {t} : pc'[u] = pc[u] /\ tlsCoro'[u] = tlsCoro[u]
             /\ \A r \in Runners \ {cur[t]} : coro'[r] = coro[r] /\ scheduler'[r] = scheduler[r]
             /\ pc'[t] # "exit" => coro' = coro /\ tlsCoro' = tlsCoro
             /\ scheduler'[cur[t]] \in Schedulers
             /\ pc'[t] # "exit" /\ ~EventPending(cur[t]) => scheduler' = scheduler
  BY <1>1, <1>2, <1>3 DEF SwitchTo, Call, Defer, YieldCoro, TypeOK
<1>4. CASE DeferProceed(t) \/ Yield(t)
  BY <1>1, <1>2, <1>4 DEF DeferProceed, Yield, Call, Defer, YieldCoro, TypeOK
<1>5. CASE HandleEvents(t) \/ DisableEvents(t) \/ EnableEvents(t)
  BY <1>1, <1>2, <1>5 DEF HandleEvents, DisableEvents, EnableEvents, TypeOK
<1>6. CASE Catch(t)
  BY <1>1, <1>2, <1>6 DEF Catch, runnerVars, TypeOK
<1>7. CASE Finish(t)
  BY <1>1, <1>2, <1>7 DEF Finish, TypeOK
<1> QED
  BY <1>2, <1>3, <1>4, <1>5, <1>6, <1>7 DEF Body

\* The right to touch a runner is never duplicated, dropped or kept too long.
LEMMA OwnStep ==
    ASSUME IInv, [Next]_vars
    PROVE  Own'
<1>1. TypeOK /\ Own
  BY DEF IInv
<1>2. ASSUME NEW t \in Threads, NEW s \in Schedulers, Dispatch(t, s) PROVE Own'
  BY <1>2, OwnDispatch
<1>3. ASSUME NEW t \in Threads, RunAsync(t) PROVE Own'
  BY <1>1, <1>3, OwnCreate DEF RunAsync, threadVars, Holds
<1>4. ASSUME NEW t \in Threads, (Body(t) /\ ~RunAsync(t)) \/ Finish(t) PROVE Own'
  <2>1. Alive' = Alive /\ waiting' = waiting /\ queue' = queue
    BY <1>4, BodyFrame DEF Alive
  <2>2. \A r \in Runners, u \in Threads : Holds(u, r)' <=> Holds(u, r)
    BY <1>4, BodyFrame DEF Holds
  <2> QED
    BY <1>1, <2>1, <2>2, OwnKeep
<1>5. ASSUME NEW t \in Threads,
             OnExitTake(t) \/ OnExitReturn(t) \/ DestroyMembers(t) \/ OnExitClear(t)
      PROVE  Own'
  <2>1. Alive' = Alive
    BY <1>1, <1>5 DEF OnExitTake, OnExitReturn, DestroyMembers, OnExitClear, Alive, TypeOK,
                      runnerVars, IInv, ThreadInv
  <2>2. \A r \in Runners, u \in Threads : Holds(u, r)' <=> Holds(u, r)
    BY <1>1, <1>5 DEF OnExitTake, OnExitReturn, DestroyMembers, OnExitClear, Holds, TypeOK
  <2>3. waiting' = waiting /\ queue' = queue
    BY <1>5 DEF OnExitTake, OnExitReturn, DestroyMembers, OnExitClear
  <2> QED
    BY <1>1, <2>1, <2>2, <2>3, OwnKeep
<1>6. ASSUME NEW t \in Threads, OnExitCall(t) \/ OnExitDelete(t) PROVE Own'
  <2>1. PICK r \in Runners : r = cur[t]
    BY <1>6, Inside DEF OnExitCall, OnExitDelete
  <2>2. Holds(t, r) /\ r \in Alive
    BY <1>1, <1>6, <2>1 DEF OnExitCall, OnExitDelete, Holds, Own, HeldAlive
  <2>3. \A x \in Runners, u \in Threads : Holds(u, x)' <=> Holds(u, x) /\ u # t
    BY <1>1, <1>6 DEF OnExitCall, OnExitDelete, Holds, TypeOK
  <2>4. CASE OnExitCall(t) /\ handler[t] = "proceed"
    <3>1. Schedule("Proceed", r) /\ waiting' = waiting /\ Alive' = Alive
      BY <2>1, <2>4 DEF OnExitCall, Alive, runnerVars
    <3> QED
      BY <2>2, <2>3, <3>1, OwnPost
  <2>5. CASE OnExitCall(t) /\ handler[t] # "proceed"
    <3>1. queue' = queue /\ waiting' = waiting \cup {r} /\ Alive' = Alive
      BY <2>1, <2>5 DEF OnExitCall, Alive, runnerVars
    <3> QED
      BY <2>2, <2>3, <3>1, OwnLeave
  <2>6. CASE OnExitDelete(t)
    <3>1. queue' = queue /\ waiting' = waiting /\ Alive' = Alive \ {r}
      BY <1>1, <2>1, <2>6 DEF OnExitDelete, Alive, TypeOK
    <3> QED
      BY <2>2, <2>3, <3>1, OwnLeave
  <2> QED
    BY <1>6, <2>4, <2>5, <2>6
<1>7. ASSUME NEW r \in Runners, IoComplete(r) PROVE Own'
  <2>1. r \in Alive
    BY <1>1, <1>7 DEF IoComplete, Own, WaitingAlive
  <2>2. /\ Schedule("Proceed", r)
        /\ Alive' = Alive
        /\ r \in waiting /\ waiting' = waiting \ {r}
        /\ \A x \in Runners, u \in Threads : Holds(u, x)' <=> Holds(u, x)
    BY <1>7 DEF IoComplete, Alive, Holds, runnerVars, threadVars
  <2> QED
    BY <2>1, <2>2, OwnPost
<1>8. ASSUME NEW r \in Runners, NEW s \in Schedulers, RunAsyncMain(r, s) PROVE Own'
  BY <1>1, <1>8, OwnCreate DEF RunAsyncMain, threadVars, Holds
<1>9. ASSUME UNCHANGED <<queue, waiting, life, pc, cur>> PROVE Own'
  <2>1. Alive' = Alive /\ \A r \in Runners, t \in Threads : Holds(t, r)' <=> Holds(t, r)
    BY <1>9 DEF Alive, Holds
  <2> QED
    BY <1>1, <1>9, <2>1, OwnKeep
<1>10. ASSUME NEW r \in Runners, NEW st \in {"Cancelled", "Timedout"}, SetStatus(r, st) PROVE Own'
  BY <1>9, <1>10 DEF SetStatus, threadVars
<1>11. ASSUME NEW r \in Runners, Reset(r) PROVE Own'
  BY <1>9, <1>11 DEF Reset, threadVars
<1>12. CASE WaitAllBegin \/ WaitAllReturn \/ UNCHANGED vars
  BY <1>9, <1>12 DEF WaitAllBegin, WaitAllReturn, vars, runnerVars, threadVars
<1>13. ASSUME NEW t \in Threads, OnExitRunAsync(t) PROVE Own'
  <2>1. \A x \in Runners, u \in Threads : Holds(u, x)' <=> Holds(u, x)
    BY <1>13, OnExitCreates DEF Holds
  <2> QED
    BY <1>1, <1>13, <2>1, OnExitCreates, OwnCreate
<1> QED
  BY <1>2, <1>3, <1>4, <1>5, <1>6, <1>7, <1>8, <1>10, <1>11, <1>12, <1>13
     DEF Next, Environment, Terminated, OnExit

-----------------------------------------------------------------------------
(* Threads. *)

\* Two threads inside operations are inside different runners, and neither is
\* the one a third thread is deleting.
LEMMA Apart ==
    ASSUME IInv, NEW t \in Threads, NEW u \in Threads, t # u,
           pc[t] \in {"body", "unwind", "exit", "call", "loop"},
           pc[u] \in {"body", "unwind", "exit", "call", "loop", "destroy"}
    PROVE  cur[t] # cur[u]
<1>1. cur[t] \in Runners /\ life[cur[t]] = "alive"
  BY Inside
<1>2. pc[u] = "destroy" => life[cur[u]] = "dying"
  BY DEF IInv, ThreadInv
<1> QED
  BY <1>1, <1>2 DEF IInv, Own, HeldOnce, Holds

\* Thread-local pointers, coroutines and steps keep in line.
LEMMA ThreadStep ==
    ASSUME IInv, [Next]_vars
    PROVE  ThreadInv' /\ OneDestroyer'
<1>1. TypeOK /\ ThreadInv /\ OneDestroyer
  BY DEF IInv
<1>2. ASSUME NEW t \in Threads, NEW s \in Schedulers, Dispatch(t, s)
      PROVE  ThreadInv' /\ OneDestroyer'
  <2>1. PICK r \in Runners : r = Head(queue[s]).runner
    BY <1>1, <1>2, DispatchHead
  <2>2. /\ cur' = [cur EXCEPT ![t] = r] /\ tlsRunner' = [tlsRunner EXCEPT ![t] = r]
        /\ exec' = [exec EXCEPT ![t] = s] /\ life' = life
        /\ EnterStart(t, r) \/ EnterResume(t, r)
    BY <1>2, <2>1 DEF Dispatch
  <2>3. /\ pc'[t] \in {"body", "unwind", "exit"}
        /\ pc'[t] # "exit" => tlsCoro'[t] = r /\ coro'[r] = "running"
        /\ \A u \in Threads \ {t} : pc'[u] = pc[u] /\ tlsCoro'[u] = tlsCoro[u]
        /\ \A x \in Runners : coro[x] = "running" => coro'[x] = "running"
    BY <1>1, <2>2 DEF EnterStart, EnterResume, TypeOK
  <2>4. /\ cur'[t] = r /\ tlsRunner'[t] = r /\ exec'[t] = s
        /\ \A u \in Threads \ {t} : cur'[u] = cur[u] /\ tlsRunner'[u] = tlsRunner[u]
                                    /\ exec'[u] = exec[u]
    BY <1>1, <2>2 DEF TypeOK
  <2>5. ThreadInv'
    BY <1>1, <2>2, <2>3, <2>4 DEF ThreadInv
  <2> QED
    BY <1>1, <2>3, <2>4, <2>5 DEF OneDestroyer
<1>3. ASSUME UNCHANGED <<coro, threadVars>>,
             \A r \in Runners : life[r] = "dying" => life'[r] = "dying"
      PROVE  ThreadInv' /\ OneDestroyer'
  BY <1>1, <1>3 DEF ThreadInv, OneDestroyer, threadVars
<1>4. ASSUME NEW r \in Runners, NEW s \in Schedulers, Create(r, s), UNCHANGED threadVars
      PROVE  ThreadInv' /\ OneDestroyer'
  BY <1>1, <1>3, <1>4 DEF Create, TypeOK
<1>5. ASSUME NEW t \in Threads, RunAsync(t) PROVE ThreadInv' /\ OneDestroyer'
  BY <1>4, <1>5 DEF RunAsync
<1>6. ASSUME NEW t \in Threads, (Body(t) /\ ~RunAsync(t)) \/ Finish(t)
      PROVE  ThreadInv' /\ OneDestroyer'
  <2>1. /\ UNCHANGED <<life, cur, exec, tlsRunner>>
        /\ pc[t] \in {"body", "unwind"} /\ pc'[t] \in {"body", "unwind", "exit"}
        /\ \A u \in Threads \ {t} : pc'[u] = pc[u] /\ tlsCoro'[u] = tlsCoro[u]
        /\ \A r \in Runners \ {cur[t]} : coro'[r] = coro[r]
        /\ pc'[t] # "exit" => coro' = coro /\ tlsCoro' = tlsCoro
    BY <1>6, BodyFrame
  <2>2. \A u \in Threads \ {t} : pc[u] \in {"body", "unwind"} => coro'[cur[u]] = "running"
    BY <1>1, <2>1, Apart, Inside
  <2>3. ThreadInv'
    BY <1>1, <2>1, <2>2 DEF ThreadInv
  <2> QED
    BY <1>1, <2>1, <2>3 DEF OneDestroyer
<1>7. ASSUME NEW t \in Threads, OnExitTake(t) \/ OnExitCall(t) \/ OnExitReturn(t)
      PROVE  ThreadInv' /\ OneDestroyer'
  <2>1. /\ UNCHANGED <<life, coro, cur, exec, tlsRunner, tlsCoro>>
        /\ pc[t] \in {"exit", "call", "loop", "given"} /\ pc'[t] \in {"call", "given", "clear"}
        /\ \A u \in Threads \ {t} : pc'[u] = pc[u]
    BY <1>1, <1>7 DEF OnExitTake, OnExitCall, OnExitReturn, TypeOK, runnerVars
  <2> QED
    BY <1>1, <2>1 DEF ThreadInv, OneDestroyer
<1>8. ASSUME NEW t \in Threads, OnExitDelete(t) PROVE ThreadInv' /\ OneDestroyer'
  <2>1. cur[t] \in Runners /\ pc[t] = "exit"
    BY <1>8, Inside DEF OnExitDelete
  <2>2. /\ UNCHANGED <<coro, cur, exec, tlsRunner, tlsCoro>>
        /\ pc'[t] = "destroy"
        /\ \A u \in Threads \ {t} : pc'[u] = pc[u]
        /\ life'[cur[t]] = "dying"
        /\ \A r \in Runners : life[r] = "dying" => life'[r] = "dying"
    BY <1>1, <1>8, <2>1 DEF OnExitDelete, TypeOK
  <2>3. \A u \in Threads \ {t} : pc[u] = "destroy" => cur[u] # cur[t]
    BY <2>1, Apart
  <2>4. ThreadInv'
    BY <1>1, <2>1, <2>2 DEF ThreadInv
  <2> QED
    BY <1>1, <2>2, <2>3, <2>4 DEF OneDestroyer
<1>9. ASSUME NEW t \in Threads, DestroyMembers(t) PROVE ThreadInv' /\ OneDestroyer'
  <2>1. cur[t] \in Runners /\ pc[t] = "destroy"
    BY <1>1, <1>9 DEF DestroyMembers, ThreadInv
  <2>2. /\ UNCHANGED <<cur, exec, tlsRunner>>
        /\ pc'[t] = "clear"
        /\ \A u \in Threads \ {t} : pc'[u] = pc[u] /\ tlsCoro'[u] = tlsCoro[u]
        /\ \A r \in Runners \ {cur[t]} : life'[r] = life[r] /\ coro'[r] = coro[r]
    BY <1>1, <1>9, <2>1 DEF DestroyMembers, TypeOK
  <2>3. \A u \in Threads \ {t} : pc[u] \in {"body", "unwind"} => cur[u] # cur[t]
    BY <2>1, Apart
  <2>4. \A u \in Threads \ {t} : pc[u] = "destroy" => cur[u] # cur[t]
    BY <1>1, <2>1 DEF OneDestroyer
  <2>5. ThreadInv'
    BY <1>1, <2>1, <2>2, <2>3, <2>4 DEF ThreadInv
  <2> QED
    BY <1>1, <2>2, <2>5 DEF OneDestroyer
<1>10. ASSUME NEW t \in Threads, OnExitClear(t) PROVE ThreadInv' /\ OneDestroyer'
  <2>1. /\ UNCHANGED <<life, coro, tlsCoro>>
        /\ pc'[t] = "idle" /\ cur'[t] = Null /\ tlsRunner'[t] = Null /\ exec'[t] = Null
        /\ \A u \in Threads \ {t} : /\ pc'[u] = pc[u] /\ cur'[u] = cur[u]
                                    /\ tlsRunner'[u] = tlsRunner[u] /\ exec'[u] = exec[u]
    BY <1>1, <1>10 DEF OnExitClear, TypeOK, runnerVars
  <2> QED
    BY <1>1, <2>1 DEF ThreadInv, OneDestroyer
<1>11. ASSUME NEW r \in Runners, IoComplete(r) \/ Reset(r) PROVE ThreadInv' /\ OneDestroyer'
  BY <1>3, <1>11 DEF IoComplete, Reset, runnerVars
<1>12. ASSUME NEW r \in Runners, NEW st \in {"Cancelled", "Timedout"}, SetStatus(r, st)
       PROVE  ThreadInv' /\ OneDestroyer'
  BY <1>3, <1>12 DEF SetStatus
<1>13. ASSUME NEW r \in Runners, NEW s \in Schedulers, RunAsyncMain(r, s)
       PROVE  ThreadInv' /\ OneDestroyer'
  BY <1>4, <1>13 DEF RunAsyncMain
<1>14. CASE WaitAllBegin \/ WaitAllReturn \/ UNCHANGED vars
  BY <1>3, <1>14 DEF WaitAllBegin, WaitAllReturn, vars, runnerVars
<1>15. ASSUME NEW t \in Threads, OnExitRunAsync(t) PROVE ThreadInv' /\ OneDestroyer'
  <2>1. PICK r \in Runners, s \in Schedulers : Create(r, s)
    BY <1>15, OnExitCreates
  <2>2. coro' = coro /\ \A x \in Runners : life[x] = "dying" => life'[x] = "dying"
    BY <1>1, <2>1 DEF Create, TypeOK
  <2>3. /\ UNCHANGED <<cur, exec, tlsRunner, tlsCoro>>
        /\ pc[t] \in {"call", "loop", "given"} /\ pc'[t] \in {"loop", "given"}
        /\ \A u \in Threads \ {t} : pc'[u] = pc[u]
    BY <1>15, OnExitCreates
  <2> QED
    BY <1>1, <2>2, <2>3 DEF ThreadInv, OneDestroyer
<1> QED
  BY <1>2, <1>5, <1>6, <1>7, <1>8, <1>9, <1>10, <1>11, <1>12, <1>13, <1>14, <1>15
     DEF Next, Environment, Terminated, OnExit

-----------------------------------------------------------------------------
(* WaitAll. *)

\* The counter is the number of live runners.
LEMMA CountStep ==
    ASSUME IInv, [Next]_vars
    PROVE  CountInv'
<1>1. TypeOK /\ CountInv
  BY DEF IInv
<1>2. IsFiniteSet(Alive)
  BY RunnerAssumption, FS_Subset DEF Alive
<1>3. ASSUME Alive' = Alive, count' = count PROVE CountInv'
  BY <1>1, <1>3 DEF CountInv
<1>4. ASSUME NEW r \in Runners, NEW s \in Schedulers, Create(r, s)
      PROVE  CountInv'
  <2>1. r \notin Alive /\ Alive' = Alive \cup {r} /\ count' = count + 1
    BY <1>1, <1>4 DEF Create, Alive, TypeOK
  <2>2. Cardinality(Alive \cup {r}) = Cardinality(Alive) + 1
    BY <1>2, <2>1, FS_AddElement
  <2> QED
    BY <1>1, <1>4, <2>1, <2>2 DEF CountInv
<1>5. ASSUME NEW t \in Threads, OnExitDelete(t) PROVE CountInv'
  <2>1. PICK r \in Alive : r = cur[t]
    BY <1>5, Inside DEF OnExitDelete, Alive
  <2>2. Alive' = Alive \ {r} /\ count' = count - 1
    BY <1>1, <1>5, <2>1 DEF OnExitDelete, Alive, TypeOK
  <2>3. Cardinality(Alive \ {r}) = Cardinality(Alive) - 1
    BY <1>2, <2>1, FS_RemoveElement
  <2> QED
    BY <1>1, <2>2, <2>3 DEF CountInv
<1>6. ASSUME NEW t \in Threads, RunAsync(t) PROVE CountInv'
  BY <1>4, <1>6 DEF RunAsync
<1>7. ASSUME NEW r \in Runners, NEW s \in Schedulers, RunAsyncMain(r, s)
      PROVE  CountInv'
  BY <1>4, <1>7 DEF RunAsyncMain
<1>8. CASE WaitAllBegin \/ WaitAllReturn
  BY <1>1, <1>8 DEF WaitAllBegin, WaitAllReturn, CountInv, Alive, runnerVars
<1>9. ASSUME NEW t \in Threads, OnExitRunAsync(t) PROVE CountInv'
  BY <1>4, <1>9, OnExitCreates
<1>10. ASSUME NEW t \in Threads, DestroyMembers(t) PROVE CountInv'
  <2>1. Alive' = Alive
    BY <1>1, <1>10 DEF DestroyMembers, Alive, TypeOK, IInv, ThreadInv
  <2> QED
    BY <1>3, <1>10, <2>1 DEF DestroyMembers
<1>11. ASSUME UNCHANGED <<life, count>> PROVE CountInv'
  BY <1>3, <1>11 DEF Alive
<1>12. ASSUME NEW t \in Threads, (Body(t) /\ ~RunAsync(t)) \/ Finish(t) PROVE CountInv'
  BY <1>11, <1>12, BodyFrame
<1>13. ASSUME NEW t \in Threads, NEW s \in Schedulers, Dispatch(t, s) PROVE CountInv'
  BY <1>11, <1>13 DEF Dispatch
<1>14. ASSUME NEW t \in Threads, OnExitTake(t) \/ OnExitCall(t) \/ OnExitReturn(t) \/ OnExitClear(t)
       PROVE  CountInv'
  BY <1>11, <1>14 DEF OnExitTake, OnExitCall, OnExitReturn, OnExitClear, runnerVars
<1>15. ASSUME NEW r \in Runners, IoComplete(r) \/ Reset(r) PROVE CountInv'
  BY <1>11, <1>15 DEF IoComplete, Reset, runnerVars
<1>16. ASSUME NEW r \in Runners, NEW st \in {"Cancelled", "Timedout"}, SetStatus(r, st)
       PROVE  CountInv'
  BY <1>11, <1>16 DEF SetStatus
<1>17. CASE UNCHANGED vars
  BY <1>11, <1>17 DEF vars, runnerVars
<1> QED
  BY <1>5, <1>6, <1>7, <1>8, <1>9, <1>10, <1>12, <1>13, <1>14, <1>15, <1>16, <1>17
     DEF Next, Environment, Terminated, OnExit

-----------------------------------------------------------------------------
(* Execution contexts. *)

\* Continuations are posted to the scheduler their runner names, strands
\* execute one handler at a time, and what nobody cancels runs where its
\* runner says.
LEMMA ContextStep ==
    ASSUME IInv, [Next]_vars
    PROVE  HomeInv' /\ StrandInv' /\ StatusInv' /\ RunsInItsContext'
<1> DEFINE G == HomeInv' /\ StrandInv' /\ StatusInv' /\ RunsInItsContext'
<1>1. TypeOK /\ ThreadInv /\ Own /\ HomeInv /\ StrandInv /\ StatusInv /\ RunsInItsContext
  BY DEF IInv
<1>2. ASSUME NEW t \in Threads, NEW s \in Schedulers, Dispatch(t, s) PROVE G
  <2>1. PICK r \in Runners : r = Head(queue[s]).runner /\ QueuedAt(s, 1, r)
    BY <1>1, <1>2, DispatchHead
  <2>2. \A q \in Schedulers, i \in Nat, x \in Runners :
           QueuedAt(q, i, x)' => \E j \in Nat : QueuedAt(q, j, x)
    <3>1. queue[s] # <<>> /\ queue' = [queue EXCEPT ![s] = Tail(queue[s])]
      BY <1>2 DEF Dispatch, Ready
    <3>2. \A q \in Schedulers, i \in Nat, x \in Runners :
             QueuedAt(q, i, x)' <=> IF q = s THEN i > 0 /\ QueuedAt(s, i + 1, x)
                                             ELSE QueuedAt(q, i, x)
      BY <1>1, <3>1, QueueTail
    <3> QED
      BY <3>2
  <2>3. scheduler[r] = s
    BY <1>1, <2>1 DEF HomeInv
  <2>4. UNCHANGED <<scheduler, status, life>>
    BY <1>2 DEF Dispatch
  <2>5. HomeInv'
    BY <1>1, <2>2, <2>4 DEF HomeInv, Alive
  <2>6. /\ cur'[t] = r /\ exec'[t] = s
        /\ \A u \in Threads \ {t} : cur'[u] = cur[u] /\ exec'[u] = exec[u]
    BY <1>1, <1>2, <2>1 DEF Dispatch, TypeOK
  <2>7. \A u \in Threads \ {t} : pc'[u] = pc[u]
    BY <1>1, <1>2 DEF Dispatch, EnterStart, EnterResume, TypeOK
  <2>8. StrandInv'
    BY <1>1, <1>2, <2>6 DEF Dispatch, Ready, StrandInv
  <2>9. RunsInItsContext'
    BY <1>1, <2>3, <2>4, <2>6, <2>7 DEF RunsInItsContext
  <2> QED
    BY <1>1, <2>4, <2>5, <2>8, <2>9 DEF StatusInv
<1>3. ASSUME UNCHANGED <<queue, life, scheduler, cur, exec, pc>>, StatusInv' PROVE G
  BY <1>1, <1>3 DEF HomeInv, StrandInv, RunsInItsContext, QueuedAt, Alive
<1>4. ASSUME NEW r \in Runners, NEW s \in Schedulers, Create(r, s), UNCHANGED <<cur, exec>>,
             \A u \in Threads : pc'[u] \in {"body", "unwind"} => pc'[u] = pc[u]
      PROVE  G
  <2>1. r \notin Alive /\ Alive' = Alive \cup {r}
    BY <1>1, <1>4 DEF Create, Alive, TypeOK
  <2>2. scheduler'[r] = s /\ \A x \in Runners \ {r} : scheduler'[x] = scheduler[x]
    BY <1>1, <1>4 DEF Create, TypeOK
  <2>3. queue' = [queue EXCEPT ![s] = Append(queue[s], [op |-> "Start", runner |-> r])]
    BY <1>4 DEF Create
  <2>4. PICK n \in Nat : \A q \in Schedulers, i \in Nat, x \in Runners :
           QueuedAt(q, i, x)' <=> QueuedAt(q, i, x) \/ (q = s /\ i = n /\ x = r)
    BY <1>1, <2>3, QueueAppend
  <2>5. \A q \in Schedulers, i \in Nat : ~QueuedAt(q, i, r)
    BY <1>1, <2>1 DEF Own, QueuedAlive
  <2>6. \A x \in Alive' : scheduler'[x] \in Schedulers
    BY <1>1, <2>1, <2>2 DEF HomeInv, Alive
  <2>7. HomeInv'
    BY <1>1, <2>2, <2>4, <2>5, <2>6 DEF HomeInv
  <2>8. \A t \in Threads : pc[t] \in {"body", "unwind"} => cur[t] \in Runners /\ cur[t] # r
    BY <2>1, Inside DEF Alive
  <2>9. RunsInItsContext'
    BY <1>1, <1>4, <2>2, <2>8 DEF RunsInItsContext
  <2> QED
    BY <1>1, <1>4, <2>7, <2>9 DEF Create, StrandInv, StatusInv
<1>5. ASSUME NEW t \in Threads, RunAsync(t) \/ OnExitRunAsync(t) PROVE G
  <2>1. CASE RunAsync(t)
    BY <1>4, <2>1 DEF RunAsync, threadVars
  <2>2. CASE OnExitRunAsync(t)
    BY <1>4, <2>2, OnExitCreates
  <2> QED
    BY <1>5, <2>1, <2>2
<1>6. ASSUME NEW t \in Threads, (Body(t) /\ ~RunAsync(t)) \/ Finish(t) PROVE G
  <2>1. /\ UNCHANGED <<queue, life, cur, exec, status>>
        /\ pc[t] \in {"body", "unwind"} /\ pc'[t] \in {"body", "unwind", "exit"}
        /\ \A u \in Threads \ {t} : pc'[u] = pc[u]
        /\ \A r \in Runners \ {cur[t]} : scheduler'[r] = scheduler[r]
        /\ scheduler'[cur[t]] \in Schedulers
        /\ pc'[t] # "exit" /\ ~EventPending(cur[t]) => scheduler' = scheduler
    BY <1>6, BodyFrame
  <2>2. PICK r \in Runners : r = cur[t] /\ r \in Alive /\ Holds(t, r)
    BY <2>1, Inside DEF Alive, Holds
  <2>3. \A q \in Schedulers, i \in Nat : ~QueuedAt(q, i, r)
    BY <1>1, <2>2 DEF Own, QueuedOnly
  <2>4. HomeInv'
    BY <1>1, <2>1, <2>2, <2>3 DEF HomeInv, Alive, QueuedAt
  <2>5. \A u \in Threads \ {t} : pc[u] \in {"body", "unwind"} => cur[u] \in Runners /\ cur[u] # r
    BY <2>1, <2>2, Apart, Inside
  <2>6. r \notin Cancellable => ~EventPending(r)
    BY <1>1 DEF StatusInv, EventPending
  <2>7. RunsInItsContext'
    BY <1>1, <2>1, <2>2, <2>5, <2>6 DEF RunsInItsContext
  <2> QED
    BY <1>1, <2>1, <2>4, <2>7 DEF StrandInv, StatusInv
<1>7. ASSUME NEW r \in Alive, Schedule("Proceed", r), UNCHANGED <<life, scheduler>> PROVE HomeInv'
  <2>1. PICK s \in Schedulers : s = scheduler[r]
    BY <1>1 DEF HomeInv
  <2>2. r \in Runners
    BY DEF Alive
  <2>3. queue' = [queue EXCEPT ![s] = Append(queue[s], [op |-> "Proceed", runner |-> r])]
    BY <1>7, <2>1 DEF Schedule
  <2>4. PICK n \in Nat : \A q \in Schedulers, i \in Nat, x \in Runners :
           QueuedAt(q, i, x)' <=> QueuedAt(q, i, x) \/ (q = s /\ i = n /\ x = r)
    BY <1>1, <2>2, <2>3, QueueAppend
  <2> QED
    BY <1>1, <1>7, <2>1, <2>4 DEF HomeInv, Alive
<1>8. ASSUME NEW t \in Threads, OnExit(t), ~OnExitRunAsync(t)
      PROVE  StrandInv' /\ StatusInv' /\ RunsInItsContext'
  <2>1. \A u \in Threads : /\ exec'[u] = exec[u] \/ exec'[u] = Null
                           /\ pc'[u] \in {"body", "unwind"} =>
                                 pc[u] = pc'[u] /\ cur'[u] = cur[u] /\ exec'[u] = exec[u]
    BY <1>1, <1>8 DEF OnExit, OnExitTake, OnExitCall, OnExitReturn, OnExitDelete, DestroyMembers, OnExitClear,
                      TypeOK, runnerVars
  <2>2. status' = status
    BY <1>8 DEF OnExit, OnExitTake, OnExitCall, OnExitReturn, OnExitDelete, DestroyMembers, OnExitClear, runnerVars
  <2>3. \A u \in Threads : pc'[u] \in {"body", "unwind"} => scheduler'[cur[u]] = scheduler[cur[u]]
    <3>1. CASE DestroyMembers(t)
      <4>1. cur[t] \in Runners /\ pc[t] = "destroy"
        BY <1>1, <3>1 DEF DestroyMembers, ThreadInv
      <4>2. \A u \in Threads : pc'[u] \in {"body", "unwind"} => cur[u] # cur[t] /\ cur[u] \in Runners
        BY <2>1, <4>1, Apart, Inside
      <4> QED
        BY <1>1, <3>1, <4>1, <4>2 DEF DestroyMembers, TypeOK
    <3>2. CASE scheduler' = scheduler
      BY <3>2
    <3> QED
      BY <1>8, <3>1, <3>2 DEF OnExit, OnExitTake, OnExitCall, OnExitReturn, OnExitDelete, OnExitClear, runnerVars
  <2>4. Null \notin Sequential
    BY RunnerAssumption
  <2> QED
    BY <1>1, <2>1, <2>2, <2>3, <2>4 DEF StrandInv, StatusInv, RunsInItsContext
<1>9. ASSUME NEW t \in Threads, OnExit(t), ~OnExitRunAsync(t) PROVE HomeInv'
  <2>1. CASE OnExitCall(t) /\ handler[t] = "proceed"
    <3>1. PICK r \in Alive : r = cur[t]
      BY <2>1, Inside DEF OnExitCall, Alive
    <3> QED
      BY <1>7, <2>1, <3>1 DEF OnExitCall, runnerVars
  <2>2. ASSUME queue' = queue, Alive' \subseteq Alive,
               \A r \in Alive : scheduler'[r] = scheduler[r]
        PROVE  HomeInv'
    <3>1. \A q \in Schedulers, i \in Nat, x \in Runners : QueuedAt(q, i, x)' <=> QueuedAt(q, i, x)
      BY <2>2 DEF QueuedAt
    <3> QED
      BY <1>1, <2>2, <3>1 DEF HomeInv, Own, QueuedAlive
  <2>3. CASE ~(OnExitCall(t) /\ handler[t] = "proceed")
    <3>1. queue' = queue
      BY <1>9, <2>3 DEF OnExit, OnExitTake, OnExitCall, OnExitReturn, OnExitDelete, DestroyMembers, OnExitClear
    <3>2. Alive' \subseteq Alive
      BY <1>1, <1>9 DEF OnExit, OnExitTake, OnExitCall, OnExitReturn, OnExitDelete, DestroyMembers, OnExitClear,
                        runnerVars, Alive, TypeOK
    <3>3. \A r \in Alive : scheduler'[r] = scheduler[r]
      BY <1>1, <1>9 DEF OnExit, OnExitTake, OnExitCall, OnExitReturn, OnExitDelete, DestroyMembers, OnExitClear,
                        runnerVars, Alive, TypeOK, ThreadInv
    <3> QED
      BY <2>2, <3>1, <3>2, <3>3
  <2> QED
    BY <2>1, <2>3
<1>10. ASSUME NEW r \in Runners, IoComplete(r) PROVE G
  <2>1. r \in Alive
    BY <1>1, <1>10 DEF IoComplete, Own, WaitingAlive
  <2>2. HomeInv'
    BY <1>7, <1>10, <2>1 DEF IoComplete, runnerVars
  <2> QED
    BY <1>1, <1>10, <2>2 DEF IoComplete, StrandInv, StatusInv, RunsInItsContext, runnerVars, threadVars
<1>11. ASSUME NEW r \in Runners, NEW s \in Schedulers, RunAsyncMain(r, s) PROVE G
  BY <1>4, <1>11 DEF RunAsyncMain, threadVars
<1>12. ASSUME NEW r \in Runners, NEW st \in {"Cancelled", "Timedout"}, SetStatus(r, st) PROVE G
  <2>1. StatusInv'
    BY <1>1, <1>12 DEF SetStatus, StatusInv, TypeOK
  <2> QED
    BY <1>3, <1>12, <2>1 DEF SetStatus, threadVars
<1>13. ASSUME NEW r \in Runners, Reset(r) PROVE G
  <2>1. StatusInv'
    BY <1>1, <1>13 DEF Reset, StatusInv, TypeOK
  <2> QED
    BY <1>3, <1>13, <2>1 DEF Reset, threadVars
<1>14. CASE WaitAllBegin \/ WaitAllReturn \/ UNCHANGED vars
  <2>1. UNCHANGED <<queue, life, scheduler, cur, exec, pc, status>>
    BY <1>14 DEF WaitAllBegin, WaitAllReturn, vars, runnerVars, threadVars
  <2>2. StatusInv'
    BY <1>1, <2>1 DEF StatusInv
  <2> QED
    BY <1>3, <2>1, <2>2
<1> QED
  BY <1>2, <1>5, <1>6, <1>8, <1>9, <1>10, <1>11, <1>12, <1>13, <1>14
     DEF Next, Environment, Terminated

-----------------------------------------------------------------------------
(* Theorems. *)

\* IInv is an invariant of the runners, threads and schedulers.
THEOREM Invariance == Spec => []IInv
<1>1. Init => IInv
  BY InitInv
<1>2. IInv /\ [Next]_vars => IInv'
  BY TypeStep, OwnStep, ThreadStep, CountStep, ContextStep DEF IInv
<1> QED
  BY <1>1, <1>2, PTL DEF Spec

\* Type correctness.
THEOREM TypeCorrectness == Spec => []TypeOK
<1>1. IInv => TypeOK
  BY DEF IInv
<1> QED
  BY <1>1, Invariance, PTL

\* Every live runner has exactly one continuation and a deleted one has none,
\* for any number of operations, threads and schedulers: neither OnExit's
\* deferred handler, with the loops of the combinators in it, nor `delete this`
\* loses or duplicates an operation or leaves a way to resume a deleted one.
THEOREM ContinuationSafety == Spec => []OneContinuation
<1>1. IInv => OneContinuation
  BY OwnIsOneContinuation DEF IInv
<1> QED
  BY <1>1, Invariance, PTL

\* The thread-local pointers name the operation whose body executes, and are
\* clear when OnEnter asserts it.
THEOREM ContextSafety == Spec => []ContextIsCurrent
<1>1. IInv => ContextIsCurrent
  BY RunnerAssumption DEF IInv, ThreadInv, ContextIsCurrent, OperationIsCurrent, IdleHasNoRunner
<1> QED
  BY <1>1, Invariance, PTL

\* Without a live runner everything is over.
LEMMA NothingAlive ==
    ASSUME IInv, Alive = {}
    PROVE  AllOver
<1>1. TypeOK /\ Own
  BY DEF IInv
<1>2. \A s \in Schedulers : queue[s] = <<>>
  <2> SUFFICES ASSUME NEW s \in Schedulers, queue[s] # <<>> PROVE FALSE
    OBVIOUS
  <2>1. queue[s] \in Seq(Entry)
    BY <1>1 DEF TypeOK
  <2>2. 1 \in DOMAIN queue[s] /\ queue[s][1] \in Entry
    BY <2>1
  <2>3. queue[s][1].runner \in Runners /\ QueuedAt(s, 1, queue[s][1].runner)
    BY <2>2 DEF Entry, QueuedAt
  <2> QED
    BY <1>1, <2>3 DEF Own, QueuedAlive
<1>3. waiting = {}
  BY <1>1 DEF Own, WaitingAlive
<1>4. \A t \in Threads : pc[t] \notin {"body", "unwind"}
  BY Inside DEF Alive
<1> QED
  BY <1>2, <1>3, <1>4 DEF AllOver, Alive

\* What a step can do when everything is over and nobody submits from outside.
LEMMA OverStep ==
    ASSUME IInv, [Next]_vars, main = "returned", AllOver, \A t \in Threads : pc[t] # "given"
    PROVE  AllOver'
<1>1. TypeOK /\ waiting = {}
  BY DEF IInv, AllOver
<1>2. \A t \in Threads : pc[t] \notin {"body", "unwind", "exit", "call", "loop", "given"}
  BY Inside DEF AllOver
<1>3. ASSUME UNCHANGED <<queue, life, waiting, pc>> PROVE AllOver'
  BY <1>3 DEF AllOver
<1>4. ASSUME NEW t \in Threads, NEW s \in Schedulers, Dispatch(t, s) PROVE FALSE
  BY <1>4 DEF Dispatch, Ready, AllOver
<1>5. ASSUME NEW t \in Threads, Body(t) \/ Finish(t) PROVE FALSE
  BY <1>2, <1>5 DEF Body, Finish, RunAsync, SwitchTo, DeferProceed, HandleEvents, DisableEvents,
                    EnableEvents, Catch, Yield, Call
<1>6. ASSUME NEW t \in Threads, OnExit(t) PROVE AllOver'
  <2>1. DestroyMembers(t) \/ OnExitClear(t)
    BY <1>2, <1>6 DEF OnExit, OnExitTake, OnExitRunAsync, OnExitCall, OnExitReturn, OnExitDelete
  <2>2. /\ UNCHANGED <<queue, waiting>>
        /\ \A r \in Runners : life'[r] # "alive"
        /\ \A u \in Threads : pc'[u] \in {"body", "unwind"} => pc'[u] = pc[u]
    BY <1>1, <2>1 DEF DestroyMembers, OnExitClear, AllOver, TypeOK, runnerVars
  <2> QED
    BY <2>2 DEF AllOver
<1>7. ASSUME NEW r \in Runners, IoComplete(r) PROVE FALSE
  BY <1>1, <1>7 DEF IoComplete
<1>8. ASSUME NEW r \in Runners, NEW st \in {"Cancelled", "Timedout"}, SetStatus(r, st) \/ Reset(r)
      PROVE  AllOver'
  BY <1>3, <1>8 DEF SetStatus, Reset, threadVars
<1>9. CASE UNCHANGED vars
  BY <1>3, <1>9 DEF vars, runnerVars, threadVars
<1> QED
  BY <1>4, <1>5, <1>6, <1>7, <1>8, <1>9
     DEF Next, Environment, Terminated, RunAsyncMain, WaitAllBegin, WaitAllReturn

\* WaitAll never returns while an operation is queued, executing or waiting,
\* and what is submitted afterwards comes from the loop of a combinator.
THEOREM WaitAllSafety == Spec => WaitAllWaits
<1>1. ASSUME IInv, [Next]_vars, main = "blocked", main' = "returned" PROVE AllOver'
  <2>1. WaitAllReturn
    BY <1>1 DEF Next, Environment, Terminated, RunAsync, SwitchTo, DeferProceed, HandleEvents,
                DisableEvents, EnableEvents, Catch, Yield, Finish, Body, Dispatch, OnExit, OnExitTake,
                OnExitRunAsync, OnExitCall, OnExitReturn, OnExitDelete, DestroyMembers, OnExitClear,
                IoComplete, SetStatus, Reset, RunAsyncMain, WaitAllBegin, vars
  <2>2. IsFiniteSet(Alive)
    BY RunnerAssumption, FS_Subset DEF Alive
  <2>3. Alive = {}
    BY <1>1, <2>1, <2>2, FS_EmptySet DEF WaitAllReturn, IInv, CountInv
  <2> QED
    BY <1>1, <2>1, <2>3, NothingAlive DEF WaitAllReturn, AllOver, runnerVars, threadVars
<1>2. IInv /\ [Next]_vars =>
        [/\ main = "blocked" /\ main' = "returned" => AllOver'
         /\ main = "returned" /\ AllOver => AllOver' \/ \E t \in Threads : pc[t] = "given"]_vars
  BY <1>1, OverStep
<1> QED
  BY <1>2, Invariance, PTL DEF Spec, WaitAllWaits

\* An operation that nobody cancels executes in the context of the scheduler
\* its runner names.
THEOREM SchedulerSafety == Spec => []RunsInItsContext
<1>1. IInv => RunsInItsContext
  BY DEF IInv
<1> QED
  BY <1>1, Invariance, PTL

\* On a strand such an operation never meets another one, however often both
\* moved between schedulers.
THEOREM StrandSafety == Spec => []StrandSerializes
<1>1. IInv => StrandSerializes
  BY DEF IInv, RunsInItsContext, StrandInv, StrandSerializes
<1> QED
  BY <1>1, Invariance, PTL

=============================================================================
