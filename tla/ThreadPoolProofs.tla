--------------------------- MODULE ThreadPoolProofs ---------------------------
(***************************************************************************)
(* Theorems about ThreadPool: its type correctness, that the io_service's  *)
(* count of outstanding work is what is posted, what is executed and       *)
(* work_, and that Wait is complete.                                       *)
(***************************************************************************)
EXTENDS ThreadPool, FiniteSetTheorems, SequenceTheorems, TLAPS

\* The workers that execute a handler.
Executing == {w \in Workers : wpc[w] = "exec"}

\* The outstanding work is made of the posted and the executing handlers and
\* of the io_service::work object.
OutstandingInv ==
    outstanding = Len(queue) + Cardinality(Executing) + (IF work THEN 1 ELSE 0)

\* A handler that was posted and has not ended is counted.
HandlerInv ==
    \A h \in Handlers :
        /\ state[h] = "posted" => \E i \in DOMAIN queue : queue[i] = h
        /\ state[h] = "running" => \E w \in Executing : current[w] = h

\* A handler is posted once and executed by one worker.
OnceInv ==
    /\ \A i \in DOMAIN queue : state[queue[i]] = "posted"
    /\ \A i, j \in DOMAIN queue : queue[i] = queue[j] => i = j
    /\ \A w \in Executing : current[w] \in Handlers /\ state[current[w]] = "running"
    /\ \A w, u \in Executing : current[w] = current[u] => w = u

\* Only the pool's threads run, and only after the constructor.
ThreadsInv ==
    /\ \A w \in Workers \ threads : wpc[w] = "created"
    /\ cpc = "constructor" => \A w \in Workers : wpc[w] \in {"created", "barrier"}

\* The mutex is held by whoever is between locking and unlocking it.
MutexInv ==
    /\ \A w \in Workers : wpc[w] \in {"check", "reset"} => mutex = w
    /\ cpc = "stopWait" => mutex = Client

InWait == cpc \in {"stopWait", "sleep", "woken"}

\* The client's step and what it has done so far agree.
ClientInv ==
    /\ stopped => cpc \in {"stop", "join", "gone"}
    /\ InWait \/ cpc = "wait" => waits > 0
    /\ cpc = "stopWait" => ~work /\ outstanding = 0
    /\ \A h \in promised : state[h] # "new"

\* Some worker has left run, or will: the service was stopped, or its work
\* has come to an end.
Leaving(w) == wpc[w] \in {"stopRun", "stopFinish", "lock", "check", "reset"}

Late == svcStopped \/ \E w \in Workers : Leaving(w)

Single == \E w \in Workers : threads = {w}

\* No Wait has reset work_ yet, or there is but one worker to come back.
Fresh == Single \/ waits = 0 \/ (waits = 1 /\ cpc = "wait")

\* Wait finds the workers in run.
FreshInv ==
    /\ cpc \in {"constructor", "idle", "wait"} /\ Fresh => work /\ ~Late
    /\ cpc = "wait" => Fresh

\* Without work_ the workers leave run only when all handlers have ended.
DrainInv == InWait /\ ~work /\ Late => outstanding = 0

\* When Wait finds work_ again, what it waits for has ended.
BackInv == InWait /\ work => \A h \in promised : state[h] = "done"

\* The only worker has reset the service before Wait returns.
SingleInv ==
    Single /\ InWait /\ work =>
        \A w \in threads : wpc[w] = "reset" \/ (~svcStopped /\ wpc[w] \in {"run", "loop", "exec"})

CountInv ==
    TypeOK /\ OutstandingInv /\ HandlerInv /\ OnceInv /\ ThreadsInv /\ MutexInv /\ ClientInv

WaitInv == FreshInv /\ DrainInv /\ BackInv /\ SingleInv

-----------------------------------------------------------------------------
(* The workers that execute, and how many they are. *)

\* They are finitely many.
LEMMA ExecutingCount ==
    /\ IsFiniteSet(Executing)
    /\ Cardinality(Executing) \in Nat
    /\ Executing # {} => Cardinality(Executing) > 0
<1>1. IsFiniteSet(Executing)
  BY PoolAssumption, FS_Subset DEF Executing
<1>2. Cardinality(Executing) \in Nat
  BY <1>1, FS_CardinalityType
<1>3. Executing # {} => Cardinality(Executing) # 0
  BY <1>1, FS_EmptySet
<1> QED
  BY <1>1, <1>2, <1>3

\* A worker that neither takes a handler nor ends one leaves them as they are.
LEMMA OtherStep ==
    ASSUME wpc \in [Workers -> WorkerSteps], NEW w \in Workers, NEW x,
           Goto(w, x), wpc[w] # "exec", x # "exec"
    PROVE  Executing' = Executing
BY DEF Executing, Goto

\* A worker that takes a handler is one more.
LEMMA TakeStep ==
    ASSUME wpc \in [Workers -> WorkerSteps], NEW w \in Workers,
           Goto(w, "exec"), wpc[w] # "exec"
    PROVE  /\ Executing' = Executing \cup {w}
           /\ Cardinality(Executing') = Cardinality(Executing) + 1
<1>1. Executing' = Executing \cup {w} /\ w \notin Executing
  BY DEF Executing, Goto
<1> QED
  BY <1>1, ExecutingCount, FS_AddElement

\* One whose handler ends is one less.
LEMMA EndStep ==
    ASSUME wpc \in [Workers -> WorkerSteps], NEW w \in Workers, NEW x,
           Goto(w, x), wpc[w] = "exec", x # "exec"
    PROVE  /\ Executing' = Executing \ {w}
           /\ Cardinality(Executing') = Cardinality(Executing) - 1
           /\ Cardinality(Executing) > 0
<1>1. Executing' = Executing \ {w} /\ w \in Executing
  BY DEF Executing, Goto
<1> QED
  BY <1>1, ExecutingCount, FS_RemoveElement

-----------------------------------------------------------------------------
(* Type correctness and the count of work: CountInv is inductive. *)

\* It holds initially.
LEMMA InitCount == Init => CountInv
<1> SUFFICES ASSUME Init PROVE CountInv
  OBVIOUS
<1>1. TypeOK
  <2>1. work \in BOOLEAN /\ stopped \in BOOLEAN /\ svcStopped \in BOOLEAN
    BY DEF Init, WorkerSteps, ClientSteps, HandlerStates
  <2>2. mutex \in Workers \cup {Client, Null}
    BY DEF Init, WorkerSteps, ClientSteps, HandlerStates
  <2>3. queue \in Seq(Handlers)
    BY DEF Init, WorkerSteps, ClientSteps, HandlerStates
  <2>4. outstanding \in Nat
    BY DEF Init, WorkerSteps, ClientSteps, HandlerStates
  <2>5. wpc \in [Workers -> WorkerSteps]
    BY DEF Init, WorkerSteps, ClientSteps, HandlerStates
  <2>6. cpc \in ClientSteps
    BY DEF Init, WorkerSteps, ClientSteps, HandlerStates
  <2>7. current \in [Workers -> Handlers \cup {Null}]
    BY DEF Init, WorkerSteps, ClientSteps, HandlerStates
  <2>8. state \in [Handlers -> HandlerStates]
    BY DEF Init, WorkerSteps, ClientSteps, HandlerStates
  <2>9. promised \in SUBSET Handlers /\ threads \in SUBSET Workers /\ waits \in Nat
    BY DEF Init, WorkerSteps, ClientSteps, HandlerStates
  <2> QED
    BY <2>1, <2>2, <2>3, <2>4, <2>5, <2>6, <2>7, <2>8, <2>9 DEF TypeOK
<1>2. OutstandingInv
  <2>1. Executing = {}
    BY DEF Init, Executing
  <2>2. Cardinality(Executing) = 0
    BY <2>1, FS_EmptySet
  <2> QED
    BY <2>2 DEF Init, OutstandingInv
<1>3. HandlerInv /\ OnceInv
  BY DEF Init, HandlerInv, OnceInv, Executing
<1>4. ThreadsInv /\ MutexInv /\ ClientInv
  BY DEF Init, ThreadsInv, MutexInv, ClientInv, InWait
<1> QED
  BY <1>1, <1>2, <1>3, <1>4 DEF CountInv

\* A worker gets to the barrier.
LEMMA ArriveCount ==
    ASSUME CountInv, NEW w \in Workers, Arrive(w)
    PROVE  CountInv'
<1>1. TypeOK'
  BY DEF CountInv, TypeOK, Arrive, Goto, poolVars, serviceVars, clientVars, WorkerSteps, ClientSteps, HandlerStates
<1>2. Executing' = Executing
  BY OtherStep DEF CountInv, TypeOK, Arrive, Goto, poolVars, serviceVars, clientVars, Executing
<1>3. OutstandingInv'
  BY <1>2 DEF CountInv, OutstandingInv, Arrive, Goto, poolVars, serviceVars, clientVars
<1>4. HandlerInv' /\ OnceInv'
  BY <1>2 DEF CountInv, HandlerInv, OnceInv, Arrive, Goto, poolVars, serviceVars, clientVars
<1>5. ThreadsInv'
  BY DEF CountInv, TypeOK, ThreadsInv, Arrive, Goto, poolVars, serviceVars, clientVars
<1>6. MutexInv'
  BY PoolAssumption DEF CountInv, TypeOK, MutexInv, Arrive, Goto, poolVars, serviceVars, clientVars
<1>7. ClientInv'
  BY DEF CountInv, TypeOK, ClientInv, InWait, Arrive, Goto, poolVars, serviceVars, clientVars
<1> QED
  BY <1>1, <1>3, <1>4, <1>5, <1>6, <1>7 DEF CountInv

\* run begins.
LEMMA RunBeginCount ==
    ASSUME CountInv, NEW w \in Workers, RunBegin(w)
    PROVE  CountInv'
<1>1. TypeOK'
  BY DEF CountInv, TypeOK, RunBegin, Goto, poolVars, serviceVars, clientVars, WorkerSteps, ClientSteps, HandlerStates
<1>2. Executing' = Executing
  BY OtherStep DEF CountInv, TypeOK, RunBegin, Goto, poolVars, serviceVars, clientVars, Executing
<1>3. OutstandingInv'
  BY <1>2 DEF CountInv, OutstandingInv, RunBegin, Goto, poolVars, serviceVars, clientVars
<1>4. HandlerInv' /\ OnceInv'
  BY <1>2 DEF CountInv, HandlerInv, OnceInv, RunBegin, Goto, poolVars, serviceVars, clientVars
<1>5. ThreadsInv'
  BY DEF CountInv, TypeOK, ThreadsInv, RunBegin, Goto, poolVars, serviceVars, clientVars
<1>6. MutexInv'
  BY PoolAssumption DEF CountInv, TypeOK, MutexInv, RunBegin, Goto, poolVars, serviceVars, clientVars
<1>7. ClientInv'
  BY DEF CountInv, TypeOK, ClientInv, InWait, RunBegin, Goto, poolVars, serviceVars, clientVars
<1> QED
  BY <1>1, <1>3, <1>4, <1>5, <1>6, <1>7 DEF CountInv

\* A worker stops the service.
LEMMA StopServiceCount ==
    ASSUME CountInv, NEW w \in Workers, StopService(w)
    PROVE  CountInv'
<1>1. TypeOK'
  BY DEF CountInv, TypeOK, StopService, Goto, poolVars, serviceVars, clientVars, WorkerSteps, ClientSteps, HandlerStates
<1>2. Executing' = Executing
  BY OtherStep DEF CountInv, TypeOK, StopService, Goto, poolVars, serviceVars, clientVars, Executing
<1>3. OutstandingInv'
  BY <1>2 DEF CountInv, OutstandingInv, StopService, Goto, poolVars, serviceVars, clientVars
<1>4. HandlerInv' /\ OnceInv'
  BY <1>2 DEF CountInv, HandlerInv, OnceInv, StopService, Goto, poolVars, serviceVars, clientVars
<1>5. ThreadsInv'
  BY DEF CountInv, TypeOK, ThreadsInv, StopService, Goto, poolVars, serviceVars, clientVars
<1>6. MutexInv'
  BY PoolAssumption DEF CountInv, TypeOK, MutexInv, StopService, Goto, poolVars, serviceVars, clientVars
<1>7. ClientInv'
  BY DEF CountInv, TypeOK, ClientInv, InWait, StopService, Goto, poolVars, serviceVars, clientVars
<1> QED
  BY <1>1, <1>3, <1>4, <1>5, <1>6, <1>7 DEF CountInv

\* run returns.
LEMMA RunReturnCount ==
    ASSUME CountInv, NEW w \in Workers, RunReturn(w)
    PROVE  CountInv'
<1>1. TypeOK'
  BY DEF CountInv, TypeOK, RunReturn, Goto, poolVars, serviceVars, clientVars, WorkerSteps, ClientSteps, HandlerStates
<1>2. Executing' = Executing
  BY OtherStep DEF CountInv, TypeOK, RunReturn, Goto, poolVars, serviceVars, clientVars, Executing
<1>3. OutstandingInv'
  BY <1>2 DEF CountInv, OutstandingInv, RunReturn, Goto, poolVars, serviceVars, clientVars
<1>4. HandlerInv' /\ OnceInv'
  BY <1>2 DEF CountInv, HandlerInv, OnceInv, RunReturn, Goto, poolVars, serviceVars, clientVars
<1>5. ThreadsInv'
  BY DEF CountInv, TypeOK, ThreadsInv, RunReturn, Goto, poolVars, serviceVars, clientVars
<1>6. MutexInv'
  BY PoolAssumption DEF CountInv, TypeOK, MutexInv, RunReturn, Goto, poolVars, serviceVars, clientVars
<1>7. ClientInv'
  BY DEF CountInv, TypeOK, ClientInv, InWait, RunReturn, Goto, poolVars, serviceVars, clientVars
<1> QED
  BY <1>1, <1>3, <1>4, <1>5, <1>6, <1>7 DEF CountInv

\* A worker locks the mutex.
LEMMA WorkerLockCount ==
    ASSUME CountInv, NEW w \in Workers, WorkerLock(w)
    PROVE  CountInv'
<1>1. TypeOK'
  BY DEF CountInv, TypeOK, WorkerLock, Goto, poolVars, serviceVars, clientVars, WorkerSteps, ClientSteps, HandlerStates
<1>2. Executing' = Executing
  BY OtherStep DEF CountInv, TypeOK, WorkerLock, Goto, poolVars, serviceVars, clientVars, Executing
<1>3. OutstandingInv'
  BY <1>2 DEF CountInv, OutstandingInv, WorkerLock, Goto, poolVars, serviceVars, clientVars
<1>4. HandlerInv' /\ OnceInv'
  BY <1>2 DEF CountInv, HandlerInv, OnceInv, WorkerLock, Goto, poolVars, serviceVars, clientVars
<1>5. ThreadsInv'
  BY DEF CountInv, TypeOK, ThreadsInv, WorkerLock, Goto, poolVars, serviceVars, clientVars
<1>6. MutexInv'
  BY PoolAssumption DEF CountInv, TypeOK, MutexInv, WorkerLock, Goto, poolVars, serviceVars, clientVars
<1>7. ClientInv'
  BY DEF CountInv, TypeOK, ClientInv, InWait, WorkerLock, Goto, poolVars, serviceVars, clientVars
<1> QED
  BY <1>1, <1>3, <1>4, <1>5, <1>6, <1>7 DEF CountInv

\* A worker resets the service.
LEMMA WorkerResetCount ==
    ASSUME CountInv, NEW w \in Workers, WorkerReset(w)
    PROVE  CountInv'
<1>1. TypeOK'
  BY DEF CountInv, TypeOK, WorkerReset, Goto, poolVars, serviceVars, clientVars, WorkerSteps, ClientSteps, HandlerStates
<1>2. Executing' = Executing
  BY OtherStep DEF CountInv, TypeOK, WorkerReset, Goto, poolVars, serviceVars, clientVars, Executing
<1>3. OutstandingInv'
  BY <1>2 DEF CountInv, OutstandingInv, WorkerReset, Goto, poolVars, serviceVars, clientVars
<1>4. HandlerInv' /\ OnceInv'
  BY <1>2 DEF CountInv, HandlerInv, OnceInv, WorkerReset, Goto, poolVars, serviceVars, clientVars
<1>5. ThreadsInv'
  BY DEF CountInv, TypeOK, ThreadsInv, WorkerReset, Goto, poolVars, serviceVars, clientVars
<1>6. MutexInv'
  BY PoolAssumption DEF CountInv, TypeOK, MutexInv, WorkerReset, Goto, poolVars, serviceVars, clientVars
<1>7. ClientInv'
  BY DEF CountInv, TypeOK, ClientInv, InWait, WorkerReset, Goto, poolVars, serviceVars, clientVars
<1> QED
  BY <1>1, <1>3, <1>4, <1>5, <1>6, <1>7 DEF CountInv

\* Wait begins.
LEMMA WaitBeginCount ==
    ASSUME CountInv, WaitBegin
    PROVE  CountInv'
<1>1. TypeOK'
  BY DEF CountInv, TypeOK, WaitBegin, poolVars, serviceVars, clientVars, WorkerSteps, ClientSteps, HandlerStates
<1>2. Executing' = Executing
  BY OtherStep DEF CountInv, TypeOK, WaitBegin, poolVars, serviceVars, clientVars, Executing
<1>3. OutstandingInv'
  BY <1>2 DEF CountInv, OutstandingInv, WaitBegin, poolVars, serviceVars, clientVars
<1>4. HandlerInv' /\ OnceInv'
  BY <1>2 DEF CountInv, HandlerInv, OnceInv, WaitBegin, poolVars, serviceVars, clientVars
<1>5. ThreadsInv'
  BY DEF CountInv, TypeOK, ThreadsInv, WaitBegin, poolVars, serviceVars, clientVars
<1>6. MutexInv'
  BY PoolAssumption DEF CountInv, TypeOK, MutexInv, WaitBegin, poolVars, serviceVars, clientVars
<1>7. ClientInv'
  BY DEF CountInv, TypeOK, ClientInv, InWait, WaitBegin, poolVars, serviceVars, clientVars
<1> QED
  BY <1>1, <1>3, <1>4, <1>5, <1>6, <1>7 DEF CountInv

\* Wait stops the service.
LEMMA WaitStopCount ==
    ASSUME CountInv, WaitStop
    PROVE  CountInv'
<1>1. TypeOK'
  BY DEF CountInv, TypeOK, WaitStop, poolVars, serviceVars, clientVars, WorkerSteps, ClientSteps, HandlerStates
<1>2. Executing' = Executing
  BY OtherStep DEF CountInv, TypeOK, WaitStop, poolVars, serviceVars, clientVars, Executing
<1>3. OutstandingInv'
  BY <1>2 DEF CountInv, OutstandingInv, WaitStop, poolVars, serviceVars, clientVars
<1>4. HandlerInv' /\ OnceInv'
  BY <1>2 DEF CountInv, HandlerInv, OnceInv, WaitStop, poolVars, serviceVars, clientVars
<1>5. ThreadsInv'
  BY DEF CountInv, TypeOK, ThreadsInv, WaitStop, poolVars, serviceVars, clientVars
<1>6. MutexInv'
  BY PoolAssumption DEF CountInv, TypeOK, MutexInv, WaitStop, poolVars, serviceVars, clientVars
<1>7. ClientInv'
  BY DEF CountInv, TypeOK, ClientInv, InWait, WaitStop, poolVars, serviceVars, clientVars
<1> QED
  BY <1>1, <1>3, <1>4, <1>5, <1>6, <1>7 DEF CountInv

\* The client wakes up.
LEMMA SpuriousWakeupCount ==
    ASSUME CountInv, SpuriousWakeup
    PROVE  CountInv'
<1>1. TypeOK'
  BY DEF CountInv, TypeOK, SpuriousWakeup, poolVars, serviceVars, clientVars, WorkerSteps, ClientSteps, HandlerStates
<1>2. Executing' = Executing
  BY OtherStep DEF CountInv, TypeOK, SpuriousWakeup, poolVars, serviceVars, clientVars, Executing
<1>3. OutstandingInv'
  BY <1>2 DEF CountInv, OutstandingInv, SpuriousWakeup, poolVars, serviceVars, clientVars
<1>4. HandlerInv' /\ OnceInv'
  BY <1>2 DEF CountInv, HandlerInv, OnceInv, SpuriousWakeup, poolVars, serviceVars, clientVars
<1>5. ThreadsInv'
  BY DEF CountInv, TypeOK, ThreadsInv, SpuriousWakeup, poolVars, serviceVars, clientVars
<1>6. MutexInv'
  BY PoolAssumption DEF CountInv, TypeOK, MutexInv, SpuriousWakeup, poolVars, serviceVars, clientVars
<1>7. ClientInv'
  BY DEF CountInv, TypeOK, ClientInv, InWait, SpuriousWakeup, poolVars, serviceVars, clientVars
<1> QED
  BY <1>1, <1>3, <1>4, <1>5, <1>6, <1>7 DEF CountInv

\* Wait looks at work_.
LEMMA WaitCheckCount ==
    ASSUME CountInv, WaitCheck
    PROVE  CountInv'
<1>1. TypeOK'
  BY DEF CountInv, TypeOK, WaitCheck, poolVars, serviceVars, clientVars, WorkerSteps, ClientSteps, HandlerStates
<1>2. Executing' = Executing
  BY OtherStep DEF CountInv, TypeOK, WaitCheck, poolVars, serviceVars, clientVars, Executing
<1>3. OutstandingInv'
  BY <1>2 DEF CountInv, OutstandingInv, WaitCheck, poolVars, serviceVars, clientVars
<1>4. HandlerInv' /\ OnceInv'
  BY <1>2 DEF CountInv, HandlerInv, OnceInv, WaitCheck, poolVars, serviceVars, clientVars
<1>5. ThreadsInv'
  BY DEF CountInv, TypeOK, ThreadsInv, WaitCheck, poolVars, serviceVars, clientVars
<1>6. MutexInv'
  BY PoolAssumption DEF CountInv, TypeOK, MutexInv, WaitCheck, poolVars, serviceVars, clientVars
<1>7. ClientInv'
  BY DEF CountInv, TypeOK, ClientInv, InWait, WaitCheck, poolVars, serviceVars, clientVars
<1> QED
  BY <1>1, <1>3, <1>4, <1>5, <1>6, <1>7 DEF CountInv

\* The destructor begins.
LEMMA DestructorBeginCount ==
    ASSUME CountInv, DestructorBegin
    PROVE  CountInv'
<1>1. TypeOK'
  BY DEF CountInv, TypeOK, DestructorBegin, poolVars, serviceVars, clientVars, WorkerSteps, ClientSteps, HandlerStates
<1>2. Executing' = Executing
  BY OtherStep DEF CountInv, TypeOK, DestructorBegin, poolVars, serviceVars, clientVars, Executing
<1>3. OutstandingInv'
  BY <1>2 DEF CountInv, OutstandingInv, DestructorBegin, poolVars, serviceVars, clientVars
<1>4. HandlerInv' /\ OnceInv'
  BY <1>2 DEF CountInv, HandlerInv, OnceInv, DestructorBegin, poolVars, serviceVars, clientVars
<1>5. ThreadsInv'
  BY DEF CountInv, TypeOK, ThreadsInv, DestructorBegin, poolVars, serviceVars, clientVars
<1>6. MutexInv'
  BY PoolAssumption DEF CountInv, TypeOK, MutexInv, DestructorBegin, poolVars, serviceVars, clientVars
<1>7. ClientInv'
  BY DEF CountInv, TypeOK, ClientInv, InWait, DestructorBegin, poolVars, serviceVars, clientVars
<1> QED
  BY <1>1, <1>3, <1>4, <1>5, <1>6, <1>7 DEF CountInv

\* The destructor stops the service.
LEMMA DestructorStopCount ==
    ASSUME CountInv, DestructorStop
    PROVE  CountInv'
<1>1. TypeOK'
  BY DEF CountInv, TypeOK, DestructorStop, poolVars, serviceVars, clientVars, WorkerSteps, ClientSteps, HandlerStates
<1>2. Executing' = Executing
  BY OtherStep DEF CountInv, TypeOK, DestructorStop, poolVars, serviceVars, clientVars, Executing
<1>3. OutstandingInv'
  BY <1>2 DEF CountInv, OutstandingInv, DestructorStop, poolVars, serviceVars, clientVars
<1>4. HandlerInv' /\ OnceInv'
  BY <1>2 DEF CountInv, HandlerInv, OnceInv, DestructorStop, poolVars, serviceVars, clientVars
<1>5. ThreadsInv'
  BY DEF CountInv, TypeOK, ThreadsInv, DestructorStop, poolVars, serviceVars, clientVars
<1>6. MutexInv'
  BY PoolAssumption DEF CountInv, TypeOK, MutexInv, DestructorStop, poolVars, serviceVars, clientVars
<1>7. ClientInv'
  BY DEF CountInv, TypeOK, ClientInv, InWait, DestructorStop, poolVars, serviceVars, clientVars
<1> QED
  BY <1>1, <1>3, <1>4, <1>5, <1>6, <1>7 DEF CountInv

\* The destructor has joined the workers.
LEMMA DestructorJoinCount ==
    ASSUME CountInv, DestructorJoin
    PROVE  CountInv'
<1>1. TypeOK'
  BY DEF CountInv, TypeOK, DestructorJoin, poolVars, serviceVars, clientVars, WorkerSteps, ClientSteps, HandlerStates
<1>2. Executing' = Executing
  BY OtherStep DEF CountInv, TypeOK, DestructorJoin, poolVars, serviceVars, clientVars, Executing
<1>3. OutstandingInv'
  BY <1>2 DEF CountInv, OutstandingInv, DestructorJoin, poolVars, serviceVars, clientVars
<1>4. HandlerInv' /\ OnceInv'
  BY <1>2 DEF CountInv, HandlerInv, OnceInv, DestructorJoin, poolVars, serviceVars, clientVars
<1>5. ThreadsInv'
  BY DEF CountInv, TypeOK, ThreadsInv, DestructorJoin, poolVars, serviceVars, clientVars
<1>6. MutexInv'
  BY PoolAssumption DEF CountInv, TypeOK, MutexInv, DestructorJoin, poolVars, serviceVars, clientVars
<1>7. ClientInv'
  BY DEF CountInv, TypeOK, ClientInv, InWait, DestructorJoin, poolVars, serviceVars, clientVars
<1> QED
  BY <1>1, <1>3, <1>4, <1>5, <1>6, <1>7 DEF CountInv

\* The barrier opens: nobody executes before.
LEMMA OpenBarrierCount ==
    ASSUME CountInv, OpenBarrier
    PROVE  CountInv'
<1>1. TypeOK'
  BY DEF CountInv, TypeOK, OpenBarrier, poolVars, serviceVars, clientVars, WorkerSteps, ClientSteps,
         HandlerStates
<1>2. Executing' = {} /\ Executing = {}
  BY DEF CountInv, TypeOK, ThreadsInv, OpenBarrier, Executing
<1>3. OutstandingInv'
  BY <1>2 DEF CountInv, OutstandingInv, OpenBarrier, poolVars, serviceVars
<1>4. HandlerInv' /\ OnceInv'
  BY <1>2 DEF CountInv, HandlerInv, OnceInv, OpenBarrier, poolVars, serviceVars
<1>5. ThreadsInv'
  BY DEF CountInv, TypeOK, ThreadsInv, OpenBarrier, poolVars
<1>6. MutexInv'
  BY DEF CountInv, TypeOK, MutexInv, OpenBarrier
<1>7. ClientInv'
  BY DEF CountInv, TypeOK, ClientInv, InWait, OpenBarrier, poolVars, serviceVars, clientVars
<1> QED
  BY <1>1, <1>3, <1>4, <1>5, <1>6, <1>7 DEF CountInv

\* A worker takes the next handler: it was posted and is executed.
LEMMA TakeCount ==
    ASSUME CountInv, NEW w \in Workers, Take(w)
    PROVE  CountInv'
<1> DEFINE h == Head(queue)
<1>1. queue \in Seq(Handlers) /\ queue # <<>>
  BY DEF CountInv, TypeOK, Take
<1>2. /\ h \in Handlers
      /\ Tail(queue) \in Seq(Handlers)
      /\ Len(Tail(queue)) = Len(queue) - 1
      /\ Len(queue) \in Nat
      /\ h = queue[1]
      /\ \A i \in DOMAIN queue : i # 1 =>
            i - 1 \in DOMAIN Tail(queue) /\ Tail(queue)[i - 1] = queue[i]
      /\ 1 \in DOMAIN queue
      /\ \A i \in DOMAIN Tail(queue) :
            i + 1 \in DOMAIN queue /\ i + 1 # 1 /\ Tail(queue)[i] = queue[i + 1]
  BY <1>1
<1> HIDE DEF h
<1>3. /\ state' = [state EXCEPT ![h] = "running"]
      /\ current' = [current EXCEPT ![w] = h]
      /\ queue' = Tail(queue)
      /\ Goto(w, "exec") /\ wpc[w] = "loop"
      /\ UNCHANGED <<poolVars, outstanding, svcStopped, cpc, clientVars>>
  BY DEF Take, h
<1>4. TypeOK'
  BY <1>2, <1>3 DEF CountInv, TypeOK, Goto, poolVars, clientVars, WorkerSteps, HandlerStates
<1>5. /\ Executing' = Executing \cup {w}
      /\ Cardinality(Executing') = Cardinality(Executing) + 1
  BY <1>3, TakeStep DEF CountInv, TypeOK
<1>6. OutstandingInv'
  BY <1>2, <1>3, <1>5, ExecutingCount DEF CountInv, OutstandingInv, poolVars
<1>7. HandlerInv'
  <2> SUFFICES ASSUME NEW g \in Handlers
               PROVE  /\ state'[g] = "posted" => \E i \in DOMAIN queue' : queue'[i] = g
                      /\ state'[g] = "running" => \E u \in Executing' : current'[u] = g
    BY DEF HandlerInv
  <2>1. CASE g = h
    BY <2>1, <1>2, <1>3, <1>5 DEF CountInv, TypeOK
  <2>2. CASE g # h
    <3>1. state'[g] = state[g]
      BY <2>2, <1>2, <1>3 DEF CountInv, TypeOK
    <3>2. ASSUME state[g] = "posted" PROVE \E i \in DOMAIN queue' : queue'[i] = g
      <4>1. PICK i \in DOMAIN queue : queue[i] = g
        BY <3>2 DEF CountInv, HandlerInv
      <4>2. i - 1 \in DOMAIN Tail(queue) /\ Tail(queue)[i - 1] = g
        BY <4>1, <1>2, <2>2
      <4> QED
        BY <4>2, <1>3
    <3>3. ASSUME state[g] = "running" PROVE \E u \in Executing' : current'[u] = g
      <4>1. PICK u \in Executing : current[u] = g
        BY <3>3 DEF CountInv, HandlerInv
      <4>2. u # w
        BY <4>1, <1>3 DEF Executing
      <4>3. current'[u] = g
        BY <4>1, <4>2, <1>3 DEF CountInv, TypeOK, Executing
      <4> QED
        BY <4>1, <4>3, <1>5
    <3> QED
      BY <3>1, <3>2, <3>3
  <2> QED
    BY <2>1, <2>2
<1>8. ThreadsInv'
  BY <1>3 DEF CountInv, TypeOK, ThreadsInv, Goto, poolVars
<1>9. MutexInv'
  BY <1>3 DEF CountInv, TypeOK, MutexInv, Goto, poolVars
<1>10. ClientInv'
  BY <1>2, <1>3 DEF CountInv, TypeOK, ClientInv, InWait, poolVars, clientVars
<1>11. OnceInv'
  <2>1. state[h] = "posted"
    BY <1>2 DEF CountInv, OnceInv
  <2>2. \A i \in DOMAIN queue' : queue'[i] # h /\ state[queue'[i]] = "posted" /\ queue'[i] \in Handlers
    BY <1>1, <1>2, <1>3 DEF CountInv, OnceInv
  <2>3. \A i \in DOMAIN queue' : state'[queue'[i]] = "posted"
    BY <2>2, <1>3 DEF CountInv, TypeOK
  <2>4. \A i, j \in DOMAIN queue' : queue'[i] = queue'[j] => i = j
    <3> SUFFICES ASSUME NEW i \in DOMAIN Tail(queue), NEW j \in DOMAIN Tail(queue),
                        Tail(queue)[i] = Tail(queue)[j]
                 PROVE  i = j
      BY <1>3
    <3>1. i + 1 = j + 1
      BY <1>2 DEF CountInv, OnceInv
    <3>2. i \in Nat /\ j \in Nat
      BY <1>2
    <3> QED
      BY <3>1, <3>2
  <2>5. ASSUME NEW u \in Executing
        PROVE  /\ u # w /\ u \in Workers
               /\ current'[u] = current[u] /\ current[u] \in Handlers
               /\ current[u] # h
               /\ state'[current[u]] = "running"
    <3>1. u # w /\ u \in Workers
      BY <1>3 DEF Executing
    <3>2. current[u] \in Handlers /\ state[current[u]] = "running"
      BY DEF CountInv, OnceInv
    <3> QED
      BY <3>1, <3>2, <2>1, <1>2, <1>3 DEF CountInv, TypeOK
  <2>6. current'[w] = h /\ state'[h] = "running"
    BY <1>2, <1>3 DEF CountInv, TypeOK
  <2>7. \A u \in Executing' : current'[u] \in Handlers /\ state'[current'[u]] = "running"
    BY <2>5, <2>6, <1>2, <1>5
  <2>8. \A u, v \in Executing' : current'[u] = current'[v] => u = v
    BY <2>5, <2>6, <1>5 DEF CountInv, OnceInv
  <2> QED
    BY <2>3, <2>4, <2>7, <2>8 DEF OnceInv
<1> QED
  BY <1>4, <1>6, <1>7, <1>8, <1>9, <1>10, <1>11 DEF CountInv

\* A handler ends and is no longer counted.
LEMMA HandlerEndsCount ==
    ASSUME CountInv, NEW w \in Workers, HandlerEnds(w)
    PROVE  CountInv'
<1> DEFINE x == IF outstanding = 1 THEN "stopFinish" ELSE "loop"
<1>1. x \in {"stopFinish", "loop"}
  OBVIOUS
<1>2. /\ state' = [state EXCEPT ![current[w]] = "done"]
      /\ current' = [current EXCEPT ![w] = Null]
      /\ outstanding' = outstanding - 1
      /\ Goto(w, x) /\ wpc[w] = "exec"
      /\ UNCHANGED <<poolVars, queue, svcStopped, cpc, clientVars>>
  BY DEF HandlerEnds
<1> HIDE DEF x
<1>3. /\ Executing' = Executing \ {w}
      /\ Cardinality(Executing') = Cardinality(Executing) - 1
      /\ Cardinality(Executing) > 0
  BY <1>1, <1>2, EndStep DEF CountInv, TypeOK
<1>4. Len(queue) \in Nat /\ Cardinality(Executing) \in Nat
  BY ExecutingCount DEF CountInv, TypeOK
<1>5. OutstandingInv' /\ outstanding' \in Nat /\ outstanding > 0
  BY <1>2, <1>3, <1>4 DEF CountInv, TypeOK, OutstandingInv, poolVars
<1>6. TypeOK'
  BY <1>1, <1>2, <1>5 DEF CountInv, TypeOK, Goto, poolVars, clientVars, WorkerSteps, HandlerStates
<1>7. HandlerInv'
  <2> SUFFICES ASSUME NEW g \in Handlers
               PROVE  /\ state'[g] = "posted" => \E i \in DOMAIN queue' : queue'[i] = g
                      /\ state'[g] = "running" => \E u \in Executing' : current'[u] = g
    BY DEF HandlerInv
  <2>1. CASE g = current[w]
    BY <2>1, <1>2 DEF CountInv, TypeOK
  <2>2. CASE g # current[w]
    <3>1. state'[g] = state[g] /\ queue' = queue
      BY <2>2, <1>2 DEF CountInv, TypeOK
    <3>2. ASSUME state[g] = "running" PROVE \E u \in Executing' : current'[u] = g
      <4>1. PICK u \in Executing : current[u] = g
        BY <3>2 DEF CountInv, HandlerInv
      <4>2. u # w /\ current'[u] = g
        BY <4>1, <2>2, <1>2 DEF CountInv, TypeOK, Executing
      <4> QED
        BY <4>1, <4>2, <1>3
    <3> QED
      BY <3>1, <3>2 DEF CountInv, HandlerInv
  <2> QED
    BY <2>1, <2>2
<1>8. ThreadsInv'
  BY <1>1, <1>2 DEF CountInv, TypeOK, ThreadsInv, Goto, poolVars
<1>9. MutexInv'
  BY <1>1, <1>2 DEF CountInv, TypeOK, MutexInv, Goto, poolVars
<1>10. ClientInv'
  <2>1. cpc # "stopWait"
    BY <1>5 DEF CountInv, ClientInv
  <2> QED
    BY <2>1, <1>2 DEF CountInv, TypeOK, ClientInv, InWait, poolVars, clientVars
<1>11. OnceInv'
  <2>1. w \in Executing /\ state[current[w]] = "running"
    BY <1>2 DEF CountInv, OnceInv, Executing
  <2>2. \A i \in DOMAIN queue' : state'[queue'[i]] = "posted"
    <3> SUFFICES ASSUME NEW i \in DOMAIN queue PROVE state'[queue[i]] = "posted"
      BY <1>2
    <3>1. state[queue[i]] = "posted" /\ queue[i] \in Handlers
      BY DEF CountInv, OnceInv, TypeOK
    <3> QED
      BY <3>1, <2>1, <1>2 DEF CountInv, TypeOK
  <2>3. ASSUME NEW u \in Executing'
        PROVE  /\ current'[u] = current[u] /\ current[u] \in Handlers
               /\ state'[current[u]] = "running"
    <3>1. u \in Executing /\ u # w /\ u \in Workers
      BY <1>3 DEF Executing
    <3>2. current[u] \in Handlers /\ state[current[u]] = "running" /\ current[u] # current[w]
      BY <3>1, <2>1 DEF CountInv, OnceInv
    <3> QED
      BY <3>1, <3>2, <1>2 DEF CountInv, TypeOK
  <2>4. \A u, v \in Executing' : current'[u] = current'[v] => u = v
    BY <2>3, <1>3 DEF CountInv, OnceInv
  <2> QED
    BY <2>2, <2>3, <2>4, <1>2 DEF CountInv, OnceInv
<1> QED
  BY <1>5, <1>6, <1>7, <1>8, <1>9, <1>10, <1>11 DEF CountInv

\* A handler is posted, by the client or by a handler.
LEMMA ScheduleCount ==
    ASSUME CountInv, NEW h \in Handlers, Schedule(h), cpc = "idle" \/ Executing # {},
           UNCHANGED <<poolVars, svcStopped, wpc, cpc, current, clientVars>>
    PROVE  CountInv'
<1>1. /\ queue' = Append(queue, h)
      /\ state[h] = "new"
      /\ state' = [state EXCEPT ![h] = "posted"]
      /\ outstanding' = outstanding + 1
  BY DEF Schedule
<1>2. /\ Len(queue) \in Nat
      /\ queue' \in Seq(Handlers)
      /\ Len(queue') = Len(queue) + 1
      /\ Len(queue) + 1 \in DOMAIN queue' /\ queue'[Len(queue) + 1] = h
      /\ \A i \in DOMAIN queue : i \in DOMAIN queue' /\ queue'[i] = queue[i]
  BY <1>1 DEF CountInv, TypeOK
<1>3. Executing' = Executing
  BY DEF Executing
<1>4. OutstandingInv'
  BY <1>1, <1>2, <1>3, ExecutingCount DEF CountInv, OutstandingInv, poolVars
<1>5. TypeOK'
  BY <1>1, <1>2 DEF CountInv, TypeOK, poolVars, clientVars, HandlerStates
<1>6. HandlerInv'
  <2> SUFFICES ASSUME NEW g \in Handlers
               PROVE  /\ state'[g] = "posted" => \E i \in DOMAIN queue' : queue'[i] = g
                      /\ state'[g] = "running" => \E u \in Executing' : current'[u] = g
    BY DEF HandlerInv
  <2>1. CASE g = h
    BY <2>1, <1>1, <1>2 DEF CountInv, TypeOK
  <2>2. CASE g # h
    <3>1. state'[g] = state[g]
      BY <2>2, <1>1 DEF CountInv, TypeOK
    <3> QED
      BY <3>1, <1>2, <1>3 DEF CountInv, HandlerInv
  <2> QED
    BY <2>1, <2>2
<1>7. ThreadsInv' /\ MutexInv'
  BY DEF CountInv, ThreadsInv, MutexInv, poolVars
<1>8. ClientInv'
  <2>1. cpc # "stopWait"
    <3>1. CASE Executing # {}
      BY <3>1, ExecutingCount, <1>2 DEF CountInv, ClientInv, OutstandingInv
    <3> QED
      BY <3>1
  <2> QED
    BY <2>1, <1>1 DEF CountInv, TypeOK, ClientInv, InWait, poolVars, clientVars
<1>9. OnceInv'
  <2>1. \A i \in DOMAIN queue :
           queue[i] \in Handlers /\ state[queue[i]] = "posted" /\ queue[i] # h
    BY <1>1 DEF CountInv, TypeOK, OnceInv
  <2>2. \A i \in DOMAIN queue' : i \in DOMAIN queue \/ i = Len(queue) + 1
    BY <1>1 DEF CountInv, TypeOK
  <2>3. \A i \in DOMAIN queue' : state'[queue'[i]] = "posted"
    BY <2>1, <2>2, <1>1, <1>2 DEF CountInv, TypeOK
  <2>4. \A i, j \in DOMAIN queue' : queue'[i] = queue'[j] => i = j
    BY <2>1, <2>2, <1>2 DEF CountInv, OnceInv
  <2>5. \A u \in Executing : current[u] \in Handlers /\ state'[current[u]] = "running"
    BY <1>1 DEF CountInv, TypeOK, OnceInv
  <2> QED
    BY <2>3, <2>4, <2>5, <1>3 DEF CountInv, OnceInv
<1> QED
  BY <1>4, <1>5, <1>6, <1>7, <1>8, <1>9 DEF CountInv

\* A worker leaves, goes on, or makes new work_.
LEMMA WorkerCheckCount ==
    ASSUME CountInv, NEW w \in Workers, WorkerCheck(w)
    PROVE  CountInv'
<1>1. PICK x \in {"ended", "run", "reset"} :
        /\ Goto(w, x)
        /\ \/ x # "reset" /\ mutex' = Null /\ UNCHANGED <<work, outstanding>>
           \/ /\ x = "reset" /\ ~work /\ ~stopped
              /\ work' = TRUE /\ outstanding' = outstanding + 1 /\ UNCHANGED mutex
  BY DEF WorkerCheck
<1>2. /\ wpc[w] = "check"
      /\ UNCHANGED <<threads, stopped, queue, svcStopped, cpc, current, state, clientVars>>
  BY DEF WorkerCheck
<1>3. mutex = w
  BY <1>2 DEF CountInv, MutexInv
<1>4. Executing' = Executing
  BY <1>1, <1>2, OtherStep DEF CountInv, TypeOK
<1>5. OutstandingInv'
  <2>1. Len(queue) \in Nat /\ Cardinality(Executing) \in Nat
    BY ExecutingCount DEF CountInv, TypeOK
  <2> QED
    BY <2>1, <1>1, <1>2, <1>4 DEF CountInv, OutstandingInv
<1>6. TypeOK'
  <2>1. work' \in BOOLEAN
    BY <1>1 DEF CountInv, TypeOK
  <2>2. outstanding' \in Nat /\ mutex' \in Workers \cup {Client, Null}
    BY <1>1 DEF CountInv, TypeOK
  <2>3. wpc' \in [Workers -> WorkerSteps]
    BY <1>1 DEF CountInv, TypeOK, Goto, WorkerSteps
  <2> QED
    BY <1>2, <2>1, <2>2, <2>3 DEF CountInv, TypeOK, clientVars
<1>7. HandlerInv' /\ OnceInv'
  BY <1>2, <1>4 DEF CountInv, HandlerInv, OnceInv
<1>8. ThreadsInv'
  BY <1>1, <1>2 DEF CountInv, TypeOK, ThreadsInv, Goto
<1>9. w # Client
  BY PoolAssumption
<1>10. MutexInv'
  BY <1>1, <1>2, <1>3, <1>9 DEF CountInv, TypeOK, MutexInv, Goto
<1>11. cpc # "stopWait"
  BY <1>3, <1>9 DEF CountInv, MutexInv
<1>12. ClientInv'
  BY <1>2, <1>11 DEF CountInv, TypeOK, ClientInv, InWait, clientVars
<1> QED
  BY <1>5, <1>6, <1>7, <1>8, <1>10, <1>12 DEF CountInv

\* work_ is reset, by Wait or by the destructor: the count goes down with it.
LEMMA ResetWorkCount ==
    ASSUME CountInv, NEW last, NEW notLast, ResetWork(last, notLast),
           UNCHANGED <<queue, wpc>>
    PROVE  /\ work' = FALSE
           /\ outstanding' \in Nat
           /\ Executing' = Executing
           /\ OutstandingInv'
           /\ \/ work /\ outstanding = 1 /\ outstanding' = 0 /\ cpc' = last
              \/ ~(work /\ outstanding = 1) /\ cpc' = notLast
<1>1. /\ work' = FALSE
      /\ outstanding' = IF work THEN outstanding - 1 ELSE outstanding
      /\ cpc' = IF work /\ outstanding = 1 THEN last ELSE notLast
  BY DEF ResetWork
<1>2. Len(queue) \in Nat /\ Cardinality(Executing) \in Nat
  BY ExecutingCount DEF CountInv, TypeOK
<1>3. Executing' = Executing
  BY DEF Executing
<1>4. outstanding' \in Nat /\ OutstandingInv'
  BY <1>1, <1>2, <1>3 DEF CountInv, TypeOK, OutstandingInv
<1>5. \/ work /\ outstanding = 1 /\ outstanding' = 0 /\ cpc' = last
      \/ ~(work /\ outstanding = 1) /\ cpc' = notLast
  BY <1>1 DEF CountInv, TypeOK
<1> QED
  BY <1>1, <1>3, <1>4, <1>5

\* Wait locks the mutex and resets work_.
LEMMA WaitLockCount ==
    ASSUME CountInv, WaitLock
    PROVE  CountInv'
<1>1. /\ work' = FALSE
      /\ outstanding' \in Nat
      /\ Executing' = Executing
      /\ OutstandingInv'
      /\ \/ outstanding' = 0 /\ cpc' = "stopWait"
         \/ cpc' = "sleep"
  BY ResetWorkCount DEF WaitLock
<1>2. /\ cpc = "wait"
      /\ mutex = Null
      /\ mutex' = IF cpc' = "sleep" THEN Null ELSE Client
      /\ UNCHANGED <<threads, stopped, queue, svcStopped, wpc, current, state, clientVars>>
  BY DEF WaitLock
<1>3. TypeOK'
  BY <1>1, <1>2 DEF CountInv, TypeOK, clientVars, ClientSteps
<1>4. HandlerInv' /\ OnceInv'
  BY <1>1, <1>2 DEF CountInv, HandlerInv, OnceInv
<1>5. ThreadsInv'
  BY <1>1, <1>2 DEF CountInv, ThreadsInv
<1>6. MutexInv'
  BY <1>1, <1>2, PoolAssumption DEF CountInv, MutexInv
<1>7. ClientInv'
  BY <1>1, <1>2 DEF CountInv, ClientInv, InWait, clientVars
<1> QED
  BY <1>1, <1>3, <1>4, <1>5, <1>6, <1>7 DEF CountInv

\* The destructor resets it too.
LEMMA DestructorLockCount ==
    ASSUME CountInv, DestructorLock
    PROVE  CountInv'
<1>1. /\ work' = FALSE
      /\ outstanding' \in Nat
      /\ Executing' = Executing
      /\ OutstandingInv'
      /\ cpc' = "stop"
  BY ResetWorkCount DEF DestructorLock
<1>2. /\ cpc = "destructor"
      /\ stopped' = TRUE
      /\ UNCHANGED <<threads, mutex, queue, svcStopped, wpc, current, state, clientVars>>
  BY DEF DestructorLock
<1>3. TypeOK'
  BY <1>1, <1>2 DEF CountInv, TypeOK, clientVars, ClientSteps
<1>4. HandlerInv' /\ OnceInv'
  BY <1>1, <1>2 DEF CountInv, HandlerInv, OnceInv
<1>5. ThreadsInv' /\ MutexInv'
  BY <1>1, <1>2 DEF CountInv, ThreadsInv, MutexInv
<1>6. ClientInv'
  BY <1>1, <1>2 DEF CountInv, ClientInv, InWait, clientVars
<1> QED
  BY <1>1, <1>3, <1>4, <1>5, <1>6 DEF CountInv

\* Nothing happens.
LEMMA StutterCount ==
    ASSUME CountInv, UNCHANGED vars
    PROVE  CountInv'
BY DEF CountInv, TypeOK, OutstandingInv, Executing, HandlerInv, OnceInv, ThreadsInv, MutexInv,
       ClientInv, InWait, vars, poolVars, serviceVars, clientVars

\* The actions one by one.
LEMMA CountStep == CountInv /\ [Next]_vars => CountInv'
<1> SUFFICES ASSUME CountInv, [Next]_vars PROVE CountInv'
  OBVIOUS
<1>1. ASSUME NEW w \in Workers, Arrive(w) \/ InRun(w) \/ ScheduleFromHandler(w) \/ WorkerLoop(w)
      PROVE  CountInv'
  <2>1. CASE Arrive(w)
    BY <2>1, ArriveCount
  <2>2. CASE InRun(w)
    BY <2>2, RunBeginCount, StopServiceCount, RunReturnCount, TakeCount, HandlerEndsCount DEF InRun
  <2>3. CASE ScheduleFromHandler(w)
    <3>1. w \in Executing
      BY <2>3 DEF ScheduleFromHandler, Executing
    <3> QED
      BY <2>3, <3>1, ScheduleCount DEF ScheduleFromHandler
  <2>4. CASE WorkerLoop(w)
    BY <2>4, WorkerLockCount, WorkerCheckCount, WorkerResetCount DEF WorkerLoop
  <2> QED
    BY <1>1, <2>1, <2>2, <2>3, <2>4
<1>2. CASE ScheduleFromClient
  BY <1>2, ScheduleCount DEF ScheduleFromClient
<1>3. CASE ClientStep
  BY <1>3, WaitLockCount, WaitStopCount, WaitCheckCount, DestructorLockCount, DestructorStopCount,
     DestructorJoinCount DEF ClientStep
<1> QED
  BY <1>1, <1>2, <1>3, OpenBarrierCount, WaitBeginCount, SpuriousWakeupCount, DestructorBeginCount,
     StutterCount DEF Next, Terminated

\* The io_service's outstanding work is what is posted, what is executed and
\* work_, at any moment, whoever posts, waits or destroys the pool: whatever
\* the number of workers, handlers and calls of Wait.
THEOREM CountInvariance == Spec => []CountInv
<1>1. CountInv /\ [Next]_vars => CountInv'
  BY CountStep
<1> QED
  BY InitCount, <1>1, PTL DEF Spec

\* The pool's state has its type, and its outstanding work is never negative.
THEOREM TypeCorrectness == Spec => []TypeOK
<1>1. CountInv => TypeOK
  BY DEF CountInv
<1> QED
  BY CountInvariance, <1>1, PTL

-----------------------------------------------------------------------------
(* Wait. *)

\* What the count says: without outstanding work every handler that was posted
\* has ended; and a handler that is executed is not the last work while work_
\* is there.
LEMMA CountSays ==
    ASSUME CountInv
    PROVE  /\ outstanding = 0 =>
                /\ ~work
                /\ queue = <<>>
                /\ Executing = {}
                /\ \A h \in promised : state[h] = "done"
           /\ work => outstanding > 0
           /\ Executing # {} => outstanding > 0
           /\ work /\ Executing # {} => outstanding > 1
<1>1. Len(queue) \in Nat /\ Cardinality(Executing) \in Nat
  BY ExecutingCount DEF CountInv, TypeOK
<1>2. outstanding = Len(queue) + Cardinality(Executing) + (IF work THEN 1 ELSE 0)
  BY DEF CountInv, OutstandingInv
<1>3. Executing # {} => Cardinality(Executing) > 0
  BY ExecutingCount
<1>4. ASSUME outstanding = 0
      PROVE  ~work /\ queue = <<>> /\ Executing = {} /\ \A h \in promised : state[h] = "done"
  <2>1. ~work /\ Len(queue) = 0 /\ Executing = {}
    BY <1>1, <1>2, <1>3, <1>4
  <2>2. queue = <<>>
    BY <2>1 DEF CountInv, TypeOK
  <2>3. \A h \in promised : state[h] = "done"
    <3> TAKE h \in promised
    <3>1. h \in Handlers /\ state[h] \in HandlerStates /\ state[h] # "new"
      BY DEF CountInv, TypeOK, ClientInv
    <3>2. state[h] # "posted" /\ state[h] # "running"
      BY <3>1, <2>1, <2>2 DEF CountInv, HandlerInv
    <3> QED
      BY <3>1, <3>2 DEF HandlerStates
  <2> QED
    BY <2>1, <2>2, <2>3
<1>5. (work => outstanding > 0) /\ (Executing # {} => outstanding > 0)
      /\ (work /\ Executing # {} => outstanding > 1)
  BY <1>1, <1>2, <1>3
<1> QED
  BY <1>4, <1>5

\* A step that stops nothing, ends nothing but handlers, and leaves work_ and
\* the client where they are (asleep or awake) disturbs nothing that Wait
\* relies on.
LEMMA CalmStep ==
    ASSUME WaitInv,
           UNCHANGED <<work, waits, promised, threads>>,
           cpc' = cpc \/ {cpc, cpc'} \subseteq {"sleep", "woken"},
           Late' => Late,
           InWait /\ ~work /\ outstanding = 0 => outstanding' = 0,
           \A h \in promised : state[h] = "done" => state'[h] = "done",
           SingleInv'
    PROVE  WaitInv'
<1>1. FreshInv'
  BY DEF WaitInv, FreshInv, Fresh, Single
<1>2. DrainInv'
  BY DEF WaitInv, DrainInv, InWait
<1>3. BackInv'
  BY DEF WaitInv, BackInv, InWait
<1> QED
  BY <1>1, <1>2, <1>3 DEF WaitInv

\* Steps of the workers that leave run or are past it.
LEMMA WorkerWait ==
    ASSUME CountInv, WaitInv, NEW w \in Workers,
           Arrive(w) \/ RunReturn(w) \/ StopService(w) \/ WorkerLock(w)
    PROVE  WaitInv'
<1>1. PICK x \in {"barrier", "lock", "loop", "check"} :
        /\ Goto(w, x)
        /\ \/ wpc[w] = "created" /\ w \in threads /\ x = "barrier" /\ UNCHANGED svcStopped
           \/ Late
  BY DEF Arrive, RunReturn, StopService, WorkerLock, Late, Leaving, serviceVars
<1>2. UNCHANGED <<work, cpc, waits, promised, threads, outstanding, state>>
  BY DEF Arrive, RunReturn, StopService, WorkerLock, poolVars, serviceVars, clientVars
<1>3. Late' => Late
  BY <1>1 DEF Late, Leaving, Goto, CountInv, TypeOK
<1>4. w \in threads
  BY DEF Arrive, RunReturn, StopService, WorkerLock, CountInv, ThreadsInv
<1>5. SingleInv'
  <2>1. ~(Single /\ InWait /\ work)
    <3>1. wpc[w] # "reset" /\ (svcStopped \/ wpc[w] \notin {"run", "loop", "exec"})
      BY DEF Arrive, RunReturn, StopService, WorkerLock
    <3> QED
      BY <1>4, <3>1 DEF WaitInv, SingleInv
  <2> QED
    BY <2>1, <1>2 DEF SingleInv, Single, InWait
<1> QED
  BY <1>2, <1>3, <1>5, CalmStep

\* run begins; it finds no work only when nothing is left.
LEMMA RunBeginWait ==
    ASSUME CountInv, WaitInv, NEW w \in Workers, RunBegin(w)
    PROVE  WaitInv'
<1>1. UNCHANGED <<work, cpc, waits, promised, threads, outstanding, state, svcStopped>>
  BY DEF RunBegin, poolVars, serviceVars, clientVars
<1>2. CASE outstanding = 0
  <2>1. ~work
    BY <1>2, CountSays
  <2>2. ~(cpc \in {"constructor", "idle", "wait"} /\ Fresh)
    BY <2>1 DEF WaitInv, FreshInv
  <2>3. FreshInv'
    BY <2>2, <1>1 DEF WaitInv, FreshInv, Fresh, Single
  <2> QED
    BY <1>1, <1>2, <2>1, <2>3 DEF WaitInv, DrainInv, BackInv, SingleInv, InWait
<1>3. CASE outstanding # 0
  <2>1. Goto(w, "loop") /\ wpc[w] = "run"
    BY <1>3 DEF RunBegin
  <2>2. Late' => Late
    BY <2>1, <1>1 DEF Late, Leaving, Goto, CountInv, TypeOK
  <2>3. SingleInv'
    BY <2>1, <1>1 DEF WaitInv, SingleInv, Single, InWait, Goto, CountInv, TypeOK
  <2> QED
    BY <1>1, <2>2, <2>3, CalmStep
<1> QED
  BY <1>2, <1>3

\* A handler is taken: it is none that has ended.
LEMMA TakeWait ==
    ASSUME CountInv, WaitInv, NEW w \in Workers, Take(w)
    PROVE  WaitInv'
<1>1. /\ Goto(w, "exec") /\ wpc[w] = "loop"
      /\ state' = [state EXCEPT ![Head(queue)] = "running"]
      /\ queue # <<>>
      /\ UNCHANGED <<work, cpc, waits, promised, threads, outstanding, svcStopped>>
  BY DEF Take, poolVars, clientVars
<1>2. 1 \in DOMAIN queue /\ Head(queue) = queue[1] /\ queue[1] \in Handlers
  BY <1>1 DEF CountInv, TypeOK
<1>3. state[Head(queue)] = "posted"
  BY <1>2 DEF CountInv, OnceInv
<1>4. \A h \in promised : state[h] = "done" => state'[h] = "done"
  BY <1>1, <1>3 DEF CountInv, TypeOK
<1>5. Late' => Late
  BY <1>1 DEF Late, Leaving, Goto, CountInv, TypeOK
<1>6. SingleInv'
  BY <1>1 DEF WaitInv, SingleInv, Single, InWait, Goto, CountInv, TypeOK
<1> QED
  BY <1>1, <1>4, <1>5, <1>6, CalmStep

\* A handler is posted: not while Wait finds nothing left.
LEMMA ScheduleWait ==
    ASSUME CountInv, WaitInv, NEW h \in Handlers, Schedule(h), cpc = "idle" \/ Executing # {},
           UNCHANGED <<poolVars, svcStopped, wpc, cpc, current, clientVars>>
    PROVE  WaitInv'
<1>1. UNCHANGED <<work, cpc, waits, promised, threads, svcStopped, wpc>>
  BY DEF poolVars, clientVars
<1>2. Late' = Late
  BY <1>1 DEF Late, Leaving
<1>3. ~(InWait /\ outstanding = 0)
  BY CountSays DEF InWait
<1>4. \A g \in promised : state[g] = "done" => state'[g] = "done"
  BY DEF Schedule, CountInv, TypeOK
<1>5. SingleInv'
  BY <1>1 DEF WaitInv, SingleInv, Single, InWait
<1> QED
  BY <1>1, <1>2, <1>3, <1>4, <1>5, CalmStep

\* A handler ends; if it was the last work, nothing is left.
LEMMA HandlerEndsWait ==
    ASSUME CountInv, CountInv', WaitInv, NEW w \in Workers, HandlerEnds(w)
    PROVE  WaitInv'
<1>1. /\ wpc[w] = "exec"
      /\ state' = [state EXCEPT ![current[w]] = "done"]
      /\ outstanding' = outstanding - 1
      /\ UNCHANGED <<work, cpc, waits, promised, threads, svcStopped>>
  BY DEF HandlerEnds, poolVars, clientVars
<1>2. w \in Executing
  BY <1>1 DEF Executing
<1>3. \A h \in promised : state[h] = "done" => state'[h] = "done"
  BY <1>1 DEF CountInv, TypeOK
<1>4. CASE outstanding = 1
  <2>1. ~work
    BY <1>2, <1>4, CountSays DEF CountInv, TypeOK
  <2>2. ~(cpc \in {"constructor", "idle", "wait"} /\ Fresh)
    BY <2>1 DEF WaitInv, FreshInv
  <2>3. FreshInv'
    BY <2>2, <1>1 DEF WaitInv, FreshInv, Fresh, Single
  <2>4. outstanding' = 0
    BY <1>1, <1>4
  <2> QED
    BY <1>1, <2>1, <2>3, <2>4 DEF WaitInv, DrainInv, BackInv, SingleInv, InWait
<1>5. CASE outstanding # 1
  <2>1. Goto(w, "loop")
    BY <1>5 DEF HandlerEnds
  <2>2. Late' => Late
    BY <2>1, <1>1 DEF Late, Leaving, Goto, CountInv, TypeOK
  <2>3. SingleInv'
    BY <2>1, <1>1 DEF WaitInv, SingleInv, Single, InWait, Goto, CountInv, TypeOK
  <2>4. outstanding # 0
    BY <1>2, CountSays
  <2> QED
    BY <1>1, <1>3, <2>2, <2>3, <2>4, CalmStep
<1> QED
  BY <1>4, <1>5

\* A worker leaves, goes on, or makes new work_ for a Wait that is complete.
LEMMA WorkerCheckWait ==
    ASSUME CountInv, WaitInv, NEW w \in Workers, WorkerCheck(w)
    PROVE  WaitInv'
<1>1. /\ wpc[w] = "check"
      /\ UNCHANGED <<threads, stopped, svcStopped, cpc, state, waits, promised>>
  BY DEF WorkerCheck, clientVars
<1>2. Late /\ w \in threads
  BY <1>1 DEF Late, Leaving, CountInv, ThreadsInv
<1>3. CASE stopped
  BY <1>1, <1>3 DEF CountInv, ClientInv, WaitInv, FreshInv, DrainInv, BackInv, SingleInv, InWait
<1>4. CASE ~stopped /\ work
  <2>1. Goto(w, "run") /\ UNCHANGED <<work, outstanding>>
    BY <1>4 DEF WorkerCheck
  <2>2. ~(Single /\ InWait /\ work)
    BY <1>1, <1>2 DEF WaitInv, SingleInv
  <2>3. SingleInv'
    BY <1>1, <2>1, <2>2 DEF SingleInv, Single, InWait
  <2> QED
    BY <1>1, <1>2, <2>1, <2>3, CalmStep
<1>5. CASE ~stopped /\ ~work
  <2>1. Goto(w, "reset") /\ work' = TRUE
    BY <1>5 DEF WorkerCheck
  <2>2. FreshInv'
    BY <1>1, <1>5 DEF WaitInv, FreshInv, Fresh, Single
  <2>3. DrainInv'
    BY <2>1 DEF DrainInv
  <2>4. BackInv'
    <3>1. InWait => outstanding = 0
      BY <1>2, <1>5 DEF WaitInv, DrainInv
    <3> QED
      BY <1>1, <3>1, CountSays DEF BackInv, InWait
  <2>5. SingleInv'
    BY <1>1, <1>2, <2>1 DEF SingleInv, Single, Goto, CountInv, TypeOK
  <2> QED
    BY <2>2, <2>3, <2>4, <2>5 DEF WaitInv
<1> QED
  BY <1>3, <1>4, <1>5 DEF CountInv, TypeOK

\* A worker resets the service and notifies.
LEMMA WorkerResetWait ==
    ASSUME CountInv, WaitInv, NEW w \in Workers, WorkerReset(w)
    PROVE  WaitInv'
<1>1. /\ wpc[w] = "reset" /\ Goto(w, "run") /\ svcStopped' = FALSE
      /\ cpc' = cpc \/ {cpc, cpc'} \subseteq {"sleep", "woken"}
      /\ UNCHANGED <<threads, work, outstanding, state, waits, promised>>
  BY DEF WorkerReset, clientVars
<1>2. Late /\ w \in threads
  BY <1>1 DEF Late, Leaving, CountInv, ThreadsInv
<1>3. SingleInv'
  BY <1>1, <1>2 DEF SingleInv, Single, Goto, CountInv, TypeOK
<1> QED
  BY <1>1, <1>2, <1>3, CalmStep

\* The barrier opens.
LEMMA OpenBarrierWait ==
    ASSUME CountInv, WaitInv, OpenBarrier
    PROVE  WaitInv'
<1>1. /\ cpc = "constructor" /\ cpc' = "idle"
      /\ \A w \in Workers : wpc'[w] \in {"run", "created"}
      /\ UNCHANGED <<work, svcStopped, threads, waits>>
  BY DEF OpenBarrier, poolVars, serviceVars, clientVars
<1>2. Fresh' => Fresh
  BY <1>1 DEF Fresh, Single
<1>3. FreshInv'
  BY <1>1, <1>2 DEF WaitInv, FreshInv, Late, Leaving
<1> QED
  BY <1>1, <1>3 DEF WaitInv, DrainInv, BackInv, SingleInv, InWait

\* Wait begins, with workers that are all in run: those of a pool of several
\* threads have not yet been stopped.
LEMMA WaitBeginWait ==
    ASSUME CountInv, WaitInv, WaitBegin, threads # {},
           \A n \in DOMAIN MaxWaits : n > 1 => MaxWaits[n] <= 1
    PROVE  WaitInv'
<1>1. /\ cpc = "idle" /\ cpc' = "wait"
      /\ waits < MaxWaits[Cardinality(threads)]
      /\ UNCHANGED <<work, svcStopped, wpc, threads>>
  BY DEF WaitBegin, poolVars, serviceVars
<1>2. Single \/ waits = 0
  <2>1. IsFiniteSet(threads) /\ Cardinality(threads) \in 1 .. Cardinality(Workers)
    <3>1. IsFiniteSet(threads) /\ Cardinality(threads) <= Cardinality(Workers)
      BY PoolAssumption, FS_Subset DEF CountInv, TypeOK
    <3>2. Cardinality(threads) \in Nat /\ Cardinality(threads) # 0 /\ Cardinality(Workers) \in Nat
      BY <3>1, PoolAssumption, FS_CardinalityType, FS_EmptySet
    <3> QED
      BY <3>1, <3>2
  <2>2. CASE Cardinality(threads) = 1
    <3>1. PICK x : threads = {x}
      BY <2>1, <2>2, FS_Singleton
    <3>2. x \in Workers
      BY <3>1 DEF CountInv, TypeOK
    <3> QED
      BY <3>1, <3>2 DEF Single
  <2>3. CASE Cardinality(threads) # 1
    <3>1. DOMAIN MaxWaits = 1 .. Cardinality(Workers) /\ MaxWaits[Cardinality(threads)] \in Nat
      BY <2>1, PoolAssumption
    <3>2. Cardinality(threads) > 1 /\ Cardinality(threads) \in DOMAIN MaxWaits
      BY <2>1, <2>3, <3>1
    <3>3. MaxWaits[Cardinality(threads)] <= 1
      BY <3>2
    <3> QED
      BY <1>1, <3>1, <3>3 DEF CountInv, TypeOK
  <2> QED
    BY <2>2, <2>3
<1>3. work /\ ~Late
  BY <1>1, <1>2 DEF WaitInv, FreshInv, Fresh
<1>4. Fresh'
  <2>1. waits' = waits + 1
    BY DEF WaitBegin
  <2> QED
    BY <1>1, <1>2, <2>1 DEF Fresh, Single
<1>5. FreshInv'
  BY <1>1, <1>3, <1>4 DEF FreshInv, Late, Leaving
<1> QED
  BY <1>1, <1>5 DEF WaitInv, DrainInv, BackInv, SingleInv, InWait

\* Wait resets work_: the workers are in run, and if it was the last work
\* nothing is left.
LEMMA WaitLockWait ==
    ASSUME CountInv, WaitInv, WaitLock
    PROVE  WaitInv'
<1>1. /\ work' = FALSE
      /\ \/ outstanding' = 0 /\ cpc' = "stopWait"
         \/ cpc' = "sleep"
  BY ResetWorkCount DEF WaitLock
<1>2. cpc = "wait" /\ UNCHANGED <<svcStopped, wpc>>
  BY DEF WaitLock
<1>3. ~Late'
  BY <1>2 DEF WaitInv, FreshInv, Late, Leaving
<1>4. DrainInv'
  BY <1>3 DEF DrainInv
<1> QED
  BY <1>1, <1>4 DEF WaitInv, FreshInv, BackInv, SingleInv

\* The service stops, nothing being left.
LEMMA WaitStopWait ==
    ASSUME CountInv, WaitInv, WaitStop
    PROVE  WaitInv'
<1>1. cpc = "stopWait" /\ cpc' = "sleep" /\ UNCHANGED <<work, outstanding>>
  BY DEF WaitStop
<1>2. ~work /\ outstanding = 0
  BY <1>1 DEF CountInv, ClientInv
<1> QED
  BY <1>1, <1>2 DEF WaitInv, FreshInv, DrainInv, BackInv, SingleInv

\* Wait returns with the only worker in run again, or goes back to sleep.
LEMMA WaitCheckWait ==
    ASSUME CountInv, WaitInv, WaitCheck
    PROVE  WaitInv'
<1>1. /\ cpc = "woken" /\ mutex = Null
      /\ cpc' = IF work THEN "idle" ELSE "sleep"
      /\ UNCHANGED <<work, svcStopped, outstanding, wpc, threads, waits, promised, state>>
  BY DEF WaitCheck, poolVars, serviceVars, clientVars
<1>2. CASE ~work
  <2>1. Late' = Late
    BY <1>1 DEF Late, Leaving
  <2>2. SingleInv'
    BY <1>1, <1>2 DEF SingleInv
  <2>3. {cpc, cpc'} \subseteq {"sleep", "woken"}
    BY <1>1, <1>2
  <2> QED
    BY <1>1, <2>1, <2>2, <2>3, CalmStep
<1>3. CASE work
  <2>1. cpc' = "idle" /\ waits > 0
    BY <1>1, <1>3 DEF CountInv, ClientInv, InWait
  <2>2. ASSUME Single PROVE ~Late
    <3>1. PICK u \in Workers : threads = {u}
      BY <2>2 DEF Single
    <3>2. wpc[u] \notin {"check", "reset"}
      BY <1>1, PoolAssumption DEF CountInv, MutexInv
    <3>3. ~svcStopped /\ wpc[u] \in {"run", "loop", "exec"}
      BY <1>1, <1>3, <2>2, <3>1, <3>2 DEF WaitInv, SingleInv, InWait
    <3>4. \A w \in Workers : w # u => wpc[w] = "created"
      BY <3>1 DEF CountInv, ThreadsInv
    <3> QED
      BY <3>3, <3>4 DEF Late, Leaving
  <2>3. FreshInv'
    <3>1. Fresh' => Single
      BY <1>1, <2>1 DEF Fresh, Single, CountInv, TypeOK
    <3> QED
      BY <1>1, <1>3, <2>1, <2>2, <3>1 DEF FreshInv, Late, Leaving
  <2> QED
    BY <2>1, <2>3 DEF WaitInv, DrainInv, BackInv, SingleInv, InWait
<1> QED
  BY <1>2, <1>3 DEF CountInv, TypeOK

\* The destructor is after every Wait, and nothing is a step of no one.
LEMMA OtherWait ==
    ASSUME CountInv, WaitInv,
           \/ SpuriousWakeup
           \/ DestructorBegin \/ DestructorLock \/ DestructorStop \/ DestructorJoin
           \/ UNCHANGED vars
    PROVE  WaitInv'
<1>1. CASE SpuriousWakeup \/ UNCHANGED vars
  <2>1. /\ cpc' = cpc \/ {cpc, cpc'} \subseteq {"sleep", "woken"}
        /\ UNCHANGED <<work, svcStopped, outstanding, wpc, threads, waits, promised, state>>
    BY <1>1 DEF SpuriousWakeup, vars, poolVars, serviceVars, clientVars
  <2>2. Late' = Late
    BY <2>1 DEF Late, Leaving
  <2>3. SingleInv'
    BY <2>1 DEF WaitInv, SingleInv, Single, InWait
  <2> QED
    BY <2>1, <2>2, <2>3, CalmStep
<1>2. CASE DestructorBegin \/ DestructorLock \/ DestructorStop \/ DestructorJoin
  <2>1. cpc' \in {"destructor", "stop", "join", "gone"}
    BY <1>2, ResetWorkCount DEF DestructorBegin, DestructorLock, DestructorStop, DestructorJoin
  <2> QED
    BY <2>1 DEF WaitInv, FreshInv, DrainInv, BackInv, SingleInv, InWait
<1> QED
  BY <1>1, <1>2

\* The actions one by one.
LEMMA WaitStep ==
    ASSUME CountInv, CountInv', WaitInv, [Next]_vars, threads # {},
           \A n \in DOMAIN MaxWaits : n > 1 => MaxWaits[n] <= 1
    PROVE  WaitInv'
<1>1. ASSUME NEW w \in Workers, Arrive(w) \/ InRun(w) \/ ScheduleFromHandler(w) \/ WorkerLoop(w)
      PROVE  WaitInv'
  <2>1. CASE Arrive(w) \/ InRun(w)
    BY <2>1, WorkerWait, RunBeginWait, TakeWait, HandlerEndsWait DEF InRun
  <2>2. CASE ScheduleFromHandler(w)
    <3>1. w \in Executing
      BY <2>2 DEF ScheduleFromHandler, Executing
    <3> QED
      BY <2>2, <3>1, ScheduleWait DEF ScheduleFromHandler
  <2>3. CASE WorkerLoop(w)
    BY <2>3, WorkerWait, WorkerCheckWait, WorkerResetWait DEF WorkerLoop
  <2> QED
    BY <1>1, <2>1, <2>2, <2>3
<1>2. CASE ScheduleFromClient
  BY <1>2, ScheduleWait DEF ScheduleFromClient
<1>3. CASE ClientStep
  BY <1>3, WaitLockWait, WaitStopWait, WaitCheckWait, OtherWait DEF ClientStep
<1> QED
  BY <1>1, <1>2, <1>3, OpenBarrierWait, WaitBeginWait, OtherWait DEF Next, Terminated

\* Every handler posted before Wait has ended when it is about to return, on a
\* pool of one thread for any number of calls of Wait, on a larger pool for
\* the first call, wherever the workers are when Wait takes work_ away.  (A
\* second call on a larger pool may return early.)
THEOREM WaitSafety ==
    ASSUME \A n \in DOMAIN MaxWaits : n > 1 => MaxWaits[n] <= 1
    PROVE  Spec => []WaitIsComplete
<1> DEFINE Inv == CountInv /\ WaitInv /\ threads # {}
<1>1. Init => Inv
  <2> SUFFICES ASSUME Init PROVE Inv
    OBVIOUS
  <2>1. threads # {} /\ cpc = "constructor"
    BY DEF Init
  <2>2. ~Late /\ work
    BY DEF Init, Late, Leaving
  <2>3. WaitInv
    BY <2>1, <2>2 DEF WaitInv, FreshInv, DrainInv, BackInv, SingleInv, InWait
  <2> QED
    BY <2>1, <2>3, InitCount
<1>2. Inv /\ [Next]_vars => Inv'
  <2> SUFFICES ASSUME Inv, [Next]_vars PROVE Inv'
    OBVIOUS
  <2>1. CountInv'
    BY CountStep
  <2>2. threads' = threads
    BY DEF Next, Arrive, InRun, RunBegin, StopService, RunReturn, Take, HandlerEnds,
           ScheduleFromHandler, WorkerLoop, WorkerLock, WorkerCheck, WorkerReset, OpenBarrier,
           ScheduleFromClient, WaitBegin, SpuriousWakeup, DestructorBegin, ClientStep, WaitLock,
           WaitStop, WaitCheck, DestructorLock, DestructorStop, DestructorJoin, Terminated,
           vars, poolVars
  <2>3. WaitInv'
    BY <2>1, WaitStep
  <2> QED
    BY <2>1, <2>2, <2>3
<1>3. Inv => WaitIsComplete
  BY DEF WaitInv, BackInv, InWait, WaitIsComplete
<1> QED
  BY <1>1, <1>2, <1>3, PTL DEF Spec

=============================================================================
